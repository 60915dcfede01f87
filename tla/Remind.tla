------------------------------- MODULE Remind -------------------------------
(***************************************************************************)
(* The reminder tool of the agent (src/business/tools/remind.ts): calls    *)
(* that add, list and remove jobs of the host's scheduler, through the     *)
(* gateway, through the command line, or by telling the agent to use its   *)
(* cron tool.                                                              *)
(*                                                                         *)
(* The scheduler handles a command some time after it was sent, even after *)
(* the tool has given up waiting for it; which way is open is a matter of  *)
(* the host's version and does not change.                                 *)
(***************************************************************************)
EXTENDS Integers, FiniteSets

CONSTANTS
    Calls,
    Requests,       \* what the agent may ask for
    Times,          \* what it may give as time, with NoTime for none
    NoTime,
    Conversations,
    NoConversation, \* the session names neither a group nor a user
    OldJobs,        \* jobs of the scheduler that are there already
    NoJob,
    Second,         \* the unit in which a delay is told to the scheduler
    MinDelay,       \* 30 s
    Timeout,        \* DEFAULT_GATEWAY_TIMEOUT_MS, DEFAULT_CLI_TIMEOUT_MS
    MaxTime         \* bound of the clock

TimeType == [kind : {"relative", "absolute", "cron"}, ms : Nat]
RequestType ==
    [action : {"add", "list", "remove", "other"}, content : BOOLEAN, time : Times,
     jobId : Nat, to : Conversations \cup {NoConversation}]
JobType == [id : Nat, by : {NoJob}, to : Conversations, at : Int]

ASSUME RemindConstants ==
    /\ NoTime \in Times /\ NoConversation \notin Conversations /\ NoJob \notin Calls
    /\ Times \subseteq TimeType /\ Requests \subseteq RequestType /\ OldJobs \subseteq JobType
    /\ IsFiniteSet(OldJobs) /\ \A j \in OldJobs : j.id \in 1 .. Cardinality(OldJobs)
    /\ Second \in Nat \ {0} /\ MinDelay \in Nat \ {0} /\ Timeout \in Nat /\ MaxTime \in Nat

VARIABLES
    now,
    way,            \* what resolveCallGatewayTool and resolveRunPluginCommand found
    request,
    stage,          \* of a call: "idle", "waiting" for a command, "told"
    sentAt,
    command,        \* of each call, at the scheduler
    told,           \* the status the agent gets
    shown,          \* the jobs a list returns
    raw,            \* calls that return them as the command line printed them
    jobs,           \* ids of the scheduler's jobs
    made,           \* history: all jobs there ever were
    listed,         \* history: the jobs as they were when a list was made
    unheard         \* history: calls that gave up waiting

callVars == <<request, stage, sentAt, told, shown, raw, unheard>>
schedulerVars == <<command, jobs, made, listed>>
remindVars == <<now, way, callVars, schedulerVars>>

RemindInit ==
    /\ now = 0 /\ way \in {"gateway", "cli", "legacy"}
    /\ request \in [Calls -> Requests]
    /\ stage = [c \in Calls |-> "idle"] /\ sentAt = [c \in Calls |-> 0]
    /\ command = [c \in Calls |-> "none"] /\ told = [c \in Calls |-> "nothing"]
    /\ shown = [c \in Calls |-> {}] /\ listed = [c \in Calls |-> {}]
    /\ made = OldJobs /\ jobs = {j.id : j \in OldJobs} /\ unheard = {} /\ raw = {}

-----------------------------------------------------------------------------
(* Parameters *)

\* parseAndValidateTime: what is past, too soon or unreadable is refused.
IsTime(time) ==
    \/ time.kind = "absolute" /\ time.ms - now >= MinDelay
    \/ time.kind = "relative" /\ time.ms >= MinDelay

\* Anything of three to six words passes for a cron expression.
IsCron(time) == time.kind = "cron"

AddIsValid(r) ==
    /\ r.content /\ r.time # NoTime /\ r.to # NoConversation
    /\ IsCron(r.time) \/ IsTime(r.time)

\* An "add" is validated anew by every tier that is tried.
IsValid(r) ==
    \/ r.action = "list"
    \/ r.action = "remove" /\ r.jobId # 0
    \/ r.action = "add" /\ AddIsValid(r)

\* resolveOnceBase: an absolute time is passed on, a delay in whole seconds.
RoundedDelay(ms) == ((ms + Second \div 2) \div Second) * Second
StartsAt(time) ==
    IF time.kind = "relative" THEN now + RoundedDelay(time.ms) ELSE time.ms

-----------------------------------------------------------------------------
(* The scheduler *)

\* Ids are given in order.
Adds(c) ==
    LET id == Cardinality(made) + 1 IN
    /\ made' = made \cup {[id |-> id, by |-> c, to |-> request[c].to, at |-> StartsAt(request[c].time)]}
    /\ jobs' = jobs \cup {id}

\* A command takes effect, or is refused without one.
Handle(c) ==
    /\ command[c] = "sent"
    /\ \/ /\ command' = [command EXCEPT ![c] = "refused"]
          /\ UNCHANGED <<jobs, made, listed>>
       \/ /\ command' = [command EXCEPT ![c] = "done"]
          /\ CASE request[c].action = "add" -> Adds(c) /\ UNCHANGED listed
               [] request[c].action = "remove" ->
                    jobs' = jobs \ {request[c].jobId} /\ UNCHANGED <<made, listed>>
               [] OTHER -> listed' = [listed EXCEPT ![c] = jobs] /\ UNCHANGED <<jobs, made>>
    /\ UNCHANGED <<now, way, callVars>>

\* deleteAfterRun
Fire ==
    /\ \E j \in made :
         /\ j.id \in jobs /\ (j.by # NoJob => ~IsCron(request[j.by].time)) /\ now >= j.at
         /\ jobs' = jobs \ {j.id}
    /\ UNCHANGED <<now, way, callVars, command, made, listed>>

-----------------------------------------------------------------------------
(* The tool *)

Tell(c, status) ==
    /\ stage' = [stage EXCEPT ![c] = "told"]
    /\ told' = [told EXCEPT ![c] = status]

\* executeLegacy: the agent is told what to do.
Legacy(c) == Tell(c, IF IsValid(request[c]) THEN "PENDING_CRON_CALL" ELSE "error")

\* Ids are not guessed: a job that is to be removed was there when it was named.
Names(id) == id = 0 \/ \E j \in made : j.id = id

Execute(c) ==
    /\ stage[c] = "idle"
    /\ request[c].action = "remove" => Names(request[c].jobId)
    /\ IF way = "legacy" \/ ~IsValid(request[c])
         THEN Legacy(c) /\ UNCHANGED <<sentAt, command>>
         ELSE /\ stage' = [stage EXCEPT ![c] = "waiting"]
              /\ sentAt' = [sentAt EXCEPT ![c] = now]
              /\ command' = [command EXCEPT ![c] = "sent"]
              /\ UNCHANGED told
    /\ UNCHANGED <<now, way, request, shown, raw, unheard, jobs, made, listed>>

\* filterJobsByTarget
Filtered(ids, to) == {j.id : j \in {x \in made : x.id \in ids /\ to \in {x.to, NoConversation}}}

\* A command that fails ends the call, but for the command line, behind which the
\* agent's own tool is tried.
Fails(c) == IF way = "cli" THEN Legacy(c) ELSE Tell(c, "error")

\* Mutant: the exit code is not looked at.
HeardWithoutCode(c) ==
    /\ stage[c] = "waiting" /\ command[c] \in {"done", "refused"}
    /\ Tell(c, "ok") /\ shown' = [shown EXCEPT ![c] = Filtered(listed[c], request[c].to)]
    /\ UNCHANGED <<now, way, request, sentAt, raw, unheard, schedulerVars>>

\* Mutant: output that cannot be read counts as a failure of the command.
HeardIfReadable(c) ==
    /\ stage[c] = "waiting" /\ command[c] \in {"done", "refused"}
    /\ \E readable \in BOOLEAN :
         IF command[c] = "refused" \/ ~readable THEN Fails(c) /\ UNCHANGED shown
         ELSE Tell(c, "ok") /\ shown' = [shown EXCEPT ![c] = Filtered(listed[c], request[c].to)]
    /\ UNCHANGED <<now, way, request, sentAt, raw, unheard, schedulerVars>>

\* The scheduler's answer.  What the command line prints for a list may not be
\* JSON: then it is passed on as it is, and the status is "ok" all the same.
Heard(c) ==
    /\ stage[c] = "waiting" /\ command[c] \in {"done", "refused"}
    /\ IF command[c] = "refused" THEN Fails(c) /\ UNCHANGED <<shown, raw>>
       ELSE /\ Tell(c, "ok")
            /\ \/ /\ shown' = [shown EXCEPT ![c] = Filtered(listed[c], request[c].to)]
                  /\ UNCHANGED raw
               \/ /\ way = "cli" /\ request[c].action = "list"
                  /\ shown' = [shown EXCEPT ![c] = listed[c]] /\ raw' = raw \cup {c}
    /\ UNCHANGED <<now, way, request, sentAt, unheard, schedulerVars>>

\* The answer is lost, or does not come in time.
GiveUp(c) ==
    /\ stage[c] = "waiting"
    /\ Fails(c)
    /\ unheard' = unheard \cup {c}
    /\ UNCHANGED <<now, way, request, sentAt, shown, raw, schedulerVars>>

\* The agent does as it was told, once, and the tool's parameters do the rest.
FollowUp(c) ==
    /\ told[c] = "PENDING_CRON_CALL" /\ request[c].action = "add"
    /\ told' = [told EXCEPT ![c] = "followed"]
    /\ Adds(c)
    /\ UNCHANGED <<now, way, request, stage, sentAt, shown, raw, unheard, command, listed>>

Tick ==
    /\ now < MaxTime /\ \A c \in Calls : stage[c] = "waiting" => now - sentAt[c] < Timeout
    /\ now' = now + 1
    /\ UNCHANGED <<way, callVars, schedulerVars>>

CallStep(c) == Execute(c) \/ Handle(c) \/ Heard(c) \/ GiveUp(c) \/ FollowUp(c)

RemindNext == Fire \/ Tick \/ \E c \in Calls : CallStep(c)

RemindSpec == RemindInit /\ [][RemindNext]_remindVars

-----------------------------------------------------------------------------
(* Properties *)

MadeBy(c) == {j \in made : j.by = c}

\* A delay counts from some moment of the call and is rounded to a second.
InTime(j, c) ==
    LET time == request[c].time IN
    /\ time.kind = "absolute" => j.at = time.ms
    /\ time.kind = "relative" =>
         j.at - sentAt[c] - time.ms \in -(Second \div 2) .. Timeout + Second \div 2

\* A list shows the jobs of this conversation as they were when it was made, all of
\* them and, unless the command line's output could not be read, no other.
ListIsOwn(c) ==
    LET own == {j.id : j \in {x \in made : x.to = request[c].to}} \cap listed[c] IN
    own \subseteq shown[c] /\ (c \notin raw => shown[c] = own)

\* 'status="ok" means it is done and the user may be told': there is one new job,
\* for this conversation and the time asked for, or the job is gone, or the list is
\* the conversation's own.  The exception is a list the plugin cannot parse: its
\* "ok" comes with the jobs of all conversations.
OkIsTrue ==
    \A c \in Calls : told[c] = "ok" =>
        CASE request[c].action = "add" ->
               /\ Cardinality(MadeBy(c)) = 1
               /\ \A j \in MadeBy(c) : j.to = request[c].to /\ InTime(j, c)
          [] request[c].action = "remove" -> request[c].jobId \notin jobs
          [] OTHER -> request[c].to # NoConversation => ListIsOwn(c)

\* However many ways are tried, a call leaves at most one job, and none if the
\* agent is told of an error, unless an answer of the scheduler was lost.
OnceUnlessUnheard ==
    \A c \in Calls \ unheard :
        /\ Cardinality(MadeBy(c)) <= 1
        /\ told[c] = "error" => MadeBy(c) = {}
=============================================================================
