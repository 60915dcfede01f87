-------------------------- MODULE SessionDispatch --------------------------
(***************************************************************************)
(* From a debounced batch of messages to a running pipeline                *)
(* (src/dispatcher/debouncer/index.ts over SessionQueue and                *)
(* SessionAbortManager).                                                   *)
(*                                                                         *)
(* A flush picks the lane of the session its last message goes to, and a   *)
(* direct message with plain text cancels what its session was doing:      *)
(* queued tasks are invalidated, the running one gets its signal aborted.  *)
(* Aborting is cooperative: the aborted pipeline goes on until it returns. *)
(* A task stands for the batch it was enqueued for.                        *)
(***************************************************************************)
EXTENDS Naturals

CONSTANTS
    Directs,        \* peers of direct chats
    Groups,         \* group chats
    Tasks, NoTask, NoKey,
    MaxGeneration   \* bound on a session's generation counter

Bases == Directs \cup Groups

DirectKinds == {"normal", "media", "blank", "abort", "btw"}
GroupKinds == {"group", "ownerStop"}
StopKinds == {"abort", "ownerStop"}

\* Lanes of a session: the ordinary one, the control one, one per /btw with a
\* sequence number, and the one shared by /btw messages without.
Lanes == {"base", "control", "btw"} \cup Tasks
SessionKeys == Bases \X Lanes
BaseKey(b) == <<b, "base">>

ASSUME DispatchConstants ==
    /\ Directs \cap Groups = {}
    /\ NoTask \notin Tasks /\ NoKey \notin Bases \cup SessionKeys
    /\ MaxGeneration \in Nat

VARIABLES
    chains, generations, status, taskKey, enqueuedGen, prev, ahead,  \* SessionQueue
    controllers, aborted,                                            \* SessionAbortManager
    kind,       \* what each task's last message was
    base,       \* the session of each task, NoKey before its flush
    newest,     \* history: the latest normal message flushed on each session
    discarded   \* history: tasks that were waiting when their session was cancelled

Queue == INSTANCE SessionQueue WITH Keys <- SessionKeys
Manager == INSTANCE SessionAbortManager WITH
    Sessions <- Bases, Owners <- Tasks, NoOwner <- NoTask

queueVars == <<chains, generations, status, taskKey, enqueuedGen, prev, ahead>>
managerVars == <<controllers, aborted>>
historyVars == <<newest, discarded>>
vars == <<queueVars, managerVars, kind, base, historyVars>>

TypeOK ==
    /\ Queue!QueueTypeOK
    /\ Manager!ManagerTypeOK
    /\ kind \in [Tasks -> DirectKinds \cup GroupKinds]
    /\ base \in [Tasks -> Bases \cup {NoKey}]
    /\ newest \in [Bases -> Tasks \cup {NoTask}]
    /\ discarded \subseteq Tasks

Init ==
    /\ Queue!QueueInit
    /\ Manager!ManagerInit
    /\ kind = [t \in Tasks |-> "blank"]
    /\ base = [t \in Tasks |-> NoKey]
    /\ newest = [b \in Bases |-> NoTask]
    /\ discarded = {}

-----------------------------------------------------------------------------
\* Mutant: a stop request takes the lane of the reply it is to stop.
LanesWithoutControl(t, m) == IF m = "btw" THEN {"btw", t} ELSE {"base"}

\* buildSessionKey: the lanes a batch whose last message is of kind m may take.
\* A /btw message has a sequence number of its own or none at all.
LanesOf(t, m) ==
    CASE m \in StopKinds -> {"control"}
      [] m = "btw" -> {"btw", t}
      [] OTHER -> {"base"}

\* isDirectNormalMessage: direct, plain text, no media, no command.
IsDirectNormal(m) == m = "normal"

\* The kinds of last message that cancel the waiting tasks of the session.
CancelsWaiting(m) == m = "ownerStop" \/ IsDirectNormal(m)

\* Mutant: the owner's /stop does not cancel what waits.
GenerationsAfterNormal(b, m) ==
    IF IsDirectNormal(m) THEN Queue!Invalidated(BaseKey(b)) ELSE generations

\* sessionQueue.invalidate(baseKey) when the message calls for it.
GenerationsAfter(b, m) ==
    IF CancelsWaiting(m) THEN Queue!Invalidated(BaseKey(b)) ELSE generations

\* flushDebouncedItems: invalidate, rotate and enqueue in one turn of the event
\* loop.  A batch of several messages with neither text nor media is dropped
\* without a trace and is no step here.
Flush(t, b, m, lane) ==
    /\ CancelsWaiting(m) => generations[BaseKey(b)] < MaxGeneration
    /\ generations' = GenerationsAfter(b, m)
    /\ IF IsDirectNormal(m)
         THEN Manager!Rotate(b, t) /\ newest' = [newest EXCEPT ![b] = t]
         ELSE UNCHANGED <<managerVars, newest>>
    /\ Queue!EnqueueWith(t, <<b, lane>>, GenerationsAfter(b, m))
    /\ kind' = [kind EXCEPT ![t] = m]
    /\ base' = [base EXCEPT ![t] = b]
    /\ discarded' = IF CancelsWaiting(m)
                      THEN discarded \cup {u \in Tasks : /\ taskKey[u] = BaseKey(b)
                                                         /\ status[u] = "queued"}
                      ELSE discarded

FlushDirect ==
    \E t \in Tasks, b \in Directs, m \in DirectKinds :
        \E lane \in LanesOf(t, m) : Flush(t, b, m, lane)

FlushGroup ==
    \E t \in Tasks, b \in Groups, m \in GroupKinds :
        \E lane \in LanesOf(t, m) : Flush(t, b, m, lane)

\* The chain reaches the task: skip it or hand it to the pipeline.
TaskTurn(t) ==
    /\ Queue!Then(t)
    /\ UNCHANGED <<managerVars, kind, base, historyVars>>

\* pipeline.execute returned or threw; cleanupSessionSignal in its finally.
PipelineEnds(t) ==
    /\ Queue!Settle(t)
    /\ IF IsDirectNormal(kind[t])
         THEN Manager!Cleanup(base[t], t)
         ELSE UNCHANGED managerVars
    /\ UNCHANGED <<kind, base, historyVars>>

LinkSettles(t) ==
    /\ Queue!Finally(t)
    /\ UNCHANGED <<managerVars, kind, base, historyVars>>

Continuation(t) == TaskTurn(t) \/ LinkSettles(t)

Next ==
    \/ FlushDirect
    \/ FlushGroup
    \/ \E t \in Tasks : Continuation(t) \/ PipelineEnds(t)

\* The event loop runs promise callbacks; nothing is assumed of pipelines.
Spec == Init /\ [][Next]_vars /\ \A t \in Tasks : WF_vars(Continuation(t))

-----------------------------------------------------------------------------
\* A session has a controller exactly while its newest plain message is under
\* way: an older pipeline's cleanup never takes it away (the next message could
\* then not abort the reply), and none is left behind by tasks that were
\* skipped and so never clean up.
ControllerIsNewest ==
    \A b \in Bases :
        controllers[b] = IF newest[b] # NoTask /\ status[newest[b]] \in {"queued", "running"}
                           THEN newest[b] ELSE NoTask

\* Once a newer plain message has been flushed on a direct session, every
\* older pipeline of that session still running has been told to abort, and
\* the newest one can be told when the next message comes.
LatestWins ==
    /\ \A t \in Tasks :
         (status[t] = "running" /\ kind[t] = "normal" /\ t # newest[base[t]]) => t \in aborted
    /\ ControllerIsNewest

\* The latest plain message of a direct session is never the one that gets
\* aborted or skipped, whatever the older ones do while they wind down.
NewestSurvives ==
    \A b \in Bases : newest[b] # NoTask =>
        /\ newest[b] \notin aborted
        /\ status[newest[b]] # "skipped"

\* A waiting task is skipped exactly when its session was cancelled after it
\* was enqueued, by a newer plain message or by the group owner's /stop.
SkippedExactlyIfDiscarded ==
    [][\A t \in Tasks : status[t] = "queued" /\ status'[t] # "queued" =>
          (status'[t] = "skipped" <=> t \in discarded)]_vars

\* A stop request gets through although the reply it should stop never ends:
\* it only ever waits for other stop requests of its session.
StopGetsThrough ==
    (\A t \in Tasks : []<>(kind[t] \in StopKinds => status[t] # "running")) =>
        \A t \in Tasks :
            (kind[t] \in StopKinds /\ status[t] = "queued") ~> (status[t] = "done")
=============================================================================
