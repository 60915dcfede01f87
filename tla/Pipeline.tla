------------------------------ MODULE Pipeline ------------------------------
(***************************************************************************)
(* The inbound pipeline: the engine (src/business/pipeline/engine.ts), the *)
(* chain create.ts assembles, and the middlewares up to the one that lets  *)
(* the agent answer (DispatchReply).                                       *)
(*                                                                         *)
(* A middleware either calls next or does not, and may wait for something  *)
(* before.  Everything between two awaits happens in one turn, so a run    *)
(* moves from one middleware that waits to the next: RunFrom.  What a      *)
(* middleware does depends on a message only through the attributes of     *)
(* MessageType: "command" is a control command outside the group           *)
(* whitelist, "groupCommand" one on it.                                    *)
(***************************************************************************)
EXTENDS Gateway, Sequences, SequencesExt, FiniteSetsExt

CONSTANTS
    Runs,           \* pipeline runs in flight
    Messages,       \* messages that may arrive
    Senders,
    NoMessage,      \* null
    CommandSenders, \* senders resolveControlCommandGate lets through
    RequireMention,
    Limit,          \* rateLimitPerHour
    Window,         \* RATE_WINDOW_MS
    CleanupInterval,
    MaxTime         \* bound of the clock

MessageType ==
    [group : BOOLEAN, from : Senders, atBot : BOOLEAN, media : BOOLEAN,
     namedOwner : {Owner, Unknown},     \* bot_owner_id of the message
     body : {"empty", "placeholder", "text", "long", "upgrade", "upgradeTo", "issueLog",
             "command", "groupCommand"}]

ASSUME PipelineConstants ==
    /\ Messages \subseteq MessageType /\ NoMessage \notin Messages
    /\ Owner \in Senders /\ CommandSenders \subseteq Senders
    /\ Limit \in Nat /\ Window \in Nat /\ MaxTime \in Nat /\ CleanupInterval \in Nat \ {0}
    /\ RequireMention \in BOOLEAN

VARIABLES
    run,            \* what each run waits for
    message, position,
    start,          \* the start of the gateway whose account object the run reads
    now,
    rateLimitMap, cleanupCounter,
    admitted        \* history: when messages of a sender passed the guard

runVars == <<run, message, position, start>>
rateVars == <<now, rateLimitMap, cleanupCounter, admitted>>
pipelineVars == <<runVars, rateVars>>

Chain ==
    <<"extract-content", "skip-self", "skip-placeholder", "resolve-quote", "record-member",
      "guard-special-command", "guard-command", "resolve-mention", "guard-group-command",
      "guard-send-access", "rewrite-body", "download-media", "resolve-route", "resolve-trace",
      "build-context", "prepare-sender", "dispatch-reply">>

Index(name) == CHOOSE i \in DOMAIN Chain : Chain[i] = name

\* One message that passed the guard: when, and which of its sender's.
Sends == [at : 0 .. MaxTime, nr : Nat]

PipelineTypeOK ==
    /\ run \in [Runs -> {"free", "queued", "answering", "notifying", "upgrading",
                         "downloading", "replying"}]
    /\ message \in [Runs -> Messages \cup {NoMessage}]
    /\ start \in [Runs -> Starts \cup {NoStart}]
    /\ position \in [Runs -> DOMAIN Chain]
    /\ now \in 0 .. MaxTime
    /\ \A s \in Senders : rateLimitMap[s] \subseteq Sends /\ admitted[s] \subseteq Sends
    /\ cleanupCounter \in 0 .. CleanupInterval - 1

RateInit ==
    /\ rateLimitMap = [s \in Senders |-> {}] /\ cleanupCounter = 0
    /\ admitted = [s \in Senders |-> {}]

PipelineInit ==
    /\ run = [r \in Runs |-> "free"]
    /\ message = [r \in Runs |-> NoMessage]
    /\ position = [r \in Runs |-> 1]
    /\ start = [r \in Runs |-> NoStart]
    /\ now = 0
    /\ RateInit

\* A new process starts with empty maps.
PipelineKilled ==
    /\ run' = [r \in Runs |-> "free"]
    /\ message' = [r \in Runs |-> NoMessage]
    /\ position' = [r \in Runs |-> 1]
    /\ start' = [r \in Runs |-> NoStart]
    /\ rateLimitMap' = [s \in Senders |-> {}] /\ cleanupCounter' = 0
    /\ admitted' = [s \in Senders |-> {}]
    /\ UNCHANGED now

-----------------------------------------------------------------------------
(* guard-send-access: the sliding window.  A sender's list of times is the *)
(* set of its sends: nothing looks at the order of the list.               *)

Recent(sends) == {e \in sends : now - e.at < Window}

\* Mutant: the limit may be exceeded by one.
IsRateLimitedOffByOne(s) == Limit = 0 \/ Cardinality(Recent(rateLimitMap[s])) > Limit

IsRateLimited(s) == Limit = 0 \/ Cardinality(Recent(rateLimitMap[s])) >= Limit

CleanupDue == (cleanupCounter + 1) % CleanupInterval = 0

Cleaned(sends) == Recent(sends)

\* isRateLimited writes the pruned list back; recordSend appends to it and
\* cleans all senders every CleanupInterval calls.
RecordSend(s) ==
    LET send == [at |-> now, nr |-> Cardinality(admitted[s])]
        appended == [rateLimitMap EXCEPT ![s] = Recent(@) \cup {send}]
    IN
    /\ rateLimitMap' = IF CleanupDue THEN [x \in Senders |-> Cleaned(appended[x])] ELSE appended
    /\ cleanupCounter' = (cleanupCounter + 1) % CleanupInterval
    /\ admitted' = [admitted EXCEPT ![s] = @ \cup {send}]

PruneOnly(s) ==
    /\ rateLimitMap' = [rateLimitMap EXCEPT ![s] = Recent(@)]
    /\ UNCHANGED <<cleanupCounter, admitted>>

-----------------------------------------------------------------------------
(* What each middleware does with a message *)

HasControlCommand(m) ==
    m.body \in {"command", "groupCommand"} /\ (m.group => m.atBot)

\* The owner the account has cached goes before the one the message names.
IsOwnerMessage(m, cachedOwner) ==
    LET owner == IF cachedOwner # Unknown THEN cachedOwner ELSE m.namedOwner IN
    owner # Unknown /\ m.from = owner

Applies(middleware, m) ==
    CASE middleware \in {"record-member", "resolve-mention"} -> m.group
      [] middleware = "guard-group-command" -> m.group /\ HasControlCommand(m)
      [] middleware = "guard-send-access"   -> ~m.group
      [] OTHER -> TRUE

IsSkippable(m) ==
    \/ m.body = "placeholder" /\ ~m.media
    \/ m.body = "empty" /\ (m.group => ~m.media /\ ~m.atBot)

SpecialCommand(m, cachedOwner) ==
    CASE m.body \in {"upgrade", "upgradeTo"} ->
            IF IsOwnerMessage(m, cachedOwner) THEN "upgrading" ELSE "answering"
      [] m.body = "issueLog" ->
            IF IsOwnerMessage(m, cachedOwner) /\ ~m.group THEN "notifying" ELSE "answering"
      [] OTHER -> "next"

SendAccess(m, bot) ==
    IF m.from = bot \/ m.body = "long" \/ IsRateLimited(m.from) THEN "stop" ELSE "next"

SkipSelf(m, bot) == IF m.from = bot THEN "stop" ELSE "next"

SkipPlaceholder(m) == IF IsSkippable(m) THEN "stop" ELSE "next"

GuardCommand(m) ==
    IF HasControlCommand(m) /\ m.from \notin CommandSenders THEN "stop" ELSE "next"

\* The message goes into the group's history instead: GroupHistory.
ResolveMention(m) == IF RequireMention /\ ~m.atBot THEN "stop" ELSE "next"

GuardGroupCommand(m, cachedOwner) ==
    IF m.body = "groupCommand" /\ IsOwnerMessage(m, cachedOwner) THEN "next" ELSE "answering"

\* Media of the message, of the one it quotes, or of a recent one of its sender:
\* the middleware waits even if there are none.
DownloadMedia == "downloading"

\* "next", "stop", or what the run waits for.
Does(middleware, m, bot, cachedOwner) ==
    CASE middleware = "skip-self"             -> SkipSelf(m, bot)
      [] middleware = "skip-placeholder"      -> SkipPlaceholder(m)
      [] middleware = "guard-special-command" -> SpecialCommand(m, cachedOwner)
      [] middleware = "guard-command"         -> GuardCommand(m)
      [] middleware = "resolve-mention"       -> ResolveMention(m)
      [] middleware = "guard-group-command"   -> GuardGroupCommand(m, cachedOwner)
      [] middleware = "guard-send-access"     -> SendAccess(m, bot)
      [] middleware = "download-media"        -> DownloadMedia
      [] middleware = "dispatch-reply"        -> "replying"
      [] OTHER -> "next"

\* runMiddlewareChain: the next middleware that applies and does not just call
\* next.  There is one: the last.
HaltsAt(i, m, bot, cachedOwner) ==
    Applies(Chain[i], m) /\ Does(Chain[i], m, bot, cachedOwner) # "next"

NextHalt(from, m, bot, cachedOwner) ==
    Min({i \in from .. Len(Chain) : HaltsAt(i, m, bot, cachedOwner)})

\* The run is over; nothing of it is kept.
Forget(r) ==
    /\ run' = [run EXCEPT ![r] = "free"]
    /\ message' = [message EXCEPT ![r] = NoMessage]
    /\ position' = [position EXCEPT ![r] = 1]
    /\ start' = [start EXCEPT ![r] = NoStart]

\* One turn of run r, from a position of the chain on.  The account it reads is
\* that of the start its message came in on, as it is now.
RunFrom(r, from) ==
    LET m == message[r]
        bot == botId[start[r]]
        guard == Index("guard-send-access")
        halt == NextHalt(from, m, bot, botOwnerId[start[r]])
        what == Does(Chain[halt], m, bot, botOwnerId[start[r]])
        reachesGuard == from <= guard /\ guard <= halt /\ ~m.group
    IN  /\ IF what = "stop" THEN Forget(r)
           ELSE /\ run' = [run EXCEPT ![r] = what]
                /\ position' = [position EXCEPT ![r] = halt]
                /\ UNCHANGED <<message, start>>
        /\ IF reachesGuard /\ halt > guard THEN RecordSend(m.from)
           ELSE IF reachesGuard /\ m.from # bot /\ m.body # "long" /\ Limit > 0
             THEN PruneOnly(m.from)
             ELSE UNCHANGED <<rateLimitMap, cleanupCounter, admitted>>
        /\ UNCHANGED now

-----------------------------------------------------------------------------
\* The debouncer and the session's queue have a message for later.
Queue(r, m, s) ==
    /\ run[r] = "free"
    /\ run' = [run EXCEPT ![r] = "queued"]
    /\ message' = [message EXCEPT ![r] = m]
    /\ start' = [start EXCEPT ![r] = s]
    /\ UNCHANGED <<position, rateVars>>

Begin(r) == run[r] = "queued" /\ RunFrom(r, 1)

\* The notice that a log export begins was sent.
Notified(r) == run[r] = "notifying" /\ RunFrom(r, position[r] + 1)

\* downloadMediasToLocalFiles: a file that fails is skipped, so the run goes on
\* whatever becomes of them.
DownloadsSettle(r) == run[r] = "downloading" /\ RunFrom(r, position[r] + 1)

\* A refusal was sent, or the reply is over: the run returns through the chain.
Return(r) ==
    /\ run[r] \in {"answering", "replying"}
    /\ Forget(r)
    /\ UNCHANGED rateVars

\* A middleware throws, or the send it waits for fails: the error leaves the chain.
Throw(r) ==
    /\ run[r] \in {"answering", "notifying"}
    /\ Forget(r)
    /\ UNCHANGED rateVars

\* performUpgrade returned; its last text is sent if there is one.
UpgradeReturns(r, hasText) ==
    /\ run[r] = "upgrading"
    /\ IF hasText THEN run' = [run EXCEPT ![r] = "answering"] /\ UNCHANGED <<message, position, start>>
       ELSE Forget(r)
    /\ UNCHANGED rateVars

Tick ==
    /\ now < MaxTime
    /\ now' = now + 1
    /\ UNCHANGED <<runVars, rateLimitMap, cleanupCounter, admitted>>

-----------------------------------------------------------------------------
\* Within any window a sender gets at most Limit messages through, and the map
\* forgets none of those that still count: neither the pruning on every check
\* nor the periodic cleanup of all senders lets more through, or refuses a
\* message because of one that is an hour old.
RateWindowExact ==
    \A s \in Senders :
        /\ Recent(rateLimitMap[s]) = Recent(admitted[s])
        /\ Cardinality(Recent(admitted[s])) <= Limit
=============================================================================
