--------------------------- MODULE ReplyHeartbeat ---------------------------
(***************************************************************************)
(* The "is typing" heartbeat of one reply                                  *)
(* (src/business/outbound/heartbeat.ts): RUNNING now and every two seconds *)
(* while the agent shows signs of life, FINISH once at the end, nothing at *)
(* all for a group that was dissolved.                                     *)
(*                                                                         *)
(* Each iteration of the loop is an await of the server's answer (capped   *)
(* by a timeout) and then a timer.  Iterations and timers are counted, so  *)
(* that two loops, or a timer whose handle was overwritten, would show.    *)
(***************************************************************************)
EXTENDS Naturals

VARIABLES
    active,          \* runningHeartbeatActive
    idle,            \* lastRunningEmitAt is more than 30 s ago
    awaiting,        \* loop iterations waiting for an answer
    armed,           \* loop timers armed in the event loop
    timer,           \* runningHeartbeatTimer is the handle of an armed timer
    everStarted,     \* runningEverStarted
    finishEmitted,
    finishAwaited,   \* FINISH was sent and not answered
    forceStopped,
    wire             \* history: the last heartbeat sent

loopVars == <<active, idle, awaiting, armed, timer>>
finishVars == <<finishEmitted, finishAwaited, forceStopped>>
heartbeatVars == <<loopVars, everStarted, finishVars, wire>>

HeartbeatTypeOK ==
    /\ active \in BOOLEAN /\ idle \in BOOLEAN
    /\ awaiting \in Nat /\ armed \in Nat /\ timer \in BOOLEAN
    /\ everStarted \in BOOLEAN
    /\ finishEmitted \in BOOLEAN /\ finishAwaited \in BOOLEAN /\ forceStopped \in BOOLEAN
    /\ wire \in {"none", "running", "finish"}

HeartbeatInit ==
    /\ active = FALSE /\ idle = FALSE
    /\ awaiting = 0 /\ armed = 0 /\ timer = FALSE
    /\ everStarted = FALSE
    /\ finishEmitted = FALSE /\ finishAwaited = FALSE /\ forceStopped = FALSE
    /\ wire = "none"

-----------------------------------------------------------------------------
\* stop(): clears the timer whose handle is kept; tmr are the armed ones.
StopFrom(tmr) ==
    /\ active' = FALSE
    /\ idle' = FALSE
    /\ armed' = IF timer THEN tmr - 1 ELSE tmr
    /\ timer' = FALSE

\* Mutant: every sign of life starts a loop.
EmitRunningAgain ==
    IF finishEmitted
      THEN UNCHANGED heartbeatVars
      ELSE /\ everStarted' = TRUE
           /\ idle' = FALSE
           /\ active' = TRUE
           /\ awaiting' = awaiting + 1 /\ wire' = "running"
           /\ UNCHANGED <<armed, timer, finishVars>>

\* emit(RUNNING): start the loop with a first heartbeat, or note that the
\* agent is alive.
EmitRunning ==
    IF finishEmitted
      THEN UNCHANGED heartbeatVars
      ELSE /\ everStarted' = TRUE
           /\ idle' = FALSE
           /\ active' = TRUE
           /\ IF active
                THEN UNCHANGED <<awaiting, wire>>
                ELSE awaiting' = awaiting + 1 /\ wire' = "running"
           /\ UNCHANGED <<armed, timer, finishVars>>

\* The agent has shown no sign of life for MAX_RUNNING_HEARTBEAT_IDLE_MS.
GoesIdle ==
    /\ active /\ ~idle
    /\ idle' = TRUE
    /\ UNCHANGED <<active, awaiting, armed, timer, everStarted, finishVars, wire>>

\* The loop's timer: the next heartbeat, unless it is over or the agent idle.
LoopFires ==
    /\ armed > 0
    /\ armed' = armed - 1
    /\ timer' = FALSE
    /\ IF finishEmitted \/ ~active
         THEN UNCHANGED <<active, idle, awaiting, wire>>
         ELSE IF idle
                THEN active' = FALSE /\ idle' = FALSE /\ UNCHANGED <<awaiting, wire>>
                ELSE awaiting' = awaiting + 1 /\ wire' = "running" /\ UNCHANGED <<active, idle>>
    /\ UNCHANGED <<everStarted, finishVars>>

\* abortHeartbeat(): the group is gone.
AbortHeartbeat ==
    /\ forceStopped' = TRUE
    /\ finishEmitted' = TRUE
    /\ StopFrom(armed)

\* A RUNNING heartbeat was answered, refused, or timed out.
RunningSettles(dissolved) ==
    /\ awaiting > 0
    /\ awaiting' = awaiting - 1
    /\ IF dissolved
         THEN AbortHeartbeat /\ UNCHANGED finishAwaited
         ELSE /\ IF finishEmitted \/ ~active
                   THEN UNCHANGED <<armed, timer>>
                   ELSE armed' = armed + 1 /\ timer' = TRUE
              /\ UNCHANGED <<active, idle, finishVars>>
    /\ UNCHANGED <<everStarted, wire>>

\* The FINISH heartbeat was answered, refused, or timed out.
FinishSettles(dissolved) ==
    /\ finishAwaited
    /\ finishAwaited' = FALSE
    /\ IF dissolved THEN AbortHeartbeat
       ELSE UNCHANGED <<active, idle, armed, timer, finishEmitted, forceStopped>>
    /\ UNCHANGED <<awaiting, everStarted, wire>>

\* Mutant: FINISH is sent without being noted or stopping the loop.
FinishWithoutStop ==
    /\ IF everStarted /\ ~forceStopped /\ ~finishEmitted
         THEN finishAwaited' = TRUE /\ wire' = "finish"
         ELSE UNCHANGED <<finishAwaited, wire>>
    /\ UNCHANGED <<active, idle, armed, timer, awaiting, everStarted, finishEmitted, forceStopped>>

\* finishIfNeeded()
FinishIfNeeded ==
    /\ StopFrom(armed)
    /\ IF everStarted /\ ~forceStopped /\ ~finishEmitted
         THEN finishEmitted' = TRUE /\ finishAwaited' = TRUE /\ wire' = "finish"
         ELSE UNCHANGED <<finishEmitted, finishAwaited, wire>>
    /\ UNCHANGED <<awaiting, everStarted, forceStopped>>
=============================================================================
