---------------------------- MODULE SessionQueue ----------------------------
(***************************************************************************)
(* The per-session serial queue (src/dispatcher/queue/session-queue.ts).   *)
(*                                                                         *)
(* Every enqueue() builds one link of a promise chain: a .then that        *)
(* compares generations and runs the task or skips it, a .catch that       *)
(* swallows a failure, a .finally that drops the map entries of an idle    *)
(* session.  A link is a task here; the step between two callbacks of a    *)
(* link is where the event loop can run anything else, another enqueue or  *)
(* invalidate of the same session included.                                *)
(***************************************************************************)
EXTENDS Naturals

CONSTANTS
    Keys,           \* session keys
    Tasks,          \* task identities; each is enqueued at most once
    NoKey,          \* the session of a task that was not enqueued
    NoTask,         \* absence of a chain or of a predecessor
    MaxGeneration   \* bound on a generation counter

ASSUME QueueConstants ==
    /\ NoKey \notin Keys
    /\ NoTask \notin Tasks
    /\ MaxGeneration \in Nat

VARIABLES
    chains,       \* Map sessionKey -> last link of the chain (NoTask: no entry)
    generations,  \* Map sessionKey -> generation (0: no entry, as `?? 0` reads it)
    status,       \* where each link is in its life
    taskKey,      \* the session each task was enqueued on
    enqueuedGen,  \* generation captured by enqueue()
    prev,         \* the promise a link waits for (NoTask: an already resolved one)
    ahead         \* history: unfinished tasks of the session when t was enqueued

queueVars == <<chains, generations, status, taskKey, enqueuedGen, prev, ahead>>

\* "skipped" and "ran": the .then/.catch part is over, .finally has not run.
Statuses == {"new", "queued", "running", "skipped", "ran", "done"}
Settling == {"skipped", "ran"}
Pending == {"queued", "running"} \cup Settling

PendingOf(k) == {t \in Tasks : taskKey[t] = k /\ status[t] \in Pending}

QueueTypeOK ==
    /\ chains \in [Keys -> Tasks \cup {NoTask}]
    /\ generations \in [Keys -> Nat]
    /\ status \in [Tasks -> Statuses]
    /\ taskKey \in [Tasks -> Keys \cup {NoKey}]
    /\ enqueuedGen \in [Tasks -> Nat]
    /\ prev \in [Tasks -> Tasks \cup {NoTask}]
    /\ ahead \in [Tasks -> SUBSET Tasks]

QueueInit ==
    /\ chains = [k \in Keys |-> NoTask]
    /\ generations = [k \in Keys |-> 0]
    /\ status = [t \in Tasks |-> "new"]
    /\ taskKey = [t \in Tasks |-> NoKey]
    /\ enqueuedGen = [t \in Tasks |-> 0]
    /\ prev = [t \in Tasks |-> NoTask]
    /\ ahead = [t \in Tasks |-> {}]

-----------------------------------------------------------------------------
\* The effect of invalidate(sessionKey) on the generation counters.
Invalidated(k) == [generations EXCEPT ![k] = @ + 1]

\* Mutant: the generation is captured before the session is invalidated.
EnqueueWithOldGeneration(t, k, gens) ==
    /\ status[t] = "new"
    /\ status' = [status EXCEPT ![t] = "queued"]
    /\ taskKey' = [taskKey EXCEPT ![t] = k]
    /\ enqueuedGen' = [enqueuedGen EXCEPT ![t] = generations[k]]
    /\ prev' = [prev EXCEPT ![t] = chains[k]]
    /\ ahead' = [ahead EXCEPT ![t] = PendingOf(k)]
    /\ chains' = [chains EXCEPT ![k] = t]

\* enqueue(sessionKey, task), reading the generations gens.
EnqueueWith(t, k, gens) ==
    /\ status[t] = "new"
    /\ status' = [status EXCEPT ![t] = "queued"]
    /\ taskKey' = [taskKey EXCEPT ![t] = k]
    /\ enqueuedGen' = [enqueuedGen EXCEPT ![t] = gens[k]]
    /\ prev' = [prev EXCEPT ![t] = chains[k]]
    /\ ahead' = [ahead EXCEPT ![t] = PendingOf(k)]
    /\ chains' = [chains EXCEPT ![k] = t]

Invalidate(k) ==
    /\ generations[k] < MaxGeneration
    /\ generations' = Invalidated(k)
    /\ UNCHANGED <<chains, status, taskKey, enqueuedGen, prev, ahead>>

Enqueue(t, k) ==
    /\ EnqueueWith(t, k, generations)
    /\ UNCHANGED generations

\* Mutant: a link does not wait for the task before it to settle.
PrevStarted(t) == prev[t] # NoTask => status[prev[t]] # "queued"

\* The promise t waits for has settled, so its .then callback can run.
PrevSettled(t) == prev[t] # NoTask => status[prev[t]] = "done"

Superseded(t) == generations[taskKey[t]] # enqueuedGen[t]

\* Mutant: the promise of a superseded task never settles.
ThenUnlessSuperseded(t) ==
    /\ status[t] = "queued"
    /\ PrevSettled(t) /\ ~Superseded(t)
    /\ status' = [status EXCEPT ![t] = "running"]
    /\ UNCHANGED <<chains, generations, taskKey, enqueuedGen, prev, ahead>>

\* .then: skip a superseded task, start any other one.
Then(t) ==
    /\ status[t] = "queued"
    /\ PrevSettled(t)
    /\ status' = [status EXCEPT ![t] = IF Superseded(t) THEN "skipped" ELSE "running"]
    /\ UNCHANGED <<chains, generations, taskKey, enqueuedGen, prev, ahead>>

\* task() resolved, or rejected and was swallowed by .catch.
Settle(t) ==
    /\ status[t] = "running"
    /\ status' = [status EXCEPT ![t] = "ran"]
    /\ UNCHANGED <<chains, generations, taskKey, enqueuedGen, prev, ahead>>

\* Mutant: every link drops the entries of its session.
FinallyAlwaysDrops(t) ==
    /\ status[t] \in Settling
    /\ status' = [status EXCEPT ![t] = "done"]
    /\ chains' = [chains EXCEPT ![taskKey[t]] = NoTask]
    /\ generations' = [generations EXCEPT ![taskKey[t]] = 0]
    /\ UNCHANGED <<taskKey, enqueuedGen, prev, ahead>>

\* Mutant: every link drops the generation, the last one the chain as well.
FinallyForgetsGeneration(t) ==
    /\ status[t] \in Settling
    /\ status' = [status EXCEPT ![t] = "done"]
    /\ chains' = IF chains[taskKey[t]] = t
                   THEN [chains EXCEPT ![taskKey[t]] = NoTask] ELSE chains
    /\ generations' = [generations EXCEPT ![taskKey[t]] = 0]
    /\ UNCHANGED <<taskKey, enqueuedGen, prev, ahead>>

\* .finally: drop the entries of a session whose last link is this one.
Finally(t) ==
    /\ status[t] \in Settling
    /\ status' = [status EXCEPT ![t] = "done"]
    /\ IF chains[taskKey[t]] = t
         THEN /\ chains' = [chains EXCEPT ![taskKey[t]] = NoTask]
              /\ generations' = [generations EXCEPT ![taskKey[t]] = 0]
         ELSE UNCHANGED <<chains, generations>>
    /\ UNCHANGED <<taskKey, enqueuedGen, prev, ahead>>

\* Callbacks the event loop owes the promises.
Continuation(t) == Then(t) \/ Finally(t)

QueueNext ==
    \/ \E k \in Keys : Invalidate(k)
    \/ \E t \in Tasks, k \in Keys : Enqueue(t, k)
    \/ \E t \in Tasks : Continuation(t) \/ Settle(t)

QueueSpec == QueueInit /\ [][QueueNext]_queueVars

\* The event loop runs the callback of every settled promise.
QueueFairSpec == QueueSpec /\ \A t \in Tasks : WF_queueVars(Continuation(t))
-----------------------------------------------------------------------------
\* Two tasks of a session never run at the same time, even when one is
\* enqueued between the end of the other and its .finally callback.
AtMostOneRunning ==
    \A t, u \in Tasks :
        (t # u /\ taskKey[t] = taskKey[u] /\ status[t] = "running") => status[u] # "running"

\* The map entry of a session is there exactly while one of its links is
\* pending, and then it is the newest link: an enqueue can never attach to a
\* finished chain nor start a second chain beside a live one.
ChainTracksPending ==
    \A k \in Keys :
        /\ chains[k] = NoTask <=> PendingOf(k) = {}
        /\ chains[k] # NoTask =>
              chains[k] \in PendingOf(k) /\ PendingOf(k) \subseteq ahead[chains[k]] \cup {chains[k]}

\* How far the abstract queue says a task is, from its link's status.
PhaseOf == [new |-> "new", queued |-> "waiting", running |-> "active",
            skipped |-> "leaving", ran |-> "leaving", done |-> "finished"]

Serial == INSTANCE SerialQueue WITH
    phase <- [t \in Tasks |-> PhaseOf[status[t]]],
    session <- taskKey,
    stale <- {t \in Tasks : status[t] = "queued" /\ Superseded(t)}

\* The promise chains and generation counters implement the abstract serial
\* queue: same order, same tasks dropped, nothing else dropped.  The abstract
\* queue has a stale set and no counter, so this is where deleting a session's
\* generation when its chain goes idle could go wrong: a superseded task that
\* looks current again, or a current one that is skipped.
ImplementsSerialQueue == Serial!Spec

\* No task can wait for ever behind tasks that end: if every task that starts
\* also settles, every enqueued task leaves the queue.
EveryTaskLeaves ==
    (\A t \in Tasks : []<>(status[t] # "running")) =>
        \A t \in Tasks : (status[t] = "queued") ~> (status[t] = "done")
=============================================================================
