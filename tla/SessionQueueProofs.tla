------------------------- MODULE SessionQueueProofs -------------------------
(***************************************************************************)
(* Proofs about SessionQueue, for any number of sessions and tasks: the    *)
(* inductive invariant, mutual exclusion of a session's tasks, and the     *)
(* refinement of the abstract serial queue.                                *)
(***************************************************************************)
EXTENDS SessionQueue, TLAPS

Enqueued(t) == status[t] # "new"

\* A task has a session exactly from its enqueue on.
KeyedOnceEnqueued == \A t \in Tasks : Enqueued(t) <=> taskKey[t] \in Keys

\* Whatever was ahead of a task that got past its .then has left the queue.
AheadDone ==
    \A t \in Tasks : status[t] \notin {"new", "queued"} =>
        \A u \in ahead[t] : status[u] = "done"

\* The one predecessor a link waits for stands for everything ahead of it.
AheadLinked ==
    \A t \in Tasks : \A u \in ahead[t] :
        /\ Enqueued(t) /\ Enqueued(u)
        /\ prev[t] # NoTask
        /\ Enqueued(prev[t])
        /\ u = prev[t] \/ u \in ahead[prev[t]]

\* Of two pending tasks of a session, one was enqueued behind the other.
PendingOrdered ==
    \A t, u \in Tasks :
        (/\ t # u /\ taskKey[t] = taskKey[u]
         /\ status[t] \in Pending /\ status[u] \in Pending)
            => t \in ahead[u] \/ u \in ahead[t]

\* A waiting task's generation is one its session has had since the last
\* deletion, so a later increment can never bring it back.
GenerationNotAhead ==
    \A t \in Tasks : status[t] = "queued" => enqueuedGen[t] <= generations[taskKey[t]]

QueueInv ==
    /\ QueueTypeOK
    /\ ChainTracksPending
    /\ KeyedOnceEnqueued
    /\ AheadDone
    /\ AheadLinked
    /\ PendingOrdered
    /\ GenerationNotAhead

-----------------------------------------------------------------------------
\* With nothing enqueued every part of the invariant is vacuous.
LEMMA InitInv == QueueInit => QueueInv
  BY QueueConstants
  DEF QueueInit, QueueInv, QueueTypeOK, ChainTracksPending, KeyedOnceEnqueued, AheadDone,
      AheadLinked, PendingOrdered, GenerationNotAhead, Enqueued, PendingOf, Pending,
      Statuses, Settling

\* invalidate() only raises one counter.
LEMMA InvalidateInv ==
    ASSUME QueueInv, NEW k \in Keys, Invalidate(k)
    PROVE  QueueInv'
<1>1. QueueTypeOK' /\ GenerationNotAhead'
  BY DEF Invalidate, Invalidated, QueueInv, QueueTypeOK, KeyedOnceEnqueued, Enqueued,
         GenerationNotAhead
<1>2. ChainTracksPending' /\ KeyedOnceEnqueued' /\ AheadDone' /\ AheadLinked' /\ PendingOrdered'
  BY DEF Invalidate, QueueInv, ChainTracksPending, PendingOf, KeyedOnceEnqueued, AheadDone,
         AheadLinked, PendingOrdered, Enqueued
<1>. QED  BY <1>1, <1>2 DEF QueueInv

\* enqueue() links the new task behind every pending task of its session; it may
\* come in one step with an invalidate() of any session.
LEMMA EnqueueWithInv ==
    ASSUME QueueInv, NEW t \in Tasks, NEW k \in Keys,
           NEW gens \in [Keys -> Nat], \A j \in Keys : generations[j] <= gens[j],
           EnqueueWith(t, k, gens), generations' = gens
    PROVE  QueueInv'
<1>. USE QueueConstants DEF QueueInv
<1>1. /\ status[t] = "new"
      /\ status' = [status EXCEPT ![t] = "queued"]
      /\ taskKey' = [taskKey EXCEPT ![t] = k]
      /\ enqueuedGen' = [enqueuedGen EXCEPT ![t] = gens[k]]
      /\ prev' = [prev EXCEPT ![t] = chains[k]]
      /\ ahead' = [ahead EXCEPT ![t] = PendingOf(k)]
      /\ chains' = [chains EXCEPT ![k] = t]
      /\ generations' = gens
  BY DEF EnqueueWith
<1>2. PendingOf(k) \subseteq Tasks /\ t \notin PendingOf(k)
  BY <1>1 DEF PendingOf, Pending, Settling
<1>3. QueueTypeOK'
  BY <1>1, <1>2 DEF QueueTypeOK, Statuses
<1>4. /\ PendingOf(k)' = PendingOf(k) \cup {t}
      /\ \A j \in Keys \ {k} : PendingOf(j)' = PendingOf(j)
  BY <1>1 DEF PendingOf, Pending, QueueTypeOK, KeyedOnceEnqueued, Enqueued
<1>5. ChainTracksPending'
  <2>. SUFFICES ASSUME NEW j \in Keys
                PROVE  /\ chains'[j] = NoTask <=> PendingOf(j)' = {}
                       /\ chains'[j] # NoTask =>
                            /\ chains'[j] \in PendingOf(j)'
                            /\ PendingOf(j)' \subseteq ahead'[chains'[j]] \cup {chains'[j]}
    BY DEF ChainTracksPending, PendingOf
  <2>1. CASE j = k
    BY <1>1, <1>4, <2>1 DEF QueueTypeOK
  <2>2. CASE j # k
    <3>1. chains'[j] = chains[j] /\ PendingOf(j)' = PendingOf(j)
      BY <1>1, <1>4, <2>2 DEF QueueTypeOK
    <3>2. chains[j] # NoTask => chains[j] # t
      BY <1>1 DEF ChainTracksPending, PendingOf, Pending, Settling
    <3>3. chains[j] # NoTask => ahead'[chains[j]] = ahead[chains[j]]
      BY <1>1, <3>2 DEF QueueTypeOK
    <3>. QED  BY <3>1, <3>3 DEF ChainTracksPending
  <2>. QED  BY <2>1, <2>2
<1>6. KeyedOnceEnqueued'
  BY <1>1 DEF QueueTypeOK, KeyedOnceEnqueued, Enqueued
<1>7. AheadDone'
  BY <1>1 DEF QueueTypeOK, AheadDone, AheadLinked, Enqueued
<1>8. AheadLinked'
  <2>. SUFFICES ASSUME NEW s \in Tasks, NEW u \in ahead'[s]
                PROVE  /\ Enqueued(s)' /\ Enqueued(u)'
                       /\ prev'[s] # NoTask
                       /\ Enqueued(prev[s])'
                       /\ u = prev'[s] \/ u \in ahead'[prev'[s]]
    BY DEF AheadLinked, Enqueued
  <2>1. CASE s = t
    <3>1. u \in PendingOf(k) /\ prev'[s] = chains[k]
      BY <1>1, <2>1 DEF QueueTypeOK
    <3>2. /\ chains[k] \in PendingOf(k)
          /\ PendingOf(k) \subseteq ahead[chains[k]] \cup {chains[k]}
      BY <3>1 DEF ChainTracksPending
    <3>3. chains[k] # t /\ chains[k] \in Tasks /\ u # t
      BY <1>2, <3>1, <3>2
    <3>4. ahead'[chains[k]] = ahead[chains[k]]
      BY <1>1, <3>3 DEF QueueTypeOK
    <3>5. status[u] # "new" /\ status[chains[k]] # "new"
      BY <3>1, <3>2 DEF PendingOf, Pending, Settling
    <3>. QED  BY <1>1, <2>1, <3>1, <3>2, <3>3, <3>4, <3>5 DEF Enqueued, QueueTypeOK
  <2>2. CASE s # t
    BY <1>1, <2>2 DEF AheadLinked, Enqueued, QueueTypeOK
  <2>. QED  BY <2>1, <2>2
<1>9. PendingOrdered'
  <2>. SUFFICES ASSUME NEW s \in Tasks, NEW u \in Tasks, s # u, taskKey'[s] = taskKey'[u],
                       status'[s] \in Pending, status'[u] \in Pending
                PROVE  s \in ahead'[u] \/ u \in ahead'[s]
    BY DEF PendingOrdered
  <2>1. CASE s = t
    BY <1>1, <2>1 DEF QueueTypeOK, PendingOf
  <2>2. CASE u = t
    BY <1>1, <2>2 DEF QueueTypeOK, PendingOf
  <2>3. CASE s # t /\ u # t
    BY <1>1, <2>3 DEF PendingOrdered, QueueTypeOK
  <2>. QED  BY <2>1, <2>2, <2>3
<1>10. GenerationNotAhead'
  BY <1>1 DEF GenerationNotAhead, QueueTypeOK, KeyedOnceEnqueued, Enqueued
<1>. QED  BY <1>3, <1>5, <1>6, <1>7, <1>8, <1>9, <1>10

\* enqueue() alone leaves the generations as they are.
LEMMA EnqueueInv ==
    ASSUME QueueInv, NEW t \in Tasks, NEW k \in Keys, Enqueue(t, k)
    PROVE  QueueInv'
<1>1. generations \in [Keys -> Nat] /\ \A j \in Keys : generations[j] <= generations[j]
  BY DEF QueueInv, QueueTypeOK
<1>. QED  BY <1>1, EnqueueWithInv DEF Enqueue

\* A task passes its .then only when its predecessor, and with it everything
\* ahead of it, is done.
LEMMA TurnComes ==
    ASSUME QueueInv, NEW t \in Tasks, status[t] = "queued", PrevSettled(t)
    PROVE  \A u \in ahead[t] : status[u] = "done"
<1>. SUFFICES ASSUME NEW u \in ahead[t] PROVE status[u] = "done"
  OBVIOUS
<1>1. prev[t] \in Tasks /\ status[prev[t]] = "done"
  BY DEF QueueInv, QueueTypeOK, AheadLinked, PrevSettled
<1>2. u = prev[t] \/ u \in ahead[prev[t]]
  BY DEF QueueInv, AheadLinked
<1>. QED  BY <1>1, <1>2 DEF QueueInv, AheadDone

\* The part of the invariant that only reads which tasks are pending survives
\* a step that keeps every task pending.
LEMMA SamePendingInv ==
    ASSUME QueueInv, NEW t \in Tasks, NEW s \in Pending \ {"queued"},
           status[t] \in Pending, status' = [status EXCEPT ![t] = s],
           UNCHANGED <<chains, generations, taskKey, enqueuedGen, prev, ahead>>
    PROVE  /\ QueueTypeOK' /\ ChainTracksPending' /\ KeyedOnceEnqueued' /\ AheadLinked'
           /\ PendingOrdered' /\ GenerationNotAhead'
<1>1. QueueTypeOK'
  BY DEF QueueInv, QueueTypeOK, Pending, Settling, Statuses
<1>2. \A k \in Keys : PendingOf(k)' = PendingOf(k)
  BY DEF QueueInv, QueueTypeOK, PendingOf
<1>3. ChainTracksPending'
  BY <1>2 DEF QueueInv, ChainTracksPending
<1>4. \A u \in Tasks : Enqueued(u)' <=> Enqueued(u)
  BY DEF QueueInv, QueueTypeOK, Enqueued, Pending, Settling
<1>5. KeyedOnceEnqueued' /\ AheadLinked'
  BY <1>1, <1>4 DEF QueueInv, QueueTypeOK, KeyedOnceEnqueued, AheadLinked
<1>6. PendingOrdered' /\ GenerationNotAhead'
  BY DEF QueueInv, QueueTypeOK, PendingOrdered, GenerationNotAhead
<1>. QED  BY <1>1, <1>3, <1>5, <1>6

\* .then moves one link on; nothing else of the session changes.
LEMMA ThenInv ==
    ASSUME QueueInv, NEW t \in Tasks, Then(t)
    PROVE  QueueInv'
<1>. DEFINE s == IF Superseded(t) THEN "skipped" ELSE "running"
<1>1. /\ status' = [status EXCEPT ![t] = s] /\ s \in Pending \ {"queued"}
      /\ status[t] \in Pending
      /\ UNCHANGED <<chains, generations, taskKey, enqueuedGen, prev, ahead>>
  BY DEF Then, Pending, Settling
<1>2. AheadDone'
  BY <1>1, TurnComes DEF Then, QueueInv, QueueTypeOK, AheadDone, Pending, Settling
<1>3. /\ QueueTypeOK' /\ ChainTracksPending' /\ KeyedOnceEnqueued' /\ AheadLinked'
      /\ PendingOrdered' /\ GenerationNotAhead'
  <2>. HIDE DEF s
  <2>. QED  BY <1>1, SamePendingInv
<1>. QED  BY <1>2, <1>3 DEF QueueInv

\* The end of a task leaves its link pending, so chains are untouched.
LEMMA SettleInv ==
    ASSUME QueueInv, NEW t \in Tasks, Settle(t)
    PROVE  QueueInv'
<1>1. AheadDone'
  BY DEF Settle, QueueInv, QueueTypeOK, AheadDone
<1>2. /\ QueueTypeOK' /\ ChainTracksPending' /\ KeyedOnceEnqueued' /\ AheadLinked'
      /\ PendingOrdered' /\ GenerationNotAhead'
  BY SamePendingInv DEF Settle, Pending, Settling
<1>. QED  BY <1>1, <1>2 DEF QueueInv

\* Nothing else of a session is pending when its newest link settles.
LEMMA LastLinkAlone ==
    ASSUME QueueInv, NEW t \in Tasks, status[t] \in Settling, chains[taskKey[t]] = t
    PROVE  PendingOf(taskKey[t]) = {t}
<1>1. taskKey[t] \in Keys /\ t \in PendingOf(taskKey[t])
  BY DEF QueueInv, Settling, KeyedOnceEnqueued, Enqueued, PendingOf, Pending
<1>2. PendingOf(taskKey[t]) \subseteq ahead[t] \cup {t}
  BY <1>1, QueueConstants DEF QueueInv, ChainTracksPending
<1>3. \A u \in ahead[t] : status[u] = "done"
  BY DEF QueueInv, AheadDone, Settling
<1>. QED  BY <1>1, <1>2, <1>3 DEF PendingOf, Pending, Settling

\* .finally of the newest link finds the session idle; .finally of an older
\* one leaves the map entries to the links behind it.
LEMMA FinallyInv ==
    ASSUME QueueInv, NEW t \in Tasks, Finally(t)
    PROVE  QueueInv'
<1>. DEFINE k == taskKey[t]
<1>. USE QueueConstants DEF QueueInv
<1>1. /\ status[t] \in Settling /\ k \in Keys /\ t \in PendingOf(k)
      /\ status' = [status EXCEPT ![t] = "done"]
      /\ UNCHANGED <<taskKey, enqueuedGen, prev, ahead>>
  BY DEF Finally, Settling, KeyedOnceEnqueued, Enqueued, PendingOf, Pending
<1>2. /\ chains[k] \in PendingOf(k)
      /\ PendingOf(k) \subseteq ahead[chains[k]] \cup {chains[k]}
  BY <1>1 DEF ChainTracksPending
<1>3. /\ PendingOf(k)' = PendingOf(k) \ {t}
      /\ \A j \in Keys \ {k} : PendingOf(j)' = PendingOf(j)
  BY <1>1 DEF PendingOf, Pending, Settling, QueueTypeOK
<1>4. QueueTypeOK'
  BY <1>1 DEF Finally, QueueTypeOK, Statuses
<1>5. \A u \in ahead[t] : status[u] = "done"
  BY <1>1 DEF AheadDone, Settling
<1>6. chains[k] = t => PendingOf(k) = {t}
  BY <1>1, LastLinkAlone
<1>7. ChainTracksPending'
  <2>. SUFFICES ASSUME NEW j \in Keys
                PROVE  /\ chains'[j] = NoTask <=> PendingOf(j)' = {}
                       /\ chains'[j] # NoTask =>
                            /\ chains'[j] \in PendingOf(j)'
                            /\ PendingOf(j)' \subseteq ahead[chains'[j]] \cup {chains'[j]}
    BY <1>1 DEF ChainTracksPending, PendingOf
  <2>1. CASE j = k /\ chains[k] = t
    BY <1>1, <1>3, <1>6, <2>1 DEF Finally, QueueTypeOK
  <2>2. CASE j = k /\ chains[k] # t
    BY <1>1, <1>2, <1>3, <2>2 DEF Finally, ChainTracksPending
  <2>3. CASE j # k
    <3>1. chains'[j] = chains[j]
      BY <1>1, <2>3 DEF Finally, QueueTypeOK
    <3>. QED  BY <1>3, <2>3, <3>1 DEF ChainTracksPending
  <2>. QED  BY <2>1, <2>2, <2>3
<1>8. KeyedOnceEnqueued' /\ AheadDone' /\ AheadLinked' /\ PendingOrdered'
  <2>1. KeyedOnceEnqueued' /\ AheadLinked'
    BY <1>1 DEF QueueTypeOK, KeyedOnceEnqueued, AheadLinked, Enqueued, Settling
  <2>2. AheadDone'
    BY <1>1, <1>5 DEF QueueTypeOK, AheadDone
  <2>3. PendingOrdered'
    BY <1>1 DEF QueueTypeOK, PendingOrdered, Pending, Settling
  <2>. QED  BY <2>1, <2>2, <2>3
<1>9. GenerationNotAhead'
  <2>. SUFFICES ASSUME NEW u \in Tasks, status'[u] = "queued"
                PROVE  enqueuedGen[u] <= generations'[taskKey[u]]
    BY <1>1 DEF GenerationNotAhead
  <2>1. status[u] = "queued" /\ u # t /\ taskKey[u] \in Keys
    BY <1>1 DEF QueueTypeOK, KeyedOnceEnqueued, Enqueued
  <2>2. chains[k] = t => taskKey[u] # k
    BY <1>6, <2>1 DEF PendingOf, Pending
  <2>3. generations'[taskKey[u]] = generations[taskKey[u]]
    BY <1>1, <2>1, <2>2 DEF Finally, QueueTypeOK
  <2>. QED  BY <2>1, <2>3 DEF GenerationNotAhead
<1>. QED  BY <1>4, <1>7, <1>8, <1>9

\* The invariant is inductive: one step per callback or call.
LEMMA NextInv == QueueInv /\ [QueueNext]_queueVars => QueueInv'
<1>. SUFFICES ASSUME QueueInv, [QueueNext]_queueVars PROVE QueueInv'
  OBVIOUS
<1>1. ASSUME NEW k \in Keys, Invalidate(k) PROVE QueueInv'
  BY <1>1, InvalidateInv
<1>2. ASSUME NEW t \in Tasks, NEW k \in Keys, Enqueue(t, k) PROVE QueueInv'
  BY <1>2, EnqueueInv
<1>3. ASSUME NEW t \in Tasks, Then(t) PROVE QueueInv'
  BY <1>3, ThenInv
<1>4. ASSUME NEW t \in Tasks, Settle(t) PROVE QueueInv'
  BY <1>4, SettleInv
<1>5. ASSUME NEW t \in Tasks, Finally(t) PROVE QueueInv'
  BY <1>5, FinallyInv
<1>6. CASE UNCHANGED queueVars
  BY <1>6 DEF queueVars, QueueInv, QueueTypeOK, ChainTracksPending, KeyedOnceEnqueued, AheadDone,
     AheadLinked, PendingOrdered, GenerationNotAhead, Enqueued, PendingOf
<1>. QED  BY <1>1, <1>2, <1>3, <1>4, <1>5, <1>6 DEF QueueNext, Continuation

-----------------------------------------------------------------------------
\* The invariant holds in every reachable state of the queue.
THEOREM InvariantHolds == QueueSpec => []QueueInv
  BY InitInv, NextInv, PTL DEF QueueSpec

\* Type correctness, for any sets of sessions and tasks.
THEOREM TypeCorrect == QueueSpec => []QueueTypeOK
<1>1. QueueInv => QueueTypeOK
  BY DEF QueueInv
<1>. QED  BY <1>1, InvariantHolds, PTL

\* Chain entries and pending tasks agree: no chain leaks, none is lost.
THEOREM ChainsExact == QueueSpec => []ChainTracksPending
<1>1. QueueInv => ChainTracksPending
  BY DEF QueueInv
<1>. QED  BY <1>1, InvariantHolds, PTL

\* Mutual exclusion of the tasks of a session.
THEOREM MutualExclusion == QueueSpec => []AtMostOneRunning
<1>1. QueueInv => AtMostOneRunning
  <2>. SUFFICES ASSUME QueueInv, NEW t \in Tasks, NEW u \in Tasks, t # u, taskKey[t] = taskKey[u],
                       status[t] = "running", status[u] = "running"
                PROVE  FALSE
    BY DEF AtMostOneRunning
  <2>1. t \in ahead[u] \/ u \in ahead[t]
    BY DEF QueueInv, PendingOrdered, Pending
  <2>. QED  BY <2>1 DEF QueueInv, AheadDone
<1>. QED  BY <1>1, InvariantHolds, PTL

-----------------------------------------------------------------------------
(* Refinement.  The mapping is the one of SessionQueue!Serial; every        *)
(* concrete step is the abstract step of the same name or a stutter.        *)

\* Empty maps are the empty abstract queue.
LEMMA InitRefines == QueueInit => Serial!Init
  BY DEF QueueInit, Serial!Init, PhaseOf

\* A link's pending statuses are the abstract unfinished phases.
LEMMA PendingIsUnfinished ==
    ASSUME QueueTypeOK, NEW k \in Keys
    PROVE  PendingOf(k) = Serial!Unfinished(k)
  BY DEF QueueTypeOK, Statuses, PendingOf, Pending, Settling, Serial!Unfinished, PhaseOf

\* A step of one link is a step of one abstract task.
LEMMA OneStatusChange ==
    ASSUME QueueTypeOK, NEW t \in Tasks, NEW s \in Statuses, status' = [status EXCEPT ![t] = s]
    PROVE  [u \in Tasks |-> PhaseOf[status[u]]]'
             = [[u \in Tasks |-> PhaseOf[status[u]]] EXCEPT ![t] = PhaseOf[s]]
  BY DEF QueueTypeOK

\* Raising the counter makes every waiting task of the session stale, because
\* none of them can hold a generation from the future.
LEMMA InvalidateRefines ==
    ASSUME QueueInv, NEW k \in Keys, Invalidate(k)
    PROVE  Serial!Supersede(k)
<1>1. \A t \in Tasks : status[t] = "queued" =>
         (Superseded(t)' <=> (Superseded(t) \/ taskKey[t] = k))
  BY DEF Invalidate, Invalidated, Superseded, QueueInv, QueueTypeOK, GenerationNotAhead,
         KeyedOnceEnqueued, Enqueued
<1>2. \A t \in Tasks : PhaseOf[status[t]] = "waiting" <=> status[t] = "queued"
  BY DEF PhaseOf, Settling, QueueInv, QueueTypeOK, Statuses
<1>3. {t \in Tasks : status[t] = "queued" /\ Superseded(t)}'
        = {t \in Tasks : status[t] = "queued" /\ Superseded(t)}
            \cup {t \in Tasks : taskKey[t] = k /\ PhaseOf[status[t]] = "waiting"}
  BY <1>1, <1>2 DEF Invalidate
<1>. QED  BY <1>3 DEF Invalidate, Serial!Supersede

\* enqueue() submits a task that is current and behind all pending ones.
LEMMA EnqueueRefines ==
    ASSUME QueueInv, NEW t \in Tasks, NEW k \in Keys, Enqueue(t, k)
    PROVE  Serial!Submit(t, k)
<1>1. PendingOf(k) = Serial!Unfinished(k)
  BY PendingIsUnfinished DEF QueueInv
<1>2. ~ Superseded(t)'
  BY DEF Enqueue, EnqueueWith, Superseded, QueueInv, QueueTypeOK
<1>3. \A u \in Tasks \ {t} : status'[u] = status[u] /\ (Superseded(u)' <=> Superseded(u))
  BY DEF Enqueue, EnqueueWith, Superseded, QueueInv, QueueTypeOK
<1>4. {u \in Tasks : status[u] = "queued" /\ Superseded(u)}'
        = {u \in Tasks : status[u] = "queued" /\ Superseded(u)}
  BY <1>2, <1>3 DEF Enqueue, EnqueueWith
<1>5. [u \in Tasks |-> PhaseOf[status[u]]]'
        = [[u \in Tasks |-> PhaseOf[status[u]]] EXCEPT ![t] = "waiting"]
  <2>1. QueueTypeOK /\ "queued" \in Statuses /\ status' = [status EXCEPT ![t] = "queued"]
    BY DEF Enqueue, EnqueueWith, QueueInv, Statuses
  <2>. QED  BY <2>1, OneStatusChange DEF PhaseOf
<1>. QED  BY <1>1, <1>4, <1>5 DEF Enqueue, EnqueueWith, Serial!Submit, PhaseOf

\* .then begins a current task and drops a superseded one.
LEMMA ThenRefines ==
    ASSUME QueueInv, NEW t \in Tasks, Then(t)
    PROVE  Serial!Begin(t) \/ Serial!Drop(t)
<1>1. Serial!Turn(t)
  BY TurnComes DEF Then, Serial!Turn, PhaseOf, Settling, QueueInv, QueueTypeOK
<1>2. \A u \in Tasks : Superseded(u)' <=> Superseded(u)
  BY DEF Then, Superseded
<1>3. {u \in Tasks : status[u] = "queued" /\ Superseded(u)}'
        = {u \in Tasks : status[u] = "queued" /\ Superseded(u)} \ {t}
  BY <1>2 DEF Then, QueueInv, QueueTypeOK
<1>4. CASE Superseded(t)
  BY <1>1, <1>3, <1>4 DEF Then, Serial!Drop, PhaseOf, Settling, QueueInv, QueueTypeOK
<1>5. CASE ~ Superseded(t)
  BY <1>1, <1>3, <1>5 DEF Then, Serial!Begin, PhaseOf, Settling, QueueInv, QueueTypeOK
<1>. QED  BY <1>4, <1>5

\* The end of task() is the abstract end of an active task.
LEMMA SettleRefines ==
    ASSUME QueueInv, NEW t \in Tasks, Settle(t)
    PROVE  Serial!End(t)
<1>1. {u \in Tasks : status[u] = "queued" /\ Superseded(u)}'
        = {u \in Tasks : status[u] = "queued" /\ Superseded(u)}
  BY DEF Settle, Superseded, QueueInv, QueueTypeOK
<1>2. [u \in Tasks |-> PhaseOf[status[u]]]'
        = [[u \in Tasks |-> PhaseOf[status[u]]] EXCEPT ![t] = "leaving"]
  <2>1. QueueTypeOK /\ "ran" \in Statuses /\ status' = [status EXCEPT ![t] = "ran"]
    BY DEF Settle, QueueInv, Statuses
  <2>. QED  BY <2>1, OneStatusChange DEF PhaseOf
<1>. QED  BY <1>1, <1>2 DEF Settle, Serial!End, PhaseOf

\* The deleted generation is one no waiting task of the session reads.
LEMMA FinallyRefines ==
    ASSUME QueueInv, NEW t \in Tasks, Finally(t)
    PROVE  Serial!Leave(t)
<1>1. /\ status[t] \in Settling /\ t \in PendingOf(taskKey[t]) /\ taskKey[t] \in Keys
      /\ UNCHANGED <<taskKey, enqueuedGen, ahead>>
  BY DEF Finally, Settling, QueueInv, KeyedOnceEnqueued, Enqueued, PendingOf, Pending
<1>2. chains[taskKey[t]] = t => PendingOf(taskKey[t]) = {t}
  BY <1>1 DEF QueueInv, ChainTracksPending, AheadDone, PendingOf, Pending, Settling
<1>3. \A u \in Tasks : status[u] = "queued" =>
         status'[u] = "queued" /\ (Superseded(u)' <=> Superseded(u))
  BY <1>1, <1>2 DEF Finally, Superseded, QueueInv, QueueTypeOK, PendingOf, Pending, Settling,
     KeyedOnceEnqueued, Enqueued
<1>4. {u \in Tasks : status[u] = "queued" /\ Superseded(u)}'
        = {u \in Tasks : status[u] = "queued" /\ Superseded(u)}
  BY <1>1, <1>3 DEF Finally, QueueInv, QueueTypeOK
<1>5. [u \in Tasks |-> PhaseOf[status[u]]]'
        = [[u \in Tasks |-> PhaseOf[status[u]]] EXCEPT ![t] = "finished"]
  <2>1. QueueTypeOK /\ "done" \in Statuses /\ status' = [status EXCEPT ![t] = "done"]
    BY DEF Finally, QueueInv, Statuses
  <2>. QED  BY <2>1, OneStatusChange DEF PhaseOf
<1>. QED  BY <1>1, <1>4, <1>5 DEF Serial!Leave, PhaseOf, Settling

\* Every step of the promise chains is an abstract step or a stutter.
LEMMA NextRefines == QueueInv /\ [QueueNext]_queueVars => [Serial!Next]_(Serial!vars)
<1>. SUFFICES ASSUME QueueInv, [QueueNext]_queueVars PROVE [Serial!Next]_(Serial!vars)
  OBVIOUS
<1>1. ASSUME NEW k \in Keys, Invalidate(k) PROVE Serial!Next
  BY <1>1, InvalidateRefines DEF Serial!Next
<1>2. ASSUME NEW t \in Tasks, NEW k \in Keys, Enqueue(t, k) PROVE Serial!Next
  BY <1>2, EnqueueRefines DEF Serial!Next
<1>3. ASSUME NEW t \in Tasks, Then(t) PROVE Serial!Next
  BY <1>3, ThenRefines DEF Serial!Next
<1>4. ASSUME NEW t \in Tasks, Settle(t) PROVE Serial!Next
  BY <1>4, SettleRefines DEF Serial!Next
<1>5. ASSUME NEW t \in Tasks, Finally(t) PROVE Serial!Next
  BY <1>5, FinallyRefines DEF Serial!Next
<1>6. CASE UNCHANGED queueVars
  BY <1>6 DEF queueVars, Serial!vars, Superseded
<1>. QED  BY <1>1, <1>2, <1>3, <1>4, <1>5, <1>6 DEF QueueNext, Continuation

\* The promise chains with their generation counters implement the abstract
\* serial queue: what runs, in which order, and what is dropped.
THEOREM Refinement == QueueSpec => ImplementsSerialQueue
  BY InitRefines, NextRefines, InvariantHolds, PTL DEF QueueSpec, ImplementsSerialQueue, Serial!Spec
=============================================================================
