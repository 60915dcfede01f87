------------------------- MODULE SessionDispatchProofs -------------------------
(***************************************************************************)
(* Proofs about SessionDispatch, for any number of chats and batches: a    *)
(* newer plain message aborts every older reply of its session that runs,  *)
(* is itself neither aborted nor skipped, and exactly the batches that     *)
(* were waiting when their session was cancelled are skipped.              *)
(*                                                                         *)
(* What is known of the queue underneath comes from SessionQueueProofs.    *)
(***************************************************************************)
EXTENDS SessionDispatch, TLAPS

Chains == INSTANCE SessionQueueProofs WITH Keys <- SessionKeys

Typed ==
    /\ Manager!ManagerTypeOK
    /\ kind \in [Tasks -> DirectKinds \cup GroupKinds]
    /\ base \in [Tasks -> Bases \cup {NoKey}]
    /\ newest \in [Bases -> Tasks \cup {NoTask}]
    /\ discarded \subseteq Tasks

\* Where a batch that was flushed waits or runs.
InItsLane ==
    \A t \in Tasks : status[t] # "new" =>
        /\ base[t] \in Bases
        /\ kind[t] = "normal" => base[t] \in Directs /\ taskKey[t] = BaseKey(base[t])

\* The newest plain message of a session is one of that session, and others know
\* nothing of it.
NewestKnown ==
    \A b \in Bases : newest[b] # NoTask =>
        /\ b \in Directs /\ base[newest[b]] = b
        /\ kind[newest[b]] = "normal" /\ status[newest[b]] # "new"

\* The generations say which waiting batches were cancelled.
DiscardedSuperseded ==
    \A t \in Tasks :
        /\ status[t] = "queued" => (t \in discarded <=> Queue!Superseded(t))
        /\ status[t] = "new" => t \notin discarded /\ t \notin aborted

\* An older plain message of a session was cancelled or aborted, the newest was not.
OldOnesOver ==
    \A t \in Tasks : status[t] # "new" /\ kind[t] = "normal" =>
        /\ t # newest[base[t]] /\ status[t] = "queued" => t \in discarded
        /\ t # newest[base[t]] /\ status[t] = "running" => t \in aborted
        /\ newest[base[t]] # NoTask

NewestNotOver ==
    \A b \in Bases : newest[b] # NoTask =>
        /\ newest[b] \notin aborted
        /\ status[newest[b]] # "skipped"
        /\ status[newest[b]] = "queued" => newest[b] \notin discarded

DispatchInv ==
    /\ Chains!QueueInv /\ Typed
    /\ InItsLane /\ NewestKnown
    /\ DiscardedSuperseded /\ OldOnesOver /\ NewestNotOver
    /\ ControllerIsNewest

-----------------------------------------------------------------------------
\* The names of the two instances of the queue stand for the same.
LEMMA SameQueue ==
    /\ Chains!QueueConstants
    /\ Queue!QueueInit => Chains!QueueInit
    /\ \A t \in Tasks : /\ Queue!Then(t) => Chains!Then(t)
                        /\ Queue!Settle(t) => Chains!Settle(t)
                        /\ Queue!Finally(t) => Chains!Finally(t)
    /\ \A t \in Tasks, k \in SessionKeys, gens \in [SessionKeys -> Nat] :
          Queue!EnqueueWith(t, k, gens) => Chains!EnqueueWith(t, k, gens)
<1>1. Chains!QueueConstants
  BY DispatchConstants DEF Chains!QueueConstants
<1>2. Queue!QueueInit => Chains!QueueInit
  BY DEF Queue!QueueInit, Chains!QueueInit
<1>3. ASSUME NEW t \in Tasks
      PROVE  /\ Queue!Then(t) => Chains!Then(t)
             /\ Queue!Settle(t) => Chains!Settle(t)
             /\ Queue!Finally(t) => Chains!Finally(t)
  BY DEF Queue!Then, Chains!Then, Queue!PrevSettled, Chains!PrevSettled, Queue!Superseded,
     Chains!Superseded, Queue!Settle, Chains!Settle, Queue!Finally, Chains!Finally,
     Queue!Settling, Chains!Settling
<1>4. ASSUME NEW t \in Tasks, NEW k \in SessionKeys, NEW gens \in [SessionKeys -> Nat]
      PROVE  Queue!EnqueueWith(t, k, gens) => Chains!EnqueueWith(t, k, gens)
  BY DEF Queue!EnqueueWith, Chains!EnqueueWith, Queue!PendingOf, Chains!PendingOf,
     Queue!Pending, Chains!Pending, Queue!Settling, Chains!Settling
<1>. QED  BY <1>1, <1>2, <1>3, <1>4

\* Nothing has been flushed.
LEMMA InitInv == Init => DispatchInv
<1>. SUFFICES ASSUME Init PROVE DispatchInv
  OBVIOUS
<1>1. Chains!QueueInv
  BY SameQueue, Chains!InitInv DEF Init
<1>2. Typed
  BY DEF Init, Typed, Manager!ManagerInit, Manager!ManagerTypeOK, DirectKinds
<1>3. /\ InItsLane /\ NewestKnown
      /\ DiscardedSuperseded /\ OldOnesOver /\ NewestNotOver
      /\ ControllerIsNewest
  BY DEF Init, InItsLane, NewestKnown, DiscardedSuperseded, OldOnesOver, NewestNotOver,
     ControllerIsNewest, Queue!QueueInit, Manager!ManagerInit
<1>. QED  BY <1>1, <1>2, <1>3 DEF DispatchInv

\* What a flush does to the generations of the session's lanes.
LEMMA FlushedGenerations ==
    ASSUME DispatchInv, NEW b \in Bases, NEW m
    PROVE  /\ GenerationsAfter(b, m) \in [SessionKeys -> Nat]
           /\ \A k \in SessionKeys : generations[k] <= GenerationsAfter(b, m)[k]
           /\ ~CancelsWaiting(m) => GenerationsAfter(b, m) = generations
           /\ CancelsWaiting(m) =>
                /\ GenerationsAfter(b, m)[BaseKey(b)] = generations[BaseKey(b)] + 1
                /\ \A k \in SessionKeys \ {BaseKey(b)} : GenerationsAfter(b, m)[k] = generations[k]
<1>1. generations \in [SessionKeys -> Nat]
  BY DEF DispatchInv, Chains!QueueInv, Chains!QueueTypeOK
<1>2. BaseKey(b) \in SessionKeys
  BY DEF BaseKey, SessionKeys, Lanes
<1>. QED  BY <1>1, <1>2 DEF GenerationsAfter, Queue!Invalidated

\* A flush cancels what it discards, and hands the session to the new batch.
LEMMA FlushInv ==
    ASSUME DispatchInv, NEW t \in Tasks, NEW b \in Bases, NEW m \in DirectKinds \cup GroupKinds,
           NEW lane \in Lanes, Flush(t, b, m, lane),
           m = "normal" => b \in Directs /\ lane = "base",
           m = "ownerStop" => b \in Groups
    PROVE  DispatchInv'
<1>. DEFINE gens == GenerationsAfter(b, m)
            k == <<b, lane>>
<1>1. k \in SessionKeys /\ BaseKey(b) \in SessionKeys
  BY DEF SessionKeys, BaseKey, Lanes
<1>2. /\ gens \in [SessionKeys -> Nat]
      /\ \A j \in SessionKeys : generations[j] <= gens[j]
      /\ ~CancelsWaiting(m) => gens = generations
      /\ CancelsWaiting(m) => /\ gens[BaseKey(b)] = generations[BaseKey(b)] + 1
                              /\ \A j \in SessionKeys \ {BaseKey(b)} : gens[j] = generations[j]
  BY FlushedGenerations
<1>3. /\ status[t] = "new"
      /\ status' = [status EXCEPT ![t] = "queued"]
      /\ taskKey' = [taskKey EXCEPT ![t] = k]
      /\ enqueuedGen' = [enqueuedGen EXCEPT ![t] = gens[k]]
      /\ generations' = gens
  BY DEF Flush, Queue!EnqueueWith
<1>4. Chains!QueueInv'
  <2>1. Chains!EnqueueWith(t, k, gens)
    BY <1>1, <1>2, SameQueue DEF Flush
  <2>. HIDE DEF gens, k
  <2>. QED  BY <1>1, <1>2, <1>3, <2>1, SameQueue, Chains!EnqueueWithInv DEF DispatchInv
<1>. HIDE DEF gens
<1>5. /\ kind' = [kind EXCEPT ![t] = m] /\ base' = [base EXCEPT ![t] = b]
      /\ IF m = "normal"
           THEN /\ controllers' = [controllers EXCEPT ![b] = t]
                /\ aborted' = aborted \cup ({controllers[b]} \ {NoTask})
                /\ newest' = [newest EXCEPT ![b] = t]
           ELSE UNCHANGED <<controllers, aborted, newest>>
      /\ discarded' = IF CancelsWaiting(m)
                        THEN discarded \cup {u \in Tasks : taskKey[u] = BaseKey(b) /\ status[u] = "queued"}
                        ELSE discarded
  BY DEF Flush, IsDirectNormal, Manager!Rotate, managerVars
<1>6. Typed'
  BY <1>5 DEF DispatchInv, Typed, Manager!ManagerTypeOK
<1>7. /\ status \in [Tasks -> Queue!Statuses] /\ taskKey \in [Tasks -> SessionKeys \cup {NoKey}]
      /\ enqueuedGen \in [Tasks -> Nat] /\ generations \in [SessionKeys -> Nat]
      /\ \A u \in Tasks : status[u] # "new" => taskKey[u] \in SessionKeys
      /\ \A u \in Tasks : status[u] = "queued" => enqueuedGen[u] <= generations[taskKey[u]]
  BY DEF DispatchInv, Chains!QueueInv, Chains!QueueTypeOK, Chains!Statuses, Queue!Statuses,
     Chains!KeyedOnceEnqueued, Chains!Enqueued, Chains!GenerationNotAhead
<1>8. InItsLane'
  BY <1>3, <1>5, <1>7 DEF DispatchInv, Typed, InItsLane, BaseKey
<1>9. NewestKnown'
  BY <1>3, <1>5, <1>7 DEF DispatchInv, Typed, NewestKnown
<1>10. CancelsWaiting(m) <=> m \in {"normal", "ownerStop"}
  BY DEF CancelsWaiting, IsDirectNormal
<1>11. DiscardedSuperseded'
  BY <1>1, <1>2, <1>3, <1>5, <1>7
  DEF DispatchInv, Typed, DiscardedSuperseded, Queue!Superseded, ControllerIsNewest, NewestKnown
<1>12. OldOnesOver'
  <2>. SUFFICES ASSUME NEW u \in Tasks, status'[u] # "new", kind'[u] = "normal"
                PROVE  /\ u # newest'[base'[u]] /\ status'[u] = "queued" => u \in discarded'
                       /\ u # newest'[base'[u]] /\ status'[u] = "running" => u \in aborted'
                       /\ newest'[base'[u]] # NoTask
    BY DEF OldOnesOver
  <2>1. CASE u = t
    BY <1>3, <1>5, <1>7, <2>1, DispatchConstants DEF DispatchInv, Typed
  <2>2. CASE u # t /\ ~(m = "normal" /\ base[u] = b)
    <3>1. /\ base'[u] = base[u] /\ status'[u] = status[u] /\ kind'[u] = kind[u]
          /\ base[u] \in Bases
      BY <1>3, <1>5, <1>7, <2>2 DEF DispatchInv, Typed, InItsLane
    <3>2. newest'[base[u]] = newest[base[u]]
      BY <1>5, <2>2, <3>1 DEF DispatchInv, Typed
    <3>. QED  BY <1>5, <3>1, <3>2 DEF DispatchInv, OldOnesOver
  <2>3. CASE u # t /\ m = "normal" /\ base[u] = b
    <3>1. /\ base'[u] = b /\ status'[u] = status[u] /\ kind[u] = "normal"
          /\ newest'[b] = t /\ t # NoTask
      BY <1>3, <1>5, <1>7, <2>3, DispatchConstants DEF DispatchInv, Typed
    <3>2. status[u] = "queued" => u \in discarded'
      BY <1>5, <1>10, <2>3, <3>1 DEF DispatchInv, InItsLane
    <3>3. status[u] = "running" => u \in aborted'
      BY <1>5, <2>3, <3>1, DispatchConstants DEF DispatchInv, OldOnesOver, ControllerIsNewest
    <3>. QED  BY <3>1, <3>2, <3>3
  <2>. QED  BY <2>1, <2>2, <2>3
<1>13. NewestNotOver' /\ ControllerIsNewest'
  <2>. SUFFICES ASSUME NEW c \in Bases
                PROVE  /\ newest'[c] # NoTask =>
                            /\ newest'[c] \notin aborted'
                            /\ status'[newest'[c]] # "skipped"
                            /\ status'[newest'[c]] = "queued" => newest'[c] \notin discarded'
                       /\ controllers'[c] =
                            IF newest'[c] # NoTask /\ status'[newest'[c]] \in {"queued", "running"}
                              THEN newest'[c] ELSE NoTask
    BY DEF NewestNotOver, ControllerIsNewest
  <2>1. t \notin aborted' /\ t \notin discarded'
    <3>1. t \notin aborted /\ t \notin discarded /\ controllers[b] # t
      BY <1>3, DispatchConstants DEF DispatchInv, DiscardedSuperseded, ControllerIsNewest
    <3>. QED  BY <1>3, <1>5, <3>1
  <2>2. CASE m = "normal" /\ c = b
    BY <1>3, <1>5, <1>7, <2>1, <2>2, DispatchConstants
    DEF DispatchInv, Typed, Manager!ManagerTypeOK
  <2>3. CASE ~(m = "normal" /\ c = b)
    <3>1. newest'[c] = newest[c] /\ controllers'[c] = controllers[c]
      BY <1>5, <2>3 DEF DispatchInv, Typed, Manager!ManagerTypeOK
    <3>2. CASE newest[c] = NoTask
      BY <3>1, <3>2 DEF DispatchInv, ControllerIsNewest
    <3>3. CASE newest[c] # NoTask
      <4>1. /\ newest[c] # t /\ status'[newest[c]] = status[newest[c]]
            /\ base[newest[c]] = c /\ taskKey[newest[c]] = BaseKey(c)
            /\ newest[c] \in Tasks /\ c \in Directs
        BY <1>3, <1>7, <3>3 DEF DispatchInv, Typed, NewestKnown, InItsLane
      <4>2. newest[c] \notin aborted'
        <5>1. newest[c] \notin aborted
          BY <3>3 DEF DispatchInv, NewestNotOver
        <5>2. m = "normal" /\ controllers[b] # NoTask => base[controllers[b]] = b
          BY DEF DispatchInv, NewestKnown, ControllerIsNewest
        <5>. QED  BY <1>5, <2>3, <3>3, <4>1, <5>1, <5>2
      <4>3. status[newest[c]] = "queued" => newest[c] \notin discarded'
        <5>1. CancelsWaiting(m) => BaseKey(b) # BaseKey(c)
          BY <1>10, <2>3, <4>1, DispatchConstants DEF BaseKey
        <5>. QED  BY <1>5, <3>3, <4>1, <5>1 DEF DispatchInv, NewestNotOver
      <4>. QED  BY <3>1, <3>3, <4>1, <4>2, <4>3
      DEF DispatchInv, NewestNotOver, ControllerIsNewest
    <3>. QED  BY <3>2, <3>3
  <2>. QED  BY <2>2, <2>3
<1>. QED  BY <1>4, <1>6, <1>8, <1>9, <1>11, <1>12, <1>13 DEF DispatchInv

\* A batch's turn: skipped exactly if it was discarded.
LEMMA TaskTurnInv ==
    ASSUME DispatchInv, NEW t \in Tasks, TaskTurn(t)
    PROVE  DispatchInv'
<1>1. Chains!QueueInv'
  BY SameQueue, Chains!ThenInv DEF TaskTurn, DispatchInv
<1>2. /\ status[t] = "queued"
      /\ status' = [status EXCEPT ![t] = IF t \in discarded THEN "skipped" ELSE "running"]
      /\ UNCHANGED <<generations, taskKey, enqueuedGen, controllers, aborted, kind, base, newest, discarded>>
  BY DEF TaskTurn, Queue!Then, DispatchInv, DiscardedSuperseded, managerVars, historyVars
<1>3. status \in [Tasks -> Queue!Statuses]
  BY DEF DispatchInv, Chains!QueueInv, Chains!QueueTypeOK, Chains!Statuses, Queue!Statuses
<1>4. Typed'
  BY <1>2 DEF DispatchInv, Typed, Manager!ManagerTypeOK
<1>5. InItsLane' /\ NewestKnown'
  BY <1>2, <1>3 DEF DispatchInv, Typed, InItsLane, NewestKnown
<1>6. DiscardedSuperseded'
  BY <1>2, <1>3 DEF DispatchInv, DiscardedSuperseded, Queue!Superseded
<1>7. OldOnesOver' /\ NewestNotOver' /\ ControllerIsNewest'
  BY <1>2, <1>3
  DEF DispatchInv, Typed, OldOnesOver, NewestNotOver, ControllerIsNewest, NewestKnown,
    InItsLane
<1>. QED  BY <1>1, <1>4, <1>5, <1>6, <1>7 DEF DispatchInv

\* A reply that ends takes its controller with it, and no other.
LEMMA PipelineEndsInv ==
    ASSUME DispatchInv, NEW t \in Tasks, PipelineEnds(t)
    PROVE  DispatchInv'
<1>1. Chains!QueueInv'
  BY SameQueue, Chains!SettleInv DEF PipelineEnds, DispatchInv
<1>2. /\ status[t] = "running" /\ status' = [status EXCEPT ![t] = "ran"]
      /\ controllers' = IF kind[t] = "normal" /\ controllers[base[t]] = t
                          THEN [controllers EXCEPT ![base[t]] = NoTask] ELSE controllers
      /\ UNCHANGED <<generations, taskKey, enqueuedGen, aborted, kind, base, newest, discarded>>
  BY DEF PipelineEnds, Queue!Settle, IsDirectNormal, Manager!Cleanup, managerVars, historyVars
<1>3. status \in [Tasks -> Queue!Statuses] /\ (kind[t] = "normal" => base[t] \in Bases)
  BY <1>2
  DEF DispatchInv, Chains!QueueInv, Chains!QueueTypeOK, Chains!Statuses, Queue!Statuses,
    InItsLane
<1>4. Typed'
  BY <1>2, <1>3 DEF DispatchInv, Typed, Manager!ManagerTypeOK
<1>5. InItsLane' /\ NewestKnown'
  BY <1>2, <1>3 DEF DispatchInv, Typed, InItsLane, NewestKnown
<1>6. DiscardedSuperseded' /\ OldOnesOver' /\ NewestNotOver'
  BY <1>2, <1>3
  DEF DispatchInv, Typed, DiscardedSuperseded, Queue!Superseded, OldOnesOver, NewestNotOver
<1>7. ControllerIsNewest'
  BY <1>2, <1>3, DispatchConstants
  DEF DispatchInv, Typed, Manager!ManagerTypeOK, ControllerIsNewest, NewestKnown
<1>. QED  BY <1>1, <1>4, <1>5, <1>6, <1>7 DEF DispatchInv

\* Forgetting the generation of an idle session revives no discarded batch.
LEMMA LinkSettlesInv ==
    ASSUME DispatchInv, NEW t \in Tasks, LinkSettles(t)
    PROVE  DispatchInv'
<1>1. Chains!QueueInv'
  BY SameQueue, Chains!FinallyInv DEF LinkSettles, DispatchInv
<1>2. /\ status[t] \in {"skipped", "ran"} /\ status' = [status EXCEPT ![t] = "done"]
      /\ generations' = IF chains[taskKey[t]] = t THEN [generations EXCEPT ![taskKey[t]] = 0] ELSE generations
      /\ UNCHANGED <<taskKey, enqueuedGen, controllers, aborted, kind, base, newest, discarded>>
  BY DEF LinkSettles, Queue!Finally, Queue!Settling, managerVars, historyVars
<1>3. status \in [Tasks -> Queue!Statuses] /\ generations \in [SessionKeys -> Nat]
  BY DEF DispatchInv, Chains!QueueInv, Chains!QueueTypeOK, Chains!Statuses, Queue!Statuses
<1>4. Typed'
  BY <1>2 DEF DispatchInv, Typed, Manager!ManagerTypeOK
<1>5. InItsLane' /\ NewestKnown'
  BY <1>2, <1>3 DEF DispatchInv, Typed, InItsLane, NewestKnown
<1>6. ASSUME NEW u \in Tasks, status[u] = "queued"
      PROVE  generations'[taskKey[u]] = generations[taskKey[u]]
  <2>1. chains[taskKey[t]] = t => taskKey[u] # taskKey[t]
    <3>. SUFFICES ASSUME chains[taskKey[t]] = t PROVE taskKey[u] # taskKey[t]
      OBVIOUS
    <3>1. Chains!PendingOf(taskKey[t]) = {t}
      BY <1>2, SameQueue, Chains!LastLinkAlone DEF DispatchInv, Chains!Settling
    <3>. QED  BY <1>2, <1>6, <3>1 DEF Chains!PendingOf, Chains!Pending
  <2>. QED  BY <1>2, <1>3, <2>1
<1>7. DiscardedSuperseded'
  BY <1>2, <1>3, <1>6 DEF DispatchInv, DiscardedSuperseded, Queue!Superseded
<1>8. OldOnesOver' /\ NewestNotOver' /\ ControllerIsNewest'
  BY <1>2, <1>3
  DEF DispatchInv, Typed, OldOnesOver, NewestNotOver, ControllerIsNewest, NewestKnown,
    InItsLane
<1>. QED  BY <1>1, <1>4, <1>5, <1>7, <1>8 DEF DispatchInv

-----------------------------------------------------------------------------
\* Every step keeps the invariant.
LEMMA NextInv == DispatchInv /\ [Next]_vars => DispatchInv'
<1>. SUFFICES ASSUME DispatchInv, [Next]_vars PROVE DispatchInv'
  OBVIOUS
<1>1. CASE FlushDirect
  <2>. PICK t \in Tasks, b \in Directs, m \in DirectKinds : \E lane \in LanesOf(t, m) : Flush(t, b, m, lane)
    BY <1>1 DEF FlushDirect
  <2>. PICK lane \in LanesOf(t, m) : Flush(t, b, m, lane)
    OBVIOUS
  <2>1. lane \in Lanes /\ (m = "normal" => lane = "base") /\ m # "ownerStop"
    BY DEF LanesOf, Lanes, StopKinds, DirectKinds
  <2>. QED  BY <2>1, FlushInv DEF Bases
<1>2. CASE FlushGroup
  <2>. PICK t \in Tasks, b \in Groups, m \in GroupKinds : \E lane \in LanesOf(t, m) : Flush(t, b, m, lane)
    BY <1>2 DEF FlushGroup
  <2>. PICK lane \in LanesOf(t, m) : Flush(t, b, m, lane)
    OBVIOUS
  <2>1. lane \in Lanes /\ m # "normal"
    BY DEF LanesOf, Lanes, StopKinds, GroupKinds
  <2>. QED  BY <2>1, FlushInv DEF Bases
<1>3. CASE \E t \in Tasks : Continuation(t) \/ PipelineEnds(t)
  BY <1>3, TaskTurnInv, LinkSettlesInv, PipelineEndsInv DEF Continuation
<1>4. CASE UNCHANGED vars
  <2>1. Chains!QueueInv'
    BY <1>4, SameQueue, Chains!NextInv DEF DispatchInv, vars, queueVars, Chains!queueVars
  <2>2. Typed' /\ InItsLane' /\ NewestKnown' /\ ControllerIsNewest'
    BY <1>4
    DEF DispatchInv, vars, queueVars, managerVars, historyVars, Typed,
      Manager!ManagerTypeOK, InItsLane, NewestKnown, ControllerIsNewest
  <2>3. DiscardedSuperseded' /\ OldOnesOver' /\ NewestNotOver'
    BY <1>4 DEF DispatchInv, vars, queueVars, managerVars, historyVars, DiscardedSuperseded,
       Queue!Superseded, OldOnesOver, NewestNotOver
  <2>. QED  BY <2>1, <2>2, <2>3 DEF DispatchInv
<1>. QED  BY <1>1, <1>2, <1>3, <1>4 DEF Next

\* The invariant of the dispatcher and its queue holds in every reachable state.
THEOREM DispatchInvariant == Spec => []DispatchInv
  BY InitInv, NextInv, PTL DEF Spec

\* Once a newer plain message was flushed, every older reply of the session that
\* still runs has been told to abort, and the newest can be told.
THEOREM LatestMessageWins == Spec => []LatestWins
<1>1. DispatchInv => LatestWins
  BY DEF DispatchInv, LatestWins, OldOnesOver
<1>. QED  BY <1>1, DispatchInvariant, PTL

\* The latest plain message of a session is neither aborted nor skipped.
THEOREM LatestMessageSurvives == Spec => []NewestSurvives
<1>1. DispatchInv => NewestSurvives
  BY DEF DispatchInv, NewestSurvives, NewestNotOver
<1>. QED  BY <1>1, DispatchInvariant, PTL

\* A waiting batch is skipped exactly when its session was cancelled after it
\* came.
THEOREM SkipsAreCancellations == Spec => SkippedExactlyIfDiscarded
<1>1. DispatchInv /\ [Next]_vars =>
        [\A t \in Tasks : status[t] = "queued" /\ status'[t] # "queued" =>
            (status'[t] = "skipped" <=> t \in discarded)]_vars
  <2>. SUFFICES ASSUME DispatchInv, Next, NEW t \in Tasks, status[t] = "queued", status'[t] # "queued"
                PROVE  status'[t] = "skipped" <=> t \in discarded
    OBVIOUS
  <2>1. status \in [Tasks -> Queue!Statuses]
    BY DEF DispatchInv, Chains!QueueInv, Chains!QueueTypeOK, Chains!Statuses, Queue!Statuses
  <2>2. ASSUME NEW u \in Tasks, NEW b, NEW m, NEW lane, Flush(u, b, m, lane) PROVE FALSE
    BY <2>1, <2>2 DEF Flush, Queue!EnqueueWith
  <2>3. PICK u \in Tasks : Continuation(u) \/ PipelineEnds(u)
    BY <2>2 DEF Next, FlushDirect, FlushGroup
  <2>4. TaskTurn(t)
    BY <2>1, <2>3
    DEF Continuation, TaskTurn, LinkSettles, PipelineEnds, Queue!Then, Queue!Settle,
      Queue!Finally, Queue!Settling
  <2>. QED  BY <2>1, <2>4 DEF TaskTurn, Queue!Then, DispatchInv, DiscardedSuperseded
<1>. QED  BY <1>1, DispatchInvariant, PTL DEF Spec, SkippedExactlyIfDiscarded
================================================================================
