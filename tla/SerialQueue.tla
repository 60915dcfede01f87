---------------------------- MODULE SerialQueue ----------------------------
(***************************************************************************)
(* What a session queue promises its callers, independent of promise       *)
(* chains and generation counters: the tasks of one session run one at a   *)
(* time in the order they were submitted, tasks of different sessions are  *)
(* unrelated, and superseding a session drops exactly the tasks that were  *)
(* still waiting at that moment.                                           *)
(***************************************************************************)
CONSTANTS
    Keys,    \* session keys
    Tasks,   \* task identities; each is submitted at most once
    NoKey    \* the session of a task that was not submitted yet

VARIABLES
    phase,    \* [Tasks -> Phases]
    session,  \* [Tasks -> Keys \cup {NoKey}]
    ahead,    \* ahead[t]: unfinished tasks of t's session when t was submitted
    stale     \* waiting tasks that have been superseded

vars == <<phase, session, ahead, stale>>

Phases == {"new", "waiting", "active", "leaving", "finished"}

Unfinished(k) ==
    {t \in Tasks : session[t] = k /\ phase[t] \in {"waiting", "active", "leaving"}}

Init ==
    /\ phase = [t \in Tasks |-> "new"]
    /\ session = [t \in Tasks |-> NoKey]
    /\ ahead = [t \in Tasks |-> {}]
    /\ stale = {}

Submit(t, k) ==
    /\ phase[t] = "new"
    /\ phase' = [phase EXCEPT ![t] = "waiting"]
    /\ session' = [session EXCEPT ![t] = k]
    /\ ahead' = [ahead EXCEPT ![t] = Unfinished(k)]
    /\ UNCHANGED stale

Supersede(k) ==
    /\ stale' = stale \cup {t \in Tasks : session[t] = k /\ phase[t] = "waiting"}
    /\ UNCHANGED <<phase, session, ahead>>

\* The turn of t has come: everything submitted before it has left.
Turn(t) ==
    /\ phase[t] = "waiting"
    /\ \A u \in ahead[t] : phase[u] = "finished"

Begin(t) ==
    /\ Turn(t)
    /\ t \notin stale
    /\ phase' = [phase EXCEPT ![t] = "active"]
    /\ UNCHANGED <<session, ahead, stale>>

Drop(t) ==
    /\ Turn(t)
    /\ t \in stale
    /\ phase' = [phase EXCEPT ![t] = "leaving"]
    /\ stale' = stale \ {t}
    /\ UNCHANGED <<session, ahead>>

End(t) ==
    /\ phase[t] = "active"
    /\ phase' = [phase EXCEPT ![t] = "leaving"]
    /\ UNCHANGED <<session, ahead, stale>>

Leave(t) ==
    /\ phase[t] = "leaving"
    /\ phase' = [phase EXCEPT ![t] = "finished"]
    /\ UNCHANGED <<session, ahead, stale>>

Next ==
    \/ \E k \in Keys : Supersede(k)
    \/ \E t \in Tasks, k \in Keys : Submit(t, k)
    \/ \E t \in Tasks : Begin(t) \/ Drop(t) \/ End(t) \/ Leave(t)

Spec == Init /\ [][Next]_vars
=============================================================================
