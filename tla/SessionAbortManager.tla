------------------------ MODULE SessionAbortManager ------------------------
(***************************************************************************)
(* One AbortController per session                                         *)
(* (src/dispatcher/queue/session-abort-manager.ts).  A controller is named *)
(* by the task it was made for.                                            *)
(***************************************************************************)
CONSTANTS
    Sessions,   \* base session keys
    Owners,     \* what a controller is made for
    NoOwner     \* no controller

VARIABLES
    controllers,  \* Map sessionKey -> the active controller (NoOwner: no entry)
    aborted       \* controllers whose signal has fired

managerVars == <<controllers, aborted>>

ManagerTypeOK ==
    /\ controllers \in [Sessions -> Owners \cup {NoOwner}]
    /\ aborted \subseteq Owners

ManagerInit ==
    /\ controllers = [s \in Sessions |-> NoOwner]
    /\ aborted = {}

\* Mutant: the old controller is replaced and not aborted.
RotateQuietly(s, o) ==
    /\ controllers' = [controllers EXCEPT ![s] = o]
    /\ UNCHANGED aborted

\* rotate(sessionKey): abort what was there, hand out a new controller.
Rotate(s, o) ==
    /\ controllers' = [controllers EXCEPT ![s] = o]
    /\ aborted' = aborted \cup ({controllers[s]} \ {NoOwner})

\* cleanup(sessionKey, signal): forget the controller unless a newer one
\* has taken its place.
Cleanup(s, o) ==
    /\ controllers' = IF controllers[s] = o
                        THEN [controllers EXCEPT ![s] = NoOwner] ELSE controllers
    /\ UNCHANGED aborted
=============================================================================
