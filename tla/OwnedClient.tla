---------------------------- MODULE OwnedClient ----------------------------
(***************************************************************************)
(* What a WebSocket client promises its owner, independent of sockets,     *)
(* timers and tokens: it announces one state after another, a client that  *)
(* has given up stays so, and one that was disposed of is heard of no more.*)
(* A step is one call or callback; what it announces last is what counts.  *)
(***************************************************************************)
EXTENDS ClientInterface

VARIABLES
    shown,  \* the state last announced
    over    \* disposed of

Init == shown = "none" /\ over = FALSE

\* A first attempt that fails at once is announced in the same call: the owner
\* hears "connecting" and what became of it, and knows the latter.
Begin ==
    /\ shown = "none" /\ ~over
    /\ shown' \in {"connecting"} \cup (NextStates("connecting") \ {"connected"})
    /\ UNCHANGED over

Announce ==
    /\ ~over
    /\ shown' \in NextStates(shown)
    /\ UNCHANGED over

Dispose ==
    /\ ~over
    /\ over' = TRUE /\ shown' = "disconnected"

Next == Begin \/ Announce \/ Dispose

Spec == Init /\ [][Next]_<<shown, over>>
=============================================================================
