--------------------------- MODULE MCSessionQueue ---------------------------
(* Model-checking instance of SessionQueue: two sessions that share a pool  *)
(* of three tasks, so that a session can go idle and be used again, or hold *)
(* a chain of three links, while the other one moves on its own.            *)
EXTENDS SessionQueue

CONSTANTS k1, k2, t1, t2, t3

MCKeys == {k1, k2}
MCTasks == {t1, t2, t3}
=============================================================================
