-------------------------- MODULE MCSessionDispatch --------------------------
(* Model-checking instance of SessionDispatch: a direct peer and a group,    *)
(* three batches that may be anything the code tells apart: enough for an    *)
(* older pipeline that winds down while two newer batches come in, and for a *)
(* session that goes idle between two of them.                               *)
EXTENDS SessionDispatch

CONSTANTS t1, t2, t3

MCTasks == {t1, t2, t3}
=============================================================================
