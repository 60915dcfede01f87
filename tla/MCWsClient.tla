----------------------------- MODULE MCWsClient -----------------------------
(* Model-checking instance of WsClient: room for more sockets than the      *)
(* client should ever have, and for a whole series of failed attempts.      *)
EXTENDS WsClient

CONSTANTS s1, s2, r1, r2

MCSockets == {s1, s2}
MCRequests == {r1, r2}
=============================================================================
