---------------------------- MODULE MCTokenCache ----------------------------
(* Model-checking instance of TokenCache: two callers, and fetches enough   *)
(* for each of them to join, be refused, force a refresh and try again      *)
(* while a timer starts fetches of its own.                                 *)
EXTENDS TokenCache

CONSTANTS c1, c2

MCCallers == {c1, c2}
=============================================================================
