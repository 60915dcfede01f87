-------------------------- MODULE MCDispatchReply --------------------------
(* Model-checking instance of DispatchReply: two assistant messages of up   *)
(* to two pieces, enough for a drain that is cut short by the next message  *)
(* while another one is queued.                                             *)
EXTENDS DispatchReply
=============================================================================
