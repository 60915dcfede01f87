-------------------------- MODULE ClientInterface --------------------------
(***************************************************************************)
(* The states a WebSocket client announces to its owner (onStateChange of  *)
(* src/access/ws/client.ts), and which may follow which.                   *)
(***************************************************************************)

\* "none" before there is a client; while it authenticates it is connecting.
ClientStates == {"none", "connecting", "connected", "reconnecting", "disconnected"}

NextStates(state) ==
    IF state = "connecting" THEN {"connected", "reconnecting", "disconnected"}
    ELSE IF state = "connected" THEN {"reconnecting", "disconnected"}
    ELSE IF state = "reconnecting" THEN {"connecting", "disconnected"}
    ELSE {}
=============================================================================
