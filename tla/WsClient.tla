------------------------------ MODULE WsClient ------------------------------
(***************************************************************************)
(* The life of a Yuanbao WebSocket client (src/access/ws/client.ts):       *)
(* connecting, auth-bind, token refresh, heartbeat, reconnection, request  *)
(* matching and disposal.                                                  *)
(*                                                                         *)
(* Every action is one callback of the event loop: a socket event, a       *)
(* message, a timer, a settled promise, or a call of the gateway.  Sockets *)
(* have identities, so that a second live socket, a socket whose listeners *)
(* were removed and a timer whose handle was overwritten can be told from  *)
(* the current ones.  The server is the environment: it may answer, answer *)
(* late, say nothing or close at any time.                                 *)
(***************************************************************************)
EXTENDS Naturals, FiniteSets

CONSTANTS
    Sockets,               \* identities, recycled once nothing refers to them
    NoSocket,
    Requests,              \* business requests (sendAndWait, sendAndWaitWith)
    MaxReconnectAttempts,  \* config.maxReconnectAttempts
    StaticToken            \* the account has a fixed token: a refresh returns it again

ASSUME WsConstants ==
    /\ NoSocket \notin Sockets
    /\ MaxReconnectAttempts \in Nat
    /\ StaticToken \in BOOLEAN

VARIABLES
    state,              \* this.state
    started,            \* connect() has been called
    disposed,           \* this.disposed
    ws,                 \* this.ws
    sock,               \* readyState of every socket
    listening,          \* sockets whose event handlers are attached
    reconnectAttempts,
    armed,              \* how many timers of each kind are armed in the event loop
    reconnectTimer,     \* kind of the timer whose handle is kept, or "none"
    refreshing,         \* onAuthFailed promises that have not settled
    authAwaited,        \* an auth-bind request was sent on ws and not answered
    authRejected,       \* the server called the token in connectionConfig invalid
    heartbeatArmed,     \* this.heartbeatTimer
    heartbeatAckReceived,
    heartbeatTimeoutCount,
    pendingRequests,    \* keys of the map
    requestTimers,      \* requests whose timeout timer is armed
    answerable,         \* requests whose answer the current socket may still bring
    settled             \* how often the promise of a request was settled

connectionVars == <<state, started, disposed, ws, sock, listening>>
timerVars == <<reconnectAttempts, armed, reconnectTimer>>
authVars == <<refreshing, authAwaited, authRejected>>
heartbeatVars == <<heartbeatArmed, heartbeatAckReceived, heartbeatTimeoutCount>>
requestVars == <<pendingRequests, requestTimers, answerable, settled>>
vars == <<connectionVars, timerVars, authVars, heartbeatVars, requestVars>>

States == {"disconnected", "connecting", "authenticating", "connected", "reconnecting"}
TimerKinds == {"connect", "refresh"}
HeartbeatTimeoutThreshold == 2

TypeOK ==
    /\ state \in States
    /\ started \in BOOLEAN /\ disposed \in BOOLEAN
    /\ ws \in Sockets \cup {NoSocket}
    /\ sock \in [Sockets -> {"free", "connecting", "open", "closing", "closed"}]
    /\ listening \subseteq Sockets
    /\ reconnectAttempts \in 0..MaxReconnectAttempts
    /\ armed \in [TimerKinds -> Nat]
    /\ reconnectTimer \in TimerKinds \cup {"none"}
    /\ refreshing \in Nat
    /\ authAwaited \in BOOLEAN /\ authRejected \in BOOLEAN
    /\ heartbeatArmed \in BOOLEAN /\ heartbeatAckReceived \in BOOLEAN
    /\ heartbeatTimeoutCount \in 0..HeartbeatTimeoutThreshold
    /\ pendingRequests \subseteq Requests /\ requestTimers \subseteq Requests
    /\ answerable \subseteq Requests
    /\ settled \in [Requests -> Nat]

Init ==
    /\ state = "disconnected" /\ started = FALSE /\ disposed = FALSE
    /\ ws = NoSocket /\ sock = [s \in Sockets |-> "free"] /\ listening = {}
    /\ reconnectAttempts = 0
    /\ armed = [k \in TimerKinds |-> 0] /\ reconnectTimer = "none"
    /\ refreshing = 0 /\ authAwaited = FALSE /\ authRejected = FALSE
    /\ heartbeatArmed = FALSE /\ heartbeatAckReceived = TRUE /\ heartbeatTimeoutCount = 0
    /\ pendingRequests = {} /\ requestTimers = {}
    /\ answerable = {} /\ settled = [r \in Requests |-> 0]

-----------------------------------------------------------------------------
(* Pieces several handlers share. *)

\* A message can reach the client: the current socket is open and listened to.
Receiving == ws \in listening /\ sock[ws] = "open"

\* sendBinary succeeds.
CanSend == ws # NoSocket /\ sock[ws] = "open"

\* Mutant: the handlers of the dropped socket stay attached.
CloseKeepingHandlers ==
    /\ heartbeatArmed' = FALSE
    /\ ws' = NoSocket
    /\ authAwaited' = FALSE
    /\ answerable' = {}
    /\ UNCHANGED <<sock, listening>>

\* closeCurrentWs: no timer, no handlers, no socket.  What the server had sent
\* is lost with the handlers.
CloseCurrentWs ==
    /\ heartbeatArmed' = FALSE
    /\ ws' = NoSocket
    /\ sock' = [s \in Sockets |-> IF s = ws THEN "free" ELSE sock[s]]
    /\ listening' = listening \ {ws}
    /\ authAwaited' = FALSE
    /\ answerable' = {}

\* Mutant: attempts are not counted.
ScheduleFromUncounted(k, tmr, handle) ==
    /\ state' = "reconnecting"
    /\ UNCHANGED reconnectAttempts
    /\ armed' = [tmr EXCEPT ![k] = @ + 1]
    /\ reconnectTimer' = k

\* Arm a timer of kind k with one more attempt, or give up: what
\* scheduleReconnect and retryAuthRefreshAfterDelay do in a client that is not
\* disposed, given the timers that are armed and the handle that is kept.
ScheduleFrom(k, tmr, handle) ==
    IF reconnectAttempts >= MaxReconnectAttempts
      THEN /\ state' = "disconnected"
           /\ armed' = tmr
           /\ UNCHANGED reconnectAttempts
           /\ reconnectTimer' = handle
      ELSE /\ state' = "reconnecting"
           /\ reconnectAttempts' = reconnectAttempts + 1
           /\ armed' = [tmr EXCEPT ![k] = @ + 1]
           /\ reconnectTimer' = k

ScheduleReconnect ==
    IF disposed THEN UNCHANGED <<state, timerVars>> ELSE ScheduleFrom("connect", armed, reconnectTimer)

RetryAuthRefreshAfterDelay ==
    IF disposed THEN UNCHANGED <<state, timerVars>> ELSE ScheduleFrom("refresh", armed, reconnectTimer)

\* new WebSocket(...) with its handlers; the socket ws pointed to is dropped.
NewSocket(s) ==
    /\ sock[s] = "free"
    /\ ws' = s
    /\ sock' = [x \in Sockets |->
                  IF x = s THEN "connecting"
                  ELSE IF x = ws /\ sock[x] = "closed" THEN "free" ELSE sock[x]]
    /\ listening' = listening \cup {s}
    /\ state' = "connecting"

-----------------------------------------------------------------------------
(* Calls of the gateway. *)

\* connect(), once per client.  Like ReconnectFires it may fail in the
\* constructor of the socket.
Connect ==
    /\ ~started /\ ~disposed
    /\ started' = TRUE
    /\ \/ \E s \in Sockets : NewSocket(s) /\ UNCHANGED timerVars
       \/ ScheduleReconnect /\ UNCHANGED <<ws, sock, listening>>
    /\ UNCHANGED <<disposed, authVars, heartbeatVars, requestVars>>

\* disconnect(): dispose and clean up.
Disconnect ==
    /\ ~disposed
    /\ disposed' = TRUE
    /\ CloseCurrentWs
    /\ IF reconnectTimer = "none"
         THEN UNCHANGED <<armed, reconnectTimer>>
         ELSE /\ armed' = [armed EXCEPT ![reconnectTimer] = @ - 1]
              /\ reconnectTimer' = "none"
    /\ settled' = [r \in Requests |-> settled[r] + IF r \in pendingRequests THEN 1 ELSE 0]
    /\ requestTimers' = requestTimers \ pendingRequests
    /\ pendingRequests' = {}
    /\ state' = "disconnected"
    /\ UNCHANGED <<started, reconnectAttempts, refreshing, authRejected,
                   heartbeatAckReceived, heartbeatTimeoutCount>>

\* sendAndWait(With): the promise is rejected at once when the socket is not open.
Send(r) ==
    /\ settled[r] = 0 /\ r \notin pendingRequests
    /\ IF CanSend
         THEN /\ pendingRequests' = pendingRequests \cup {r}
              /\ requestTimers' = requestTimers \cup {r}
              /\ answerable' = answerable \cup {r}
              /\ UNCHANGED settled
         ELSE /\ settled' = [settled EXCEPT ![r] = @ + 1]
              /\ UNCHANGED <<pendingRequests, requestTimers, answerable>>
    /\ UNCHANGED <<connectionVars, timerVars, authVars, heartbeatVars>>

-----------------------------------------------------------------------------
(* Socket events. *)

\* "open": send auth-bind.  A request that could not be encoded looks to the
\* client like one whose answer is lost.
SocketOpens(s) ==
    /\ s \in listening /\ sock[s] = "connecting"
    /\ sock' = [sock EXCEPT ![s] = "open"]
    /\ state' = "authenticating"
    /\ authAwaited' = TRUE
    /\ UNCHANGED <<started, disposed, ws, listening, timerVars, refreshing, authRejected,
                   heartbeatVars, requestVars>>

\* The server started to close: no more sending, the close event is to come.
SocketCloses(s) ==
    /\ s \in listening /\ sock[s] = "open"
    /\ sock' = [sock EXCEPT ![s] = "closing"]
    /\ UNCHANGED <<state, started, disposed, ws, listening, timerVars, authVars,
                   heartbeatVars, requestVars>>

\* "close", after any "error": reconnect unless the code forbids it.
SocketClosed(s, noReconnect) ==
    /\ s \in listening /\ sock[s] \in {"connecting", "open", "closing"}
    /\ sock' = [sock EXCEPT ![s] = "closed"]
    /\ listening' = listening \ {s}
    /\ heartbeatArmed' = FALSE
    /\ authAwaited' = (authAwaited /\ s # ws)
    /\ answerable' = IF s = ws THEN {} ELSE answerable
    /\ CASE disposed -> UNCHANGED <<state, timerVars>>
         [] ~disposed /\ noReconnect -> state' = "disconnected" /\ UNCHANGED timerVars
         [] OTHER -> ScheduleReconnect
    /\ UNCHANGED <<started, disposed, ws, refreshing, authRejected, heartbeatAckReceived,
                   heartbeatTimeoutCount, pendingRequests, requestTimers, settled>>

-----------------------------------------------------------------------------
(* Answers to auth-bind. *)

\* Code 0 or ALREADY_AUTH: connected, heartbeat from scratch.
AuthSucceeds ==
    /\ Receiving /\ authAwaited
    /\ authAwaited' = FALSE
    /\ reconnectAttempts' = 0
    /\ state' = "connected"
    /\ heartbeatArmed' = TRUE /\ heartbeatAckReceived' = TRUE /\ heartbeatTimeoutCount' = 0
    /\ UNCHANGED <<started, disposed, ws, sock, listening, armed, reconnectTimer, refreshing,
                   authRejected, requestVars>>

\* Mutant: an invalid token is treated like a server that is busy.
AuthInvalidReconnects ==
    /\ Receiving /\ authAwaited
    /\ CloseCurrentWs
    /\ authRejected' = TRUE
    /\ ScheduleReconnect
    /\ UNCHANGED <<started, disposed, refreshing, heartbeatAckReceived,
                   heartbeatTimeoutCount, pendingRequests, requestTimers, settled>>

\* Mutant: the client calls itself disconnected while its token is refreshed.
AuthInvalidDisconnected ==
    /\ Receiving /\ authAwaited
    /\ CloseCurrentWs
    /\ authRejected' = TRUE
    /\ refreshing' = refreshing + 1
    /\ state' = "disconnected"
    /\ UNCHANGED <<started, disposed, timerVars, heartbeatAckReceived,
                   heartbeatTimeoutCount, pendingRequests, requestTimers, settled>>

\* AUTH_FAILED_CODES: drop the socket, ask the gateway for a new token.
AuthInvalid ==
    /\ Receiving /\ authAwaited
    /\ CloseCurrentWs
    /\ authRejected' = TRUE
    /\ refreshing' = refreshing + 1
    /\ UNCHANGED <<state, started, disposed, timerVars, heartbeatAckReceived,
                   heartbeatTimeoutCount, pendingRequests, requestTimers, settled>>

\* AUTH_RETRYABLE_CODES: drop the socket, reconnect later.
AuthRetryable ==
    /\ Receiving /\ authAwaited
    /\ CloseCurrentWs
    /\ ScheduleReconnect
    /\ UNCHANGED <<started, disposed, refreshing, authRejected, heartbeatAckReceived,
                   heartbeatTimeoutCount, pendingRequests, requestTimers, settled>>

\* Any other code, or an answer that does not decode.
AuthRefused ==
    /\ Receiving /\ authAwaited
    /\ CloseCurrentWs
    /\ state' = "disconnected"
    /\ UNCHANGED <<started, disposed, timerVars, refreshing, authRejected,
                   heartbeatAckReceived, heartbeatTimeoutCount, pendingRequests, requestTimers, settled>>

\* Mutant: a refresh that ends after disconnect() reconnects.
RefreshSettlesAnyway(outcome) ==
    /\ refreshing > 0
    /\ refreshing' = refreshing - 1
    /\ CASE outcome = "token" ->
                authRejected' = StaticToken /\ ScheduleFrom("connect", armed, reconnectTimer)
         [] outcome = "error" ->
                ScheduleFrom("refresh", armed, reconnectTimer) /\ UNCHANGED authRejected
         [] OTHER ->
                state' = "disconnected" /\ UNCHANGED <<timerVars, authRejected>>
    /\ UNCHANGED <<started, disposed, ws, sock, listening, authAwaited, heartbeatVars,
                   requestVars>>

\* The promise of onAuthFailed settles: with a token, with nothing, or with an
\* error.  The first refresh and the delayed retries treat it alike.
RefreshSettles(outcome) ==
    /\ refreshing > 0
    /\ refreshing' = refreshing - 1
    /\ CASE outcome = "token" /\ ~disposed ->
                authRejected' = StaticToken /\ ScheduleReconnect
         [] outcome = "error" /\ ~disposed ->
                RetryAuthRefreshAfterDelay /\ UNCHANGED authRejected
         [] OTHER ->
                state' = "disconnected" /\ UNCHANGED <<timerVars, authRejected>>
    /\ UNCHANGED <<started, disposed, ws, sock, listening, authAwaited, heartbeatVars,
                   requestVars>>

-----------------------------------------------------------------------------
(* Timers. *)

Expired(k) == [armed EXCEPT ![k] = @ - 1]

\* The timer of scheduleReconnect: connect again, or fail in the constructor
\* of the socket and schedule once more.  (A disposed client has no timer left:
\* DisposedIsQuiet.)
ReconnectFires ==
    /\ armed["connect"] > 0
    /\ \/ /\ ~disposed
          /\ \E s \in Sockets : NewSocket(s)
          /\ armed' = Expired("connect")
          /\ reconnectTimer' = "none"
          /\ UNCHANGED reconnectAttempts
       \/ /\ ~disposed
          /\ ScheduleFrom("connect", Expired("connect"), "none")
          /\ UNCHANGED <<ws, sock, listening>>
    /\ UNCHANGED <<started, disposed, authVars, heartbeatVars, requestVars>>

\* The timer of retryAuthRefreshAfterDelay: ask for a token again.
RetryFires ==
    /\ armed["refresh"] > 0
    /\ armed' = Expired("refresh")
    /\ reconnectTimer' = "none"
    /\ refreshing' = IF disposed THEN refreshing ELSE refreshing + 1
    /\ UNCHANGED <<connectionVars, reconnectAttempts, authAwaited, authRejected,
                   heartbeatVars, requestVars>>

\* Mutant: every missed ping starts the count again.
PingMissedUncounted ==
    /\ heartbeatArmed /\ ~heartbeatAckReceived
    /\ heartbeatTimeoutCount' = 0
    /\ UNCHANGED <<connectionVars, timerVars, authVars, heartbeatArmed,
                   heartbeatAckReceived, requestVars>>

\* sendPing with the last ping unacknowledged: count, and reconnect at the
\* threshold.
PingMissed ==
    /\ heartbeatArmed /\ ~heartbeatAckReceived
    /\ IF heartbeatTimeoutCount + 1 >= HeartbeatTimeoutThreshold
         THEN /\ heartbeatTimeoutCount' = 0
              /\ CloseCurrentWs
              /\ ScheduleReconnect
         ELSE /\ heartbeatTimeoutCount' = heartbeatTimeoutCount + 1
              /\ UNCHANGED <<state, ws, sock, listening, authAwaited, timerVars, heartbeatArmed, answerable>>
    /\ UNCHANGED <<started, disposed, refreshing, authRejected, heartbeatAckReceived,
                   pendingRequests, requestTimers, settled>>

\* sendPing with the last ping acknowledged: send the next one.  (The branch for
\* a ping that cannot be encoded is left out: the message is the same empty one
\* every time, so it is never taken.)
PingSent ==
    /\ heartbeatArmed /\ heartbeatAckReceived
    /\ heartbeatAckReceived' = FALSE
    /\ UNCHANGED <<connectionVars, timerVars, authVars, heartbeatArmed, heartbeatTimeoutCount,
                   requestVars>>

\* Mutant: the entry of a request that timed out stays in the map.
RequestTimesOutInMap(r) ==
    /\ r \in requestTimers
    /\ requestTimers' = requestTimers \ {r}
    /\ settled' = [settled EXCEPT ![r] = @ + 1]
    /\ UNCHANGED <<connectionVars, timerVars, authVars, heartbeatVars, pendingRequests,
                   answerable>>

\* The timeout of sendAndWait(With).
RequestTimesOut(r) ==
    /\ r \in requestTimers
    /\ requestTimers' = requestTimers \ {r}
    /\ pendingRequests' = pendingRequests \ {r}
    /\ settled' = [settled EXCEPT ![r] = @ + 1]
    /\ UNCHANGED <<connectionVars, timerVars, authVars, heartbeatVars, answerable>>

-----------------------------------------------------------------------------
(* Messages on an authenticated socket. *)

\* onPingResponse: a late answer counts as well as a timely one.
PingAnswered ==
    /\ Receiving /\ heartbeatArmed /\ ~heartbeatAckReceived
    /\ heartbeatAckReceived' = TRUE
    /\ heartbeatTimeoutCount' = 0
    /\ heartbeatArmed' = TRUE
    /\ UNCHANGED <<connectionVars, timerVars, authVars, requestVars>>

\* onBusinessResponse; an answer to a request that is no longer pending is
\* dropped, and so is one that comes after its socket.
RequestAnswered(r) ==
    /\ Receiving
    /\ r \in answerable \cap pendingRequests
    /\ requestTimers' = requestTimers \ {r}
    /\ pendingRequests' = pendingRequests \ {r}
    /\ settled' = [settled EXCEPT ![r] = @ + 1]
    /\ UNCHANGED <<connectionVars, timerVars, authVars, heartbeatVars, answerable>>

-----------------------------------------------------------------------------
SocketEvent ==
    \E s \in Sockets :
        SocketOpens(s) \/ SocketCloses(s) \/ \E n \in BOOLEAN : SocketClosed(s, n)

AuthAnswer == AuthSucceeds \/ AuthInvalid \/ AuthRetryable \/ AuthRefused

RefreshDone == \E o \in {"token", "empty", "error"} : RefreshSettles(o)

HeartbeatFires == PingMissed \/ PingSent

Next ==
    \/ Connect \/ Disconnect
    \/ SocketEvent \/ AuthAnswer \/ RefreshDone
    \/ ReconnectFires \/ RetryFires \/ HeartbeatFires \/ PingAnswered
    \/ \E r \in Requests : Send(r) \/ RequestAnswered(r) \/ RequestTimesOut(r)

\* A connection attempt ends: the socket opens or is closed.
AttemptEnds ==
    \E s \in Sockets :
        \/ SocketOpens(s)
        \/ sock[s] \in {"connecting", "closing"} /\ \E n \in BOOLEAN : SocketClosed(s, n)

\* Armed timers fire, connection attempts end, token fetches settle.  Nothing
\* is assumed of the server's answers.
Fairness ==
    /\ WF_vars(ReconnectFires) /\ WF_vars(RetryFires) /\ WF_vars(HeartbeatFires)
    /\ \A r \in Requests : WF_vars(RequestTimesOut(r))
    /\ WF_vars(AttemptEnds) /\ WF_vars(RefreshDone)

Spec == Init /\ [][Next]_vars

FairSpec == Spec /\ Fairness

-----------------------------------------------------------------------------
Sum(f) == f["connect"] + f["refresh"]

\* What can still move the client without a call from outside.
Drivers == Cardinality(listening) + Sum(armed) + refreshing

\* The state the gateway reports names the driver: a client says it is
\* connected only with a socket under heartbeat, and that it is connecting
\* only with a socket that is.
StateNamesDriver ==
    /\ state = "connected" <=> heartbeatArmed
    /\ state = "connected" => ws \in listening /\ sock[ws] \in {"open", "closing"}
    /\ state = "connecting" => ws \in listening /\ sock[ws] = "connecting"
    /\ state = "reconnecting" => Sum(armed) + refreshing = 1

\* A running client always has exactly one thing that drives it on - a socket
\* it listens to, an armed timer or a token refresh - and a disconnected one
\* has none.  Two would mean two sockets or two reconnect loops; none would
\* mean a client that stays "reconnecting" for ever.
OneDriver ==
    /\ ~disposed => Drivers = IF state = "disconnected" THEN 0 ELSE 1
    /\ StateNamesDriver

\* disconnect() is final: whatever was in flight, nothing is left that could
\* reconnect, beat, or keep a caller waiting; only a token refresh may still
\* settle, and it changes nothing.
DisposedIsQuiet ==
    disposed => /\ state = "disconnected"
                /\ listening = {} /\ ws = NoSocket
                /\ Sum(armed) = 0 /\ ~heartbeatArmed
                /\ pendingRequests = {} /\ requestTimers = {}

\* Every request settles once: a request is pending exactly while its timer is
\* armed, and no answer, timeout or disconnect settles it a second time.
RequestsSettleOnce ==
    /\ pendingRequests = requestTimers
    /\ \A r \in Requests : settled[r] <= 1 /\ (r \in pendingRequests => settled[r] = 0)

\* A token the server rejected is not presented again: authentication only
\* goes on with the token of a refresh that succeeded.
RejectedTokenNotReused ==
    (authRejected /\ ~StaticToken) => (state \notin {"connecting", "authenticating"} \/ refreshing > 0)

\* What the gateway has heard of the client.
Shown ==
    IF ~started /\ ~disposed THEN "none" ELSE IF state = "authenticating" THEN "connecting" ELSE state

Owned == INSTANCE OwnedClient WITH shown <- Shown, over <- disposed

\* To its owner the client is what the gateway takes it for: whichever socket,
\* timer or refresh speaks last, it does not announce that it is connected but
\* from a connection attempt, does not come back once it has given up, and is
\* silent after disconnect().
ImplementsOwnedClient == Owned!Spec

\* While it can neither connect nor authenticate, the client gives up after
\* its attempts are used up: it does not stay on its way for ever, provided
\* the server answers every auth-bind or drops the connection.
GetsSomewhere ==
    (started /\ []<>(~authAwaited)) ~> (state \in {"connected", "disconnected"})

\* A silent server is noticed: a client cannot stay connected for ever without
\* getting answers to its pings.
SilentPeerNoticed == (<>[](state = "connected")) => []<><<PingAnswered>>_vars
=============================================================================
