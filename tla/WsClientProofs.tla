--------------------------- MODULE WsClientProofs ---------------------------
(***************************************************************************)
(* Proofs about WsClient, for any number of sockets, requests and          *)
(* reconnect attempts: one driver at a time, a quiet client after          *)
(* disconnect(), requests settled once, and no rejected token used again.  *)
(***************************************************************************)
EXTENDS WsClient, FiniteSetTheorems, TLAPS

\* The client listens to its current socket or to none, and a socket it listens
\* to has not been closed.
OneSocket ==
    /\ listening = {} \/ (ws # NoSocket /\ listening = {ws})
    /\ \A s \in listening : sock[s] \in {"connecting", "open", "closing"}

\* One if there is a socket to listen to: the cardinality without counting.
Listens == IF listening = {} THEN 0 ELSE 1

\* The drivers of a client that was not disposed, counted with Listens.
DriverCount ==
    ~disposed => Listens + armed["connect"] + armed["refresh"] + refreshing =
                    IF state = "disconnected" THEN 0 ELSE 1

\* The one handle that is kept is that of the one timer that is armed.
HandleTracksTimer ==
    \A k \in TimerKinds : armed[k] = IF reconnectTimer = k THEN 1 ELSE 0

\* What each state says about the socket, and the timer about the state.
StateKnown ==
    /\ StateNamesDriver
    /\ \A s \in listening : sock[s] = "connecting" => state = "connecting"
    /\ authAwaited => state = "authenticating" /\ ws \in listening /\ sock[ws] # "connecting"
    /\ reconnectTimer # "none" => state = "reconnecting"

\* After a rejection there is no way to a socket but through a refresh.
RejectionHolds ==
    authRejected /\ ~StaticToken => listening = {} /\ armed["connect"] = 0

NotStarted == ~started => state = "disconnected" /\ ~authRejected

ConnectionInv ==
    /\ TypeOK
    /\ OneSocket /\ DriverCount /\ HandleTracksTimer /\ StateKnown
    /\ RejectionHolds /\ NotStarted
    /\ DisposedIsQuiet

Inv == ConnectionInv /\ RequestsSettleOnce

-----------------------------------------------------------------------------
\* The types of the flags, and of everything else: no backend handles both.
FlagsTyped ==
    /\ started \in BOOLEAN /\ disposed \in BOOLEAN
    /\ authAwaited \in BOOLEAN /\ authRejected \in BOOLEAN
    /\ heartbeatArmed \in BOOLEAN /\ heartbeatAckReceived \in BOOLEAN

RestTyped ==
    /\ state \in States
    /\ ws \in Sockets \cup {NoSocket}
    /\ sock \in [Sockets -> {"free", "connecting", "open", "closing", "closed"}]
    /\ listening \subseteq Sockets
    /\ reconnectAttempts \in 0..MaxReconnectAttempts
    /\ armed \in [TimerKinds -> Nat]
    /\ reconnectTimer \in TimerKinds \cup {"none"}
    /\ refreshing \in Nat
    /\ heartbeatTimeoutCount \in 0..HeartbeatTimeoutThreshold
    /\ pendingRequests \subseteq Requests /\ requestTimers \subseteq Requests
    /\ answerable \subseteq Requests
    /\ settled \in [Requests -> Nat]

\* The two halves of TypeOK, so that a step need not show both at once.
LEMMA TypesSplit == TypeOK' <=> FlagsTyped' /\ RestTyped'
  BY Zenon DEF TypeOK, FlagsTyped, RestTyped

\* A new client has no driver, and its state says so.
LEMMA InitInv == Init => Inv
<1>. SUFFICES ASSUME Init PROVE Inv
  OBVIOUS
<1>. USE WsConstants DEF Init
<1>1. TypeOK
  <2>1. FlagsTyped
    BY Zenon DEF FlagsTyped
  <2>2. RestTyped
    BY DEF RestTyped, States, HeartbeatTimeoutThreshold
  <2>. QED  BY <2>1, <2>2 DEF TypeOK, RestTyped
<1>2. OneSocket /\ DriverCount /\ HandleTracksTimer
  BY DEF OneSocket, DriverCount, HandleTracksTimer, Listens, TimerKinds
<1>3. StateKnown /\ RejectionHolds /\ NotStarted /\ DisposedIsQuiet
  BY DEF StateKnown, StateNamesDriver, RejectionHolds, NotStarted, DisposedIsQuiet
<1>4. RequestsSettleOnce
  BY DEF RequestsSettleOnce
<1>. QED  BY <1>1, <1>2, <1>3, <1>4 DEF Inv, ConnectionInv

\* A step that leaves connection and timers alone keeps what is said of them.
LEMMA RequestStep ==
    ASSUME Inv, TypeOK', RequestsSettleOnce',
           UNCHANGED <<connectionVars, timerVars, authVars, heartbeatVars>>,
           disposed => pendingRequests' = {}
    PROVE  Inv'
<1>. USE DEF connectionVars, timerVars, authVars, heartbeatVars
<1>1. OneSocket' /\ DriverCount' /\ HandleTracksTimer' /\ StateKnown'
  BY DEF Inv, ConnectionInv, OneSocket, DriverCount, HandleTracksTimer, StateKnown,
     StateNamesDriver, Listens
<1>2. RejectionHolds' /\ NotStarted' /\ DisposedIsQuiet'
  BY DEF Inv, ConnectionInv, RejectionHolds, NotStarted, DisposedIsQuiet,
     RequestsSettleOnce
<1>. QED  BY <1>1, <1>2 DEF Inv, ConnectionInv

\* Sending, answers and timeouts.
LEMMA RequestsInv ==
    ASSUME Inv, NEW r \in Requests, Send(r) \/ RequestAnswered(r) \/ RequestTimesOut(r)
    PROVE  Inv'
<1>. USE DEF connectionVars, timerVars, authVars, heartbeatVars
<1>1. UNCHANGED <<connectionVars, timerVars, authVars, heartbeatVars>>
  BY DEF Send, RequestAnswered, RequestTimesOut
<1>2. TypeOK'
  <2>1. /\ pendingRequests' \subseteq Requests /\ requestTimers' \subseteq Requests
        /\ answerable' \subseteq Requests /\ settled' \in [Requests -> Nat]
    BY DEF Inv, ConnectionInv, TypeOK, Send, RequestAnswered, RequestTimesOut
  <2>. QED  BY <1>1, <2>1 DEF Inv, ConnectionInv, TypeOK
<1>3. RequestsSettleOnce'
  BY DEF Inv, ConnectionInv, TypeOK, RequestsSettleOnce, Send, RequestAnswered,
     RequestTimesOut
<1>4. disposed => pendingRequests' = {}
  BY DEF Inv, ConnectionInv, DisposedIsQuiet, Send, CanSend, RequestAnswered,
     RequestTimesOut
<1>. QED  BY <1>1, <1>2, <1>3, <1>4, RequestStep

\* connect() makes the first socket or, when none can be made, arms the first timer.
LEMMA ConnectInv ==
    ASSUME Inv, Connect
    PROVE  Inv'
<1>. USE WsConstants DEF Inv, ConnectionInv, connectionVars, timerVars, authVars, heartbeatVars, requestVars
<1>1. TypeOK'
  <2>1. FlagsTyped'
    BY Zenon DEF TypeOK, FlagsTyped, Connect
  <2>2. RestTyped'
    BY DEF TypeOK, RestTyped, States, TimerKinds, Connect, NewSocket, ScheduleReconnect,
       ScheduleFrom
  <2>. QED  BY <2>1, <2>2, TypesSplit
<1>2. listening = {} /\ Listens = 0 /\ armed["connect"] = 0 /\ armed["refresh"] = 0 /\ refreshing = 0
      /\ ~disposed /\ state = "disconnected" /\ ~authRejected
  BY DEF TypeOK, DriverCount, TimerKinds, Listens, NotStarted, Connect
<1>3. CASE \E s \in Sockets : NewSocket(s) /\ UNCHANGED timerVars
  <2>1. PICK s \in Sockets : NewSocket(s) /\ UNCHANGED timerVars
    BY <1>3
  <2>2. ws' = s /\ listening' = {s} /\ sock'[s] = "connecting"
    BY <1>2, <2>1 DEF TypeOK, NewSocket
  <2>3. OneSocket'
    BY <2>2 DEF OneSocket
  <2>4. DriverCount' /\ HandleTracksTimer'
    BY <1>2, <2>1, <2>2 DEF DriverCount, HandleTracksTimer, TimerKinds, Listens, Connect, NewSocket
  <2>5. StateKnown'
    BY <1>2, <2>1, <2>2 DEF StateKnown, StateNamesDriver, Connect, NewSocket
  <2>6. RejectionHolds' /\ NotStarted'
    BY <1>2 DEF RejectionHolds, NotStarted, Connect
  <2>7. DisposedIsQuiet' /\ RequestsSettleOnce'
    BY <1>2 DEF DisposedIsQuiet, RequestsSettleOnce, Connect
  <2>. QED  BY <1>1, <2>3, <2>4, <2>5, <2>6, <2>7
<1>4. CASE ScheduleReconnect /\ UNCHANGED <<ws, sock, listening>>
  <2>1. ScheduleFrom("connect", armed, reconnectTimer)
    BY <1>2, <1>4 DEF ScheduleReconnect
  <2>2. OneSocket'
    BY <1>4 DEF OneSocket
  <2>3. DriverCount' /\ HandleTracksTimer'
    BY <1>2, <1>4, <2>1 DEF TypeOK, DriverCount, HandleTracksTimer, TimerKinds, Listens, Connect,
       ScheduleFrom
  <2>4. StateKnown'
    BY <1>2, <1>4, <2>1 DEF TypeOK, TimerKinds, StateKnown, StateNamesDriver, Sum, HandleTracksTimer,
       Connect, ScheduleFrom
  <2>5. RejectionHolds' /\ NotStarted'
    BY <1>2 DEF RejectionHolds, NotStarted, Connect
  <2>6. DisposedIsQuiet' /\ RequestsSettleOnce'
    BY <1>2 DEF DisposedIsQuiet, RequestsSettleOnce, Connect
  <2>. QED  BY <1>1, <2>2, <2>3, <2>4, <2>5, <2>6
<1>. QED  BY <1>3, <1>4 DEF Connect

\* A client that drops the socket it listens to and schedules a reconnect hands
\* over from one driver to the next.
LEMMA DropAndReconnect ==
    ASSUME Inv, ws \in listening, CloseCurrentWs, ScheduleReconnect,
           UNCHANGED <<started, disposed, refreshing, authRejected,
                       pendingRequests, requestTimers, settled>>,
           heartbeatAckReceived' \in BOOLEAN,
           heartbeatTimeoutCount' \in 0..HeartbeatTimeoutThreshold
    PROVE  Inv'
<1>. USE WsConstants DEF Inv, ConnectionInv, connectionVars, timerVars, authVars, heartbeatVars, requestVars
<1>1. TypeOK'
  <2>1. FlagsTyped'
    BY Zenon DEF TypeOK, FlagsTyped, CloseCurrentWs
  <2>2. RestTyped'
    BY DEF TypeOK, RestTyped, TimerKinds, States, CloseCurrentWs, ScheduleReconnect,
       ScheduleFrom
  <2>. QED  BY <2>1, <2>2, TypesSplit
<1>2. OneSocket'
  BY DEF OneSocket, CloseCurrentWs
<1>3. DriverCount' /\ HandleTracksTimer'
  BY DEF TypeOK, OneSocket, DriverCount, HandleTracksTimer, TimerKinds, Listens,
     CloseCurrentWs, ScheduleReconnect, ScheduleFrom
<1>4. StateKnown'
  BY DEF TypeOK, OneSocket, DriverCount, TimerKinds, Listens, StateKnown, StateNamesDriver,
     Sum, DisposedIsQuiet, CloseCurrentWs, ScheduleReconnect, ScheduleFrom
<1>5. RejectionHolds' /\ NotStarted'
  BY DEF TypeOK, DriverCount, TimerKinds, Listens, RejectionHolds, NotStarted,
     DisposedIsQuiet
<1>6. DisposedIsQuiet' /\ RequestsSettleOnce'
  BY DEF DisposedIsQuiet, RequestsSettleOnce
<1>. QED  BY <1>1, <1>2, <1>3, <1>4, <1>5, <1>6

\* A heartbeat that goes on changes only its own two counters.
LEMMA HeartbeatStep ==
    ASSUME Inv, UNCHANGED <<connectionVars, timerVars, authVars, heartbeatArmed, requestVars>>,
           heartbeatAckReceived' \in BOOLEAN,
           heartbeatTimeoutCount' \in 0..HeartbeatTimeoutThreshold
    PROVE  Inv'
<1>. USE DEF connectionVars, timerVars, authVars, requestVars, Inv, ConnectionInv
<1>1. TypeOK'
  BY DEF TypeOK
<1>2. OneSocket' /\ DriverCount' /\ HandleTracksTimer' /\ StateKnown'
  BY DEF OneSocket, DriverCount, HandleTracksTimer, StateKnown, StateNamesDriver, Listens
<1>3. RejectionHolds' /\ NotStarted' /\ DisposedIsQuiet' /\ RequestsSettleOnce'
  BY DEF RejectionHolds, NotStarted, DisposedIsQuiet, RequestsSettleOnce
<1>. QED  BY <1>1, <1>2, <1>3

\* An answer to auth-bind that asks to come again later.
LEMMA AuthRetryableInv ==
    ASSUME Inv, AuthRetryable
    PROVE  Inv'
<1>1. heartbeatAckReceived' \in BOOLEAN /\ heartbeatTimeoutCount' \in 0..HeartbeatTimeoutThreshold
  BY DEF Inv, ConnectionInv, TypeOK, AuthRetryable
<1>. QED  BY <1>1, DropAndReconnect DEF AuthRetryable, Receiving

\* Pings sent, missed and answered: only the second one missed in a row drops the
\* socket.
LEMMA HeartbeatInv ==
    ASSUME Inv, HeartbeatFires \/ PingAnswered
    PROVE  Inv'
<1>1. heartbeatTimeoutCount \in 0..HeartbeatTimeoutThreshold
  BY DEF Inv, ConnectionInv, TypeOK
<1>2. heartbeatAckReceived' \in BOOLEAN
  BY DEF HeartbeatFires, PingMissed, PingSent, PingAnswered, Inv, ConnectionInv, TypeOK
<1>3. heartbeatTimeoutCount' \in 0..HeartbeatTimeoutThreshold
  BY <1>1 DEF HeartbeatFires, PingMissed, PingSent, PingAnswered, HeartbeatTimeoutThreshold
<1>4. CASE PingMissed /\ heartbeatTimeoutCount + 1 >= HeartbeatTimeoutThreshold
  <2>1. ws \in listening
    BY <1>4 DEF PingMissed, Inv, ConnectionInv, StateKnown, StateNamesDriver
  <2>. QED  BY <1>2, <1>3, <1>4, <2>1, DropAndReconnect DEF PingMissed
<1>5. CASE \/ PingSent \/ PingAnswered
           \/ PingMissed /\ ~(heartbeatTimeoutCount + 1 >= HeartbeatTimeoutThreshold)
  <2>1. UNCHANGED <<connectionVars, timerVars, authVars, heartbeatArmed, requestVars>>
    BY <1>5 DEF PingSent, PingAnswered, PingMissed, connectionVars, authVars, requestVars
  <2>. QED  BY <1>2, <1>3, <2>1, HeartbeatStep
<1>. QED  BY <1>4, <1>5 DEF HeartbeatFires

\* An opened socket waits for the answer to auth-bind.
LEMMA SocketOpensInv ==
    ASSUME Inv, NEW s \in Sockets, SocketOpens(s)
    PROVE  Inv'
<1>. USE WsConstants DEF Inv, ConnectionInv, connectionVars, timerVars, authVars, heartbeatVars, requestVars
<1>1. TypeOK'
  <2>1. FlagsTyped'
    BY Zenon DEF TypeOK, FlagsTyped, SocketOpens
  <2>2. RestTyped'
    BY DEF TypeOK, RestTyped, States, SocketOpens
  <2>. QED  BY <2>1, <2>2, TypesSplit
<1>2. OneSocket'
  BY DEF OneSocket, SocketOpens
<1>3. DriverCount' /\ HandleTracksTimer'
  BY DEF DriverCount, HandleTracksTimer, Listens, StateKnown, SocketOpens
<1>4. StateKnown'
  BY DEF TypeOK, OneSocket, StateKnown, StateNamesDriver, SocketOpens
<1>5. RejectionHolds' /\ NotStarted'
  BY DEF StateKnown, RejectionHolds, NotStarted, SocketOpens
<1>6. DisposedIsQuiet' /\ RequestsSettleOnce'
  BY DEF DisposedIsQuiet, RequestsSettleOnce, SocketOpens
<1>. QED  BY <1>1, <1>2, <1>3, <1>4, <1>5, <1>6

\* A closing socket is still the one the client listens to.
LEMMA SocketClosesInv ==
    ASSUME Inv, NEW s \in Sockets, SocketCloses(s)
    PROVE  Inv'
<1>. USE WsConstants DEF Inv, ConnectionInv, connectionVars, timerVars, authVars, heartbeatVars, requestVars
<1>1. TypeOK'
  <2>1. FlagsTyped'
    BY Zenon DEF TypeOK, FlagsTyped, SocketCloses
  <2>2. RestTyped'
    BY DEF TypeOK, RestTyped, SocketCloses
  <2>. QED  BY <2>1, <2>2, TypesSplit
<1>2. OneSocket'
  BY DEF OneSocket, SocketCloses
<1>3. DriverCount' /\ HandleTracksTimer'
  BY DEF DriverCount, HandleTracksTimer, Listens, SocketCloses
<1>4. StateKnown'
  BY DEF StateKnown, StateNamesDriver, SocketCloses
<1>5. RejectionHolds' /\ NotStarted'
  BY DEF RejectionHolds, NotStarted, SocketCloses
<1>6. DisposedIsQuiet' /\ RequestsSettleOnce'
  BY DEF DisposedIsQuiet, RequestsSettleOnce, SocketCloses
<1>. QED  BY <1>1, <1>2, <1>3, <1>4, <1>5, <1>6

\* A closed socket hands over to the timer, or to nobody.
LEMMA SocketClosedInv ==
    ASSUME Inv, NEW s \in Sockets, NEW n \in BOOLEAN, SocketClosed(s, n)
    PROVE  Inv'
<1>. USE WsConstants DEF Inv, ConnectionInv, connectionVars, timerVars, authVars, heartbeatVars, requestVars
<1>1. TypeOK'
  <2>1. FlagsTyped'
    BY Zenon DEF TypeOK, FlagsTyped, SocketClosed
  <2>2. RestTyped'
    BY DEF TypeOK, RestTyped, TimerKinds, States, SocketClosed, ScheduleReconnect,
       ScheduleFrom
  <2>. QED  BY <2>1, <2>2, TypesSplit
<1>2. OneSocket'
  BY DEF OneSocket, SocketClosed
<1>3. DriverCount' /\ HandleTracksTimer'
  BY DEF TypeOK, OneSocket, DriverCount, HandleTracksTimer, TimerKinds, Listens,
     SocketClosed, ScheduleReconnect, ScheduleFrom
<1>4. StateKnown'
  BY DEF TypeOK, OneSocket, DriverCount, TimerKinds, Listens, StateKnown, StateNamesDriver,
     Sum, DisposedIsQuiet, SocketClosed, ScheduleReconnect, ScheduleFrom
<1>5. RejectionHolds' /\ NotStarted'
  BY DEF TypeOK, DriverCount, TimerKinds, Listens, RejectionHolds, NotStarted, SocketClosed
<1>6. DisposedIsQuiet' /\ RequestsSettleOnce'
  BY DEF DisposedIsQuiet, RequestsSettleOnce, SocketClosed
<1>. QED  BY <1>1, <1>2, <1>3, <1>4, <1>5, <1>6

\* An accepted client beats on the socket it listens to.
LEMMA AuthSucceedsInv ==
    ASSUME Inv, AuthSucceeds
    PROVE  Inv'
<1>. USE WsConstants DEF Inv, ConnectionInv, connectionVars, timerVars, authVars, heartbeatVars, requestVars
<1>1. TypeOK'
  <2>1. FlagsTyped'
    BY Zenon DEF TypeOK, FlagsTyped, AuthSucceeds
  <2>2. RestTyped'
    BY DEF TypeOK, RestTyped, HeartbeatTimeoutThreshold, States, AuthSucceeds
  <2>. QED  BY <2>1, <2>2, TypesSplit
<1>2. OneSocket'
  BY DEF OneSocket, AuthSucceeds
<1>3. DriverCount' /\ HandleTracksTimer'
  BY DEF TypeOK, DriverCount, HandleTracksTimer, TimerKinds, Listens, AuthSucceeds,
     Receiving
<1>4. StateKnown'
  BY DEF StateKnown, StateNamesDriver, AuthSucceeds, Receiving
<1>5. RejectionHolds' /\ NotStarted'
  BY DEF StateKnown, RejectionHolds, NotStarted, AuthSucceeds
<1>6. DisposedIsQuiet' /\ RequestsSettleOnce'
  BY DEF DisposedIsQuiet, RequestsSettleOnce, AuthSucceeds, Receiving
<1>. QED  BY <1>1, <1>2, <1>3, <1>4, <1>5, <1>6

\* The refused token's socket hands over to the refresh.
LEMMA AuthInvalidInv ==
    ASSUME Inv, AuthInvalid
    PROVE  Inv'
<1>. USE WsConstants DEF Inv, ConnectionInv, connectionVars, timerVars, authVars, heartbeatVars, requestVars
<1>1. TypeOK'
  <2>1. FlagsTyped'
    BY Zenon DEF TypeOK, FlagsTyped, AuthInvalid, CloseCurrentWs
  <2>2. RestTyped'
    BY DEF TypeOK, RestTyped, AuthInvalid, CloseCurrentWs
  <2>. QED  BY <2>1, <2>2, TypesSplit
<1>2. OneSocket'
  BY DEF OneSocket, AuthInvalid, CloseCurrentWs
<1>3. DriverCount' /\ HandleTracksTimer'
  BY DEF TypeOK, OneSocket, DriverCount, HandleTracksTimer, TimerKinds, Listens,
     AuthInvalid, Receiving, CloseCurrentWs
<1>4. StateKnown'
  BY DEF OneSocket, StateKnown, StateNamesDriver, AuthInvalid, CloseCurrentWs
<1>5. RejectionHolds' /\ NotStarted'
  BY DEF OneSocket, HandleTracksTimer, TimerKinds, StateKnown, RejectionHolds, NotStarted,
     AuthInvalid, CloseCurrentWs
<1>6. DisposedIsQuiet' /\ RequestsSettleOnce'
  BY DEF DisposedIsQuiet, RequestsSettleOnce, AuthInvalid, CloseCurrentWs
<1>. QED  BY <1>1, <1>2, <1>3, <1>4, <1>5, <1>6

\* A client that is refused for good drops its only driver and says so.
LEMMA AuthRefusedInv ==
    ASSUME Inv, AuthRefused
    PROVE  Inv'
<1>. USE WsConstants DEF Inv, ConnectionInv, connectionVars, timerVars, authVars, heartbeatVars, requestVars
<1>1. TypeOK'
  <2>1. FlagsTyped'
    BY Zenon DEF TypeOK, FlagsTyped, AuthRefused, CloseCurrentWs
  <2>2. RestTyped'
    BY DEF TypeOK, RestTyped, States, AuthRefused, CloseCurrentWs
  <2>. QED  BY <2>1, <2>2, TypesSplit
<1>2. OneSocket'
  BY DEF OneSocket, AuthRefused, CloseCurrentWs
<1>3. DriverCount' /\ HandleTracksTimer'
  BY DEF TypeOK, OneSocket, DriverCount, HandleTracksTimer, TimerKinds, Listens,
     AuthRefused, Receiving, CloseCurrentWs
<1>4. StateKnown'
  BY DEF OneSocket, StateKnown, StateNamesDriver, AuthRefused, CloseCurrentWs
<1>5. RejectionHolds' /\ NotStarted'
  BY DEF RejectionHolds, NotStarted, AuthRefused, Receiving
<1>6. DisposedIsQuiet' /\ RequestsSettleOnce'
  BY DEF DisposedIsQuiet, RequestsSettleOnce, AuthRefused, CloseCurrentWs
<1>. QED  BY <1>1, <1>2, <1>3, <1>4, <1>5, <1>6

\* A settled refresh hands over to a timer, or to nobody.
LEMMA RefreshSettlesInv ==
    ASSUME Inv, NEW o \in {"token", "empty", "error"}, RefreshSettles(o)
    PROVE  Inv'
<1>. USE WsConstants DEF Inv, ConnectionInv, connectionVars, timerVars, authVars, heartbeatVars, requestVars
<1>1. TypeOK'
  <2>1. FlagsTyped'
    BY Zenon DEF TypeOK, FlagsTyped, RefreshSettles
  <2>2. RestTyped'
    BY DEF TypeOK, RestTyped, TimerKinds, States, RefreshSettles, ScheduleReconnect,
       RetryAuthRefreshAfterDelay, ScheduleFrom
  <2>. QED  BY <2>1, <2>2, TypesSplit
<1>2. OneSocket'
  BY DEF OneSocket, RefreshSettles
<1>3. DriverCount' /\ HandleTracksTimer'
  BY DEF TypeOK, DriverCount, HandleTracksTimer, TimerKinds, Listens, RefreshSettles,
     ScheduleReconnect, RetryAuthRefreshAfterDelay, ScheduleFrom
<1>4. StateKnown'
  BY DEF TypeOK, DriverCount, HandleTracksTimer, TimerKinds, Listens, StateKnown,
     StateNamesDriver, Sum, DisposedIsQuiet, RefreshSettles, ScheduleReconnect,
     RetryAuthRefreshAfterDelay, ScheduleFrom
<1>5. RejectionHolds' /\ NotStarted'
  BY DEF TypeOK, DriverCount, TimerKinds, Listens, RejectionHolds, NotStarted,
     RefreshSettles, RetryAuthRefreshAfterDelay, ScheduleFrom
<1>6. DisposedIsQuiet' /\ RequestsSettleOnce'
  BY DEF DisposedIsQuiet, RequestsSettleOnce, RefreshSettles
<1>. QED  BY <1>1, <1>2, <1>3, <1>4, <1>5, <1>6

\* An expired timer hands over to a socket or, when none can be made, to the next
\* timer.
LEMMA ReconnectFiresInv ==
    ASSUME Inv, ReconnectFires
    PROVE  Inv'
<1>. USE WsConstants DEF Inv, ConnectionInv, connectionVars, timerVars, authVars, heartbeatVars, requestVars
<1>1. TypeOK'
  <2>1. FlagsTyped'
    BY Zenon DEF TypeOK, FlagsTyped, ReconnectFires
  <2>2. RestTyped'
    BY DEF TypeOK, RestTyped, TimerKinds, States, ReconnectFires, NewSocket, ScheduleFrom,
       Expired
  <2>. QED  BY <2>1, <2>2, TypesSplit
<1>2. OneSocket'
  BY DEF TypeOK, OneSocket, DriverCount, TimerKinds, Listens, ReconnectFires, NewSocket
<1>3. DriverCount' /\ HandleTracksTimer'
  <2>1. listening = {} /\ armed["refresh"] = 0 /\ refreshing = 0 /\ ~disposed /\ armed["connect"] = 1
    BY DEF TypeOK, DriverCount, TimerKinds, Listens, ReconnectFires
  <2>2. CASE \E s \in Sockets : NewSocket(s)
    BY <2>1, <2>2 DEF TypeOK, DriverCount, HandleTracksTimer, TimerKinds, Listens,
       ReconnectFires, NewSocket, Expired
  <2>3. CASE ScheduleFrom("connect", Expired("connect"), "none")
    BY <2>1, <2>3 DEF TypeOK, DriverCount, HandleTracksTimer, TimerKinds, Listens,
       ReconnectFires, NewSocket, ScheduleFrom, Expired
  <2>. QED  BY <2>2, <2>3 DEF ReconnectFires
<1>4. StateKnown'
  BY
  DEF TypeOK, OneSocket, DriverCount, HandleTracksTimer, TimerKinds, Listens, StateKnown,
    StateNamesDriver, Sum, DisposedIsQuiet, ReconnectFires, NewSocket, ScheduleFrom, Expired
<1>5. RejectionHolds' /\ NotStarted'
  BY DEF HandleTracksTimer, TimerKinds, StateKnown, RejectionHolds, NotStarted,
     ReconnectFires
<1>6. DisposedIsQuiet' /\ RequestsSettleOnce'
  BY DEF DisposedIsQuiet, RequestsSettleOnce, ReconnectFires
<1>. QED  BY <1>1, <1>2, <1>3, <1>4, <1>5, <1>6

\* An expired retry hands over to a refresh.
LEMMA RetryFiresInv ==
    ASSUME Inv, RetryFires
    PROVE  Inv'
<1>. USE WsConstants DEF Inv, ConnectionInv, connectionVars, timerVars, authVars, heartbeatVars, requestVars
<1>1. TypeOK'
  <2>1. FlagsTyped'
    BY Zenon DEF TypeOK, FlagsTyped, RetryFires
  <2>2. RestTyped'
    BY DEF TypeOK, RestTyped, TimerKinds, RetryFires, Expired
  <2>. QED  BY <2>1, <2>2, TypesSplit
<1>2. OneSocket'
  BY DEF OneSocket, RetryFires
<1>3. DriverCount' /\ HandleTracksTimer'
  BY DEF TypeOK, OneSocket, DriverCount, HandleTracksTimer, TimerKinds, Listens,
     RetryFires, Expired
<1>4. StateKnown'
  BY DEF TypeOK, TimerKinds, StateKnown, StateNamesDriver, Sum, DisposedIsQuiet,
     RetryFires, Expired
<1>5. RejectionHolds' /\ NotStarted'
  BY DEF RejectionHolds, NotStarted, RetryFires, Expired
<1>6. DisposedIsQuiet' /\ RequestsSettleOnce'
  BY DEF HandleTracksTimer, TimerKinds, DisposedIsQuiet, RequestsSettleOnce, Sum,
     RetryFires
<1>. QED  BY <1>1, <1>2, <1>3, <1>4, <1>5, <1>6

\* disconnect() clears the one timer there can be, through the one handle it has.
LEMMA DisconnectInv ==
    ASSUME Inv, Disconnect
    PROVE  Inv'
<1>. USE WsConstants DEF Inv, ConnectionInv, connectionVars, timerVars, authVars, heartbeatVars, requestVars
<1>1. TypeOK'
  <2>1. FlagsTyped'
    BY Zenon DEF TypeOK, FlagsTyped, Disconnect, CloseCurrentWs
  <2>2. RestTyped'
    BY DEF TypeOK, RestTyped, States, HandleTracksTimer, Disconnect, CloseCurrentWs
  <2>. QED  BY <2>1, <2>2, TypesSplit
<1>2. OneSocket'
  BY DEF OneSocket, Disconnect, CloseCurrentWs
<1>3. DriverCount' /\ HandleTracksTimer'
  BY DEF TypeOK, DriverCount, HandleTracksTimer, TimerKinds, Disconnect
<1>4. StateKnown'
  BY DEF OneSocket, StateKnown, StateNamesDriver, Disconnect, CloseCurrentWs
<1>5. RejectionHolds' /\ NotStarted'
  BY DEF TypeOK, HandleTracksTimer, TimerKinds, RejectionHolds, NotStarted, Disconnect,
     CloseCurrentWs
<1>6. DisposedIsQuiet' /\ RequestsSettleOnce'
  BY DEF TypeOK, OneSocket, HandleTracksTimer, TimerKinds, DisposedIsQuiet,
     RequestsSettleOnce, Sum, Disconnect, CloseCurrentWs
<1>. QED  BY <1>1, <1>2, <1>3, <1>4, <1>5, <1>6

-----------------------------------------------------------------------------
\* Stuttering steps keep the invariant.
LEMMA StutterInv == Inv /\ UNCHANGED vars => Inv'
<1>. SUFFICES ASSUME Inv, UNCHANGED vars PROVE Inv'
  OBVIOUS
<1>1. UNCHANGED <<connectionVars, timerVars, authVars, heartbeatVars, requestVars>>
  BY DEF vars
<1>2. heartbeatAckReceived' \in BOOLEAN /\ heartbeatTimeoutCount' \in 0..HeartbeatTimeoutThreshold
  BY <1>1 DEF Inv, ConnectionInv, TypeOK, heartbeatVars
<1>. QED  BY <1>1, <1>2, HeartbeatStep DEF heartbeatVars

\* Every callback of the event loop, and every call of the gateway, keeps the
\* invariant.
LEMMA NextInv == Inv /\ [Next]_vars => Inv'
<1>. SUFFICES ASSUME Inv, [Next]_vars PROVE Inv'
  OBVIOUS
<1>1. CASE Connect \/ Disconnect
  BY <1>1, ConnectInv, DisconnectInv
<1>2. CASE SocketEvent
  BY <1>2, SocketOpensInv, SocketClosesInv, SocketClosedInv DEF SocketEvent
<1>3. CASE AuthAnswer
  BY <1>3, AuthSucceedsInv, AuthInvalidInv, AuthRetryableInv, AuthRefusedInv DEF AuthAnswer
<1>4. CASE RefreshDone
  BY <1>4, RefreshSettlesInv DEF RefreshDone
<1>5. CASE ReconnectFires \/ RetryFires
  BY <1>5, ReconnectFiresInv, RetryFiresInv
<1>6. CASE HeartbeatFires \/ PingAnswered
  BY <1>6, HeartbeatInv
<1>7. CASE \E r \in Requests : Send(r) \/ RequestAnswered(r) \/ RequestTimesOut(r)
  BY <1>7, RequestsInv
<1>8. CASE UNCHANGED vars
  BY <1>8, StutterInv
<1>. QED  BY <1>1, <1>2, <1>3, <1>4, <1>5, <1>6, <1>7, <1>8 DEF Next

\* The invariant of the client holds in every reachable state, whatever the
\* server and the gateway do.
THEOREM InvariantHolds == Spec => []Inv
<1>1. Init => Inv
  BY InitInv
<1>2. Inv /\ [Next]_vars => Inv'
  BY NextInv
<1>. QED  BY <1>1, <1>2, PTL DEF Spec

\* Listens is the number of sockets the client listens to.
LEMMA ListensCounts == OneSocket => Listens = Cardinality(listening)
<1>1. Cardinality({}) = 0
  BY FS_EmptySet
<1>2. Cardinality({ws}) = 1
  BY FS_Singleton
<1>. QED  BY <1>1, <1>2 DEF OneSocket, Listens

\* What drives a client that was not disposed is one thing - a socket, a timer or
\* a token refresh - or nothing, and the state it reports says which.
THEOREM OneDriverHolds == Spec => []OneDriver
<1>1. Inv => OneDriver
  <2>. SUFFICES ASSUME Inv PROVE OneDriver
    OBVIOUS
  <2>1. Listens = Cardinality(listening)
    BY ListensCounts DEF Inv, ConnectionInv
  <2>2. ~disposed => Drivers = IF state = "disconnected" THEN 0 ELSE 1
    BY <2>1 DEF Inv, ConnectionInv, DriverCount, Drivers, Sum, TypeOK, TimerKinds, Listens
  <2>3. StateNamesDriver
    BY DEF Inv, ConnectionInv, StateKnown
  <2>. QED  BY <2>2, <2>3 DEF OneDriver
<1>. QED  BY <1>1, InvariantHolds, PTL

\* After disconnect() nothing is left that could reconnect, beat, or keep a
\* caller waiting.
THEOREM DisposalIsFinal == Spec => []DisposedIsQuiet
<1>1. Inv => DisposedIsQuiet
  BY DEF Inv, ConnectionInv
<1>. QED  BY <1>1, InvariantHolds, PTL

\* No answer, timeout or disconnect settles a request a second time.
THEOREM RequestsSettle == Spec => []RequestsSettleOnce
<1>1. Inv => RequestsSettleOnce
  BY DEF Inv
<1>. QED  BY <1>1, InvariantHolds, PTL

\* Authentication goes on only with a token the server has not rejected.
THEOREM RejectedTokenDropped == Spec => []RejectedTokenNotReused
<1>1. Inv => RejectedTokenNotReused
  <2>. SUFFICES ASSUME Inv, authRejected /\ ~StaticToken, state \in {"connecting", "authenticating"}
                PROVE  refreshing > 0
    BY DEF RejectedTokenNotReused
  <2>1. listening = {} /\ ~disposed /\ reconnectTimer = "none"
    BY DEF Inv, ConnectionInv, RejectionHolds, DisposedIsQuiet, StateKnown
  <2>. QED  BY <2>1 DEF Inv, ConnectionInv, DriverCount, HandleTracksTimer, Listens,
     TypeOK, TimerKinds
<1>. QED  BY <1>1, InvariantHolds, PTL

-----------------------------------------------------------------------------
(* What the gateway sees *)

\* A client that listens to a socket has begun and not given up, nor is it
\* waiting to reconnect.
LEMMA ListeningState ==
    Inv /\ listening # {} => started /\ ~disposed /\ state \in {"connecting", "authenticating", "connected"}
<1>. SUFFICES ASSUME Inv, listening # {}
              PROVE  started /\ ~disposed /\ state \in {"connecting", "authenticating", "connected"}
  OBVIOUS
<1>1. ~disposed
  BY DEF Inv, ConnectionInv, DisposedIsQuiet
<1>2. state # "disconnected" /\ armed["connect"] + armed["refresh"] + refreshing = 0
  BY <1>1 DEF Inv, ConnectionInv, DriverCount, Listens, TypeOK, TimerKinds
<1>3. state # "reconnecting"
  BY <1>2 DEF Inv, ConnectionInv, StateKnown, StateNamesDriver, Sum
<1>. QED  BY <1>1, <1>2, <1>3 DEF Inv, ConnectionInv, NotStarted, TypeOK, States

\* A client with a timer is waiting for it, one with a refresh has not given up.
LEMMA DrivenState ==
    ASSUME Inv
    PROVE  /\ \A k \in TimerKinds : armed[k] > 0 => state = "reconnecting" /\ started /\ ~disposed
           /\ refreshing > 0 /\ ~disposed => state # "disconnected" /\ started
<1>1. \A k \in TimerKinds : armed[k] > 0 => state = "reconnecting" /\ started
  BY DEF Inv, ConnectionInv, HandleTracksTimer, StateKnown, TimerKinds, NotStarted
<1>2. disposed => state = "disconnected"
  BY DEF Inv, ConnectionInv, DisposedIsQuiet
<1>3. refreshing > 0 /\ ~disposed => state # "disconnected" /\ started
  BY DEF Inv, ConnectionInv, DriverCount, Listens, TypeOK, TimerKinds, NotStarted
<1>. QED  BY <1>1, <1>2, <1>3

\* A scheduled reconnect is announced, or that there is none to come.
LEMMA SchedulesState ==
    ASSUME ~disposed, NEW k, NEW tmr, NEW handle, ScheduleFrom(k, tmr, handle)
    PROVE  state' \in {"reconnecting", "disconnected"}
BY DEF ScheduleFrom

\* A client on its way that waits again, or gives up, says what its owner expects.
LEMMA FallsBack ==
    ASSUME started, ~disposed, state \in States \ {"disconnected"},
           UNCHANGED <<started, disposed>>, state' \in {"reconnecting", "disconnected"}
    PROVE  \/ UNCHANGED <<Shown, disposed>>
           \/ ~disposed /\ Shown' \in Owned!NextStates(Shown) /\ UNCHANGED disposed
BY DEF Shown, States, Owned!NextStates

\* A client that listens to a socket and loses it falls back.
LEMMA SocketLost ==
    ASSUME Inv, listening # {}, ScheduleReconnect \/ state' = "disconnected",
           UNCHANGED <<started, disposed>>
    PROVE  \/ UNCHANGED <<Shown, disposed>>
           \/ ~disposed /\ Shown' \in Owned!NextStates(Shown) /\ UNCHANGED disposed
<1>1. started /\ ~disposed /\ state \in States \ {"disconnected"}
  BY ListeningState DEF States
<1>2. state' \in {"reconnecting", "disconnected"}
  BY <1>1, SchedulesState DEF ScheduleReconnect
<1>. QED  BY <1>1, <1>2, FallsBack

\* What the owner hears of a step other than its own calls: nothing, or a state
\* that may come next, and nothing from a client that was disposed of.
LEMMA StepShown ==
    ASSUME Inv, [Next]_vars, ~Connect, ~Disconnect
    PROVE  \/ UNCHANGED <<Shown, disposed>>
           \/ ~disposed /\ Shown' \in Owned!NextStates(Shown) /\ UNCHANGED disposed
<1>. USE DEF connectionVars, timerVars, authVars, heartbeatVars, requestVars
<1>1. CASE SocketEvent
  <2>1. PICK s \in Sockets : SocketOpens(s) \/ SocketCloses(s) \/ \E n \in BOOLEAN : SocketClosed(s, n)
    BY <1>1 DEF SocketEvent
  <2>2. CASE SocketOpens(s)
    <3>1. state = "connecting" /\ state' = "authenticating" /\ UNCHANGED <<started, disposed>>
      BY <2>2, ListeningState DEF SocketOpens, Inv, ConnectionInv, StateKnown
    <3>. QED  BY <3>1 DEF Shown
  <2>3. CASE SocketCloses(s)
    BY <2>3 DEF SocketCloses, Shown
  <2>4. CASE \E n \in BOOLEAN : SocketClosed(s, n)
    <3>1. listening # {} /\ UNCHANGED <<started, disposed>>
      BY <2>4 DEF SocketClosed
    <3>2. ~disposed
      BY <3>1, ListeningState
    <3>3. ScheduleReconnect \/ state' = "disconnected"
      BY <2>4, <3>2 DEF SocketClosed
    <3>. QED  BY <3>1, <3>3, SocketLost
  <2>. QED  BY <2>1, <2>2, <2>3, <2>4
<1>2. CASE AuthAnswer
  <2>1. state = "authenticating" /\ listening # {} /\ UNCHANGED <<started, disposed>>
    BY <1>2 DEF AuthAnswer, AuthSucceeds, AuthInvalid, AuthRetryable, AuthRefused, Receiving,
       Inv, ConnectionInv, StateKnown
  <2>2. CASE AuthSucceeds
    <3>1. state' = "connected" /\ started /\ ~disposed
      BY <2>1, <2>2, ListeningState DEF AuthSucceeds
    <3>. QED  BY <2>1, <3>1 DEF Shown, Owned!NextStates
  <2>3. CASE AuthInvalid
    BY <2>3 DEF AuthInvalid, Shown
  <2>4. CASE AuthRetryable \/ AuthRefused
    <3>1. ScheduleReconnect \/ state' = "disconnected"
      BY <2>4 DEF AuthRetryable, AuthRefused
    <3>. QED  BY <2>1, <3>1, SocketLost
  <2>. QED  BY <1>2, <2>2, <2>3, <2>4 DEF AuthAnswer
<1>3. CASE RefreshDone
  <2>1. PICK o \in {"token", "empty", "error"} : RefreshSettles(o)
    BY <1>3 DEF RefreshDone
  <2>2. refreshing > 0 /\ UNCHANGED <<started, disposed>>
    BY <2>1 DEF RefreshSettles
  <2>3. CASE disposed
    <3>1. state = "disconnected"
      BY <2>3 DEF Inv, ConnectionInv, DisposedIsQuiet
    <3>2. state' = "disconnected"
      BY <2>1, <2>3 DEF RefreshSettles
    <3>. QED  BY <2>2, <3>1, <3>2 DEF Shown
  <2>4. CASE ~disposed
    <3>1. started /\ state \in States \ {"disconnected"}
      BY <2>2, <2>4, DrivenState DEF Inv, ConnectionInv, TypeOK
    <3>2. state' \in {"reconnecting", "disconnected"}
      BY <2>1, <2>4, SchedulesState
      DEF RefreshSettles, ScheduleReconnect, RetryAuthRefreshAfterDelay
    <3>. QED  BY <2>2, <2>4, <3>1, <3>2, FallsBack
  <2>. QED  BY <2>3, <2>4
<1>4. CASE ReconnectFires
  <2>1. state = "reconnecting" /\ started /\ ~disposed /\ UNCHANGED <<started, disposed>>
    BY <1>4, DrivenState DEF ReconnectFires, TimerKinds
  <2>2. CASE \E s \in Sockets : NewSocket(s)
    BY <2>1, <2>2 DEF NewSocket, Shown, Owned!NextStates
  <2>3. CASE ScheduleFrom("connect", Expired("connect"), "none")
    <3>1. state' \in {"reconnecting", "disconnected"}
      BY <2>1, <2>3, SchedulesState
    <3>. QED  BY <2>1, <3>1, FallsBack DEF States
  <2>. QED  BY <1>4, <2>2, <2>3 DEF ReconnectFires
<1>5. CASE PingMissed
  <2>1. CASE UNCHANGED <<state, started, disposed>>
    BY <2>1 DEF Shown
  <2>2. CASE ScheduleReconnect /\ UNCHANGED <<started, disposed>>
    <3>1. listening # {}
      BY <1>5 DEF PingMissed, Inv, ConnectionInv, StateKnown, StateNamesDriver
    <3>. QED  BY <2>2, <3>1, SocketLost
  <2>. QED  BY <1>5, <2>1, <2>2 DEF PingMissed
<1>6. CASE \/ RetryFires \/ PingSent \/ PingAnswered \/ UNCHANGED vars
           \/ \E r \in Requests : Send(r) \/ RequestAnswered(r) \/ RequestTimesOut(r)
  <2>1. UNCHANGED connectionVars
    BY <1>6 DEF RetryFires, PingSent, PingAnswered, Send, RequestAnswered, RequestTimesOut, vars
  <2>. QED  BY <2>1 DEF Shown
<1>. QED  BY <1>1, <1>2, <1>3, <1>4, <1>5, <1>6 DEF Next, HeartbeatFires

\* The owner's own calls begin and end what it hears.
LEMMA CallsShown ==
    ASSUME Inv, Connect \/ Disconnect
    PROVE  Owned!Begin \/ Owned!Dispose
<1>1. CASE Connect
  <2>1. ~started /\ ~disposed /\ started' /\ disposed' = disposed
        /\ state' \in {"connecting", "reconnecting", "disconnected"}
    BY <1>1 DEF Connect, NewSocket, ScheduleReconnect, ScheduleFrom
  <2>. QED  BY <2>1 DEF Shown, Owned!Begin, Owned!NextStates
<1>2. CASE Disconnect
  BY <1>2 DEF Disconnect, Shown, Owned!Dispose
<1>. QED  BY <1>1, <1>2

\* Whatever the server, the timers and the token refreshes do, the client's
\* announcements to the gateway are those of a client of the gateway's model: it
\* connects from an attempt only, does not come back after giving up, and is
\* silent once disconnected.
THEOREM ImplementsItsInterface == Spec => ImplementsOwnedClient
<1>1. Init => Owned!Init
  BY DEF Init, Owned!Init, Shown
<1>2. Inv /\ [Next]_vars => [Owned!Next]_<<Shown, disposed>>
  <2>. SUFFICES ASSUME Inv, [Next]_vars PROVE [Owned!Next]_<<Shown, disposed>>
    OBVIOUS
  <2>1. CASE Connect \/ Disconnect
    BY <2>1, CallsShown DEF Owned!Next
  <2>2. CASE ~Connect /\ ~Disconnect
    BY <2>2, StepShown DEF Owned!Next, Owned!Announce
  <2>. QED  BY <2>1, <2>2
<1>. QED  BY <1>1, <1>2, InvariantHolds, PTL DEF Spec, ImplementsOwnedClient, Owned!Spec
=============================================================================
