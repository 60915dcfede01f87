------------------------------ MODULE Gateway ------------------------------
(***************************************************************************)
(* The gateway of one account (src/access/ws/gateway.ts, the gateway       *)
(* section of src/channel.ts) and the registry of active clients           *)
(* (src/access/ws/runtime.ts).                                             *)
(*                                                                         *)
(* The host calls startAccount and waits for the promise it returns, which *)
(* settles when the abort signal has fired; a start that still waits for   *)
(* its sign-token cannot be interrupted.  Every start makes a client of    *)
(* its own, so that an old one would show.  Of the client only the states  *)
(* it announces are kept, in the order of ClientInterface, which WsClient  *)
(* is shown to keep.                                                       *)
(***************************************************************************)
EXTENDS Naturals, ClientInterface

CONSTANTS
    Starts,     \* calls of startAccount
    NoStart,
    BotId,      \* the uid the sign-token response names
    Owner,      \* the owner the server names
    Unknown     \* botId or botOwnerId not set

ASSUME GatewayConstants == NoStart \notin Starts /\ Unknown \notin {BotId, Owner}

VARIABLES
    gateway,        \* where startYuanbaoWsGateway is
    aborted,        \* abortSignal.aborted
    client,         \* state of the client, as last announced
    disposed,
    activeClient,   \* activeClients.get(accountId)
    botId, botOwnerId,  \* of the account object of that start
    queryingOwner,  \* a QueryBotInfo request is in flight
    status          \* what the host shows for the account

connection == <<gateway, aborted, client, disposed, activeClient, status>>
account == <<botId, botOwnerId, queryingOwner>>
gatewayVars == <<connection, account>>

GatewayTypeOK ==
    /\ gateway \in [Starts -> {"idle", "signing", "running", "stopped", "failed"}]
    /\ aborted \in [Starts -> BOOLEAN] /\ disposed \in [Starts -> BOOLEAN]
    /\ client \in [Starts -> ClientStates]
    /\ activeClient \in Starts \cup {NoStart}
    /\ botId \in [Starts -> {BotId, Unknown}] /\ botOwnerId \in [Starts -> {Owner, Unknown}]
    /\ queryingOwner \in [Starts -> BOOLEAN]
    /\ status \in [running : BOOLEAN, connected : BOOLEAN]

GatewayInit ==
    /\ gateway = [s \in Starts |-> "idle"]
    /\ aborted = [s \in Starts |-> FALSE] /\ disposed = aborted /\ queryingOwner = aborted
    /\ client = [s \in Starts |-> "none"]
    /\ activeClient = NoStart
    /\ botId = [s \in Starts |-> Unknown] /\ botOwnerId = botId
    /\ status = [running |-> FALSE, connected |-> FALSE]

Unsettled == {s \in Starts : gateway[s] \in {"signing", "running"}}

\* A new process: only which starts have been used is remembered.
GatewayKilled ==
    /\ gateway' = [s \in Starts |-> IF gateway[s] = "idle" THEN "idle" ELSE "failed"]
    /\ disposed' = [s \in Starts |-> gateway[s] # "idle"]
    /\ client' = [s \in Starts |-> IF gateway[s] = "idle" THEN "none" ELSE "disconnected"]
    /\ queryingOwner' = [s \in Starts |-> FALSE]
    /\ activeClient' = NoStart
    /\ status' = [running |-> FALSE, connected |-> FALSE]
    /\ UNCHANGED <<aborted, botId, botOwnerId>>

-----------------------------------------------------------------------------
(* Starting and stopping *)

\* The status the host sees when a client announces a state.
Announced(state) == [running |-> state # "disconnected", connected |-> state = "connected"]

\* startAccount up to the await of resolveWsAuth.  An account without
\* configuration is not started.
StartAccount(s, configured) ==
    /\ gateway[s] = "idle"
    /\ Unsettled = {}
    /\ configured
    /\ gateway' = [gateway EXCEPT ![s] = "signing"]
    /\ status' = [status EXCEPT !.running = TRUE]
    /\ UNCHANGED <<aborted, client, disposed, activeClient, account>>

\* Mutant: a start that was aborted while it waited does not look at the signal
\* again.
WithClientUnchecked(s) ==
    /\ activeClient' = s
    /\ gateway' = [gateway EXCEPT ![s] = "running"]
    /\ client' = [client EXCEPT ![s] = "connecting"]
    /\ status' = Announced("connecting")
    /\ UNCHANGED disposed

\* connect, register, and the stop in the same turn if the signal fired meanwhile
WithClient(s) ==
    /\ activeClient' = IF aborted[s] THEN NoStart ELSE s
    /\ gateway' = [gateway EXCEPT ![s] = IF aborted[s] THEN "stopped" ELSE "running"]
    /\ client' = [client EXCEPT ![s] = IF aborted[s] THEN "disconnected" ELSE "connecting"]
    /\ disposed' = [disposed EXCEPT ![s] = aborted[s]]
    /\ status' = IF aborted[s] THEN [running |-> FALSE, connected |-> FALSE]
                 ELSE Announced("connecting")

\* resolveWsAuth returns; a static token names no bot.
AuthResolves(s, bot) ==
    /\ gateway[s] = "signing"
    /\ botId' = [botId EXCEPT ![s] = bot]
    /\ WithClient(s)
    /\ UNCHANGED <<aborted, botOwnerId, queryingOwner>>

\* It throws, the promise of the start rejects, and the host gives the start up.
AuthRejects(s) ==
    /\ gateway[s] = "signing"
    /\ gateway' = [gateway EXCEPT ![s] = "failed"]
    /\ status' = [status EXCEPT !.running = FALSE]
    /\ UNCHANGED <<aborted, client, disposed, activeClient, account>>

\* onAbort: unregister, then disconnect, which settles the requests in flight
OnAbort(s) ==
    /\ activeClient' = NoStart
    /\ disposed' = [disposed EXCEPT ![s] = TRUE]
    /\ client' = [client EXCEPT ![s] = "disconnected"]
    /\ gateway' = [gateway EXCEPT ![s] = "stopped"]

\* The host aborts the signal and calls stopAccount.
StopAccount(s) ==
    /\ gateway[s] \in {"signing", "running"} /\ ~aborted[s]
    /\ aborted' = [aborted EXCEPT ![s] = TRUE]
    /\ \/ /\ gateway[s] = "running" /\ OnAbort(s)
          /\ queryingOwner' = [queryingOwner EXCEPT ![s] = FALSE]
          /\ status' = [running |-> FALSE, connected |-> FALSE]
       \/ /\ gateway[s] = "signing"
          /\ status' = [status EXCEPT !.running = FALSE]
          /\ UNCHANGED <<gateway, client, disposed, activeClient, queryingOwner>>
    /\ UNCHANGED <<botId, botOwnerId>>

-----------------------------------------------------------------------------
(* Callbacks of the client *)

\* Mutant: the callback forgets to report that the connection is gone.
ShownAfterLatching(state) ==
    [running |-> state # "disconnected", connected |-> status.connected \/ state = "connected"]

ShownAfter(state) == Announced(state)

\* onStateChange; with "connected" also onReady, which asks for the owner if the
\* account knows which bot it is (a request that can be lost with its socket).
ClientChanges(s, state) ==
    /\ ~disposed[s] /\ state \in NextStates(client[s])
    /\ client' = [client EXCEPT ![s] = state]
    /\ status' = ShownAfter(state)
    /\ queryingOwner' = [queryingOwner EXCEPT ![s] =
                            @ \/ (state = "connected" /\ botId[s] # Unknown)]
    /\ UNCHANGED <<gateway, aborted, disposed, activeClient, botId, botOwnerId>>

\* queryAndCacheBotOwner: the answer, an error code, a time-out
OwnerAnswers(s, owner) ==
    /\ queryingOwner[s]
    /\ queryingOwner' = [queryingOwner EXCEPT ![s] = FALSE]
    /\ botOwnerId' = [botOwnerId EXCEPT ![s] = IF owner = Unknown THEN @ ELSE owner]
    /\ UNCHANGED <<connection, botId>>

\* onAuthFailed: a fresh token may name the bot.
TokenRefreshed(s) ==
    /\ gateway[s] \in {"running", "stopped"} /\ client[s] # "connected"
    /\ botId' = [botId EXCEPT ![s] = BotId]
    /\ UNCHANGED <<connection, botOwnerId, queryingOwner>>

-----------------------------------------------------------------------------
\* Outgoing messages of tools and of the host find their client in the registry:
\* it names the client of the gateway that runs and was not told to stop, never
\* one that was disposed.
RegistryNamesLiveClient ==
    /\ activeClient # NoStart => gateway[activeClient] = "running" /\ ~disposed[activeClient]
    /\ \A s \in Starts : gateway[s] = "running" => activeClient = s /\ ~aborted[s]

\* What the host shows as connected is what a client that can still be reached
\* is.
StatusTellsTruth ==
    status.connected <=> \E s \in Starts : ~disposed[s] /\ client[s] = "connected"
=============================================================================
