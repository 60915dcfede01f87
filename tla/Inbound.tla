------------------------------ MODULE Inbound ------------------------------
(***************************************************************************)
(* One account from the socket to the agent: the gateway and its client    *)
(* (Gateway), the runs of the message pipeline (Pipeline), and the upgrade *)
(* a run may carry out (Upgrade), which ends by killing the process all    *)
(* three live in.                                                          *)
(*                                                                         *)
(* What ties them together: a push arrives on a connected client and       *)
(* becomes a message of the account object of that start; a run reads from *)
(* that object who the bot and its owner are; a run that meets the upgrade *)
(* command performs it; and the host starts the account again after a      *)
(* restart only if the configuration file still has it.                    *)
(***************************************************************************)
EXTENDS Pipeline, Upgrade

CONSTANTS
    Pushes,         \* WsPushEvents that may arrive
    MaxUpgrades     \* bound on the upgrades one behaviour performs

ASSUME InboundConstants == Upgrades = Runs /\ MaxUpgrades \in Nat

vars == <<gatewayVars, pipelineVars, upgradeVars>>

Init == GatewayInit /\ PipelineInit /\ UpgradeInit

-----------------------------------------------------------------------------
(* wsPushToInboundMessage *)

\* A part of a push holds nothing, a message in one of the encodings, or a text.
Nothing == [form |-> "nothing"]

\* The part the message is taken from: the first that decodes.  The content is
\* taken for a text if it is not JSON.
Decoded(p) ==
    IF p.connData.form = "protobuf" THEN p.connData.message
    ELSE IF p.rawData.form \in {"protobuf", "json"} THEN p.rawData.message
    ELSE IF p.content.form \in {"json", "text"} THEN p.content.message
    ELSE NoMessage

ASSUME PushesDecode == \A p \in Pushes : Decoded(p) \in Messages \cup {NoMessage}

\* Bound: such a message arrives only if its run may still perform an upgrade.
OrdersUpgrade(m) == m.from = Owner /\ m.body \in {"upgrade", "upgradeTo"}

\* System callbacks (recalls) are handled in the same turn, by GroupHistory, and
\* undecodable pushes are dropped: neither starts a run.
Push(r, p, s) ==
    /\ client[s] = "connected" /\ ~disposed[s]
    /\ Decoded(p) # NoMessage
    /\ OrdersUpgrade(Decoded(p)) =>
          at[r] = "idle" /\ Cardinality({u \in Upgrades : at[u] # "idle" \/ run[u] # "free"}) < MaxUpgrades
    /\ Queue(r, Decoded(p), s)
    /\ UNCHANGED <<gatewayVars, upgradeVars>>

-----------------------------------------------------------------------------
(* The runs *)

Chains(r) ==
    /\ Begin(r) \/ Notified(r) \/ DownloadsSettle(r)
    /\ IF run'[r] = "upgrading"
         THEN \E v \in Versions \cup {Unpublished} :
                 StartUpgrade(r, IF message[r].body = "upgradeTo" THEN v ELSE NoVersion)
         ELSE UNCHANGED upgradeVars
    /\ UNCHANGED gatewayVars

Returns(r) ==
    /\ Return(r) \/ Throw(r)
    /\ UNCHANGED <<gatewayVars, upgradeVars>>

\* The text of a successful upgrade went out as progress, before the restart.
UpgradeEnds(r) ==
    /\ ReturnText(r)
    /\ UpgradeReturns(r, told[r] # "success")
    /\ UNCHANGED gatewayVars

-----------------------------------------------------------------------------
(* The upgrade *)

\* A command other than the restart completes.
Command(u) ==
    /\ \/ \E ok \in BOOLEAN :
            \/ Published(u, ok) \/ Compatible(u, ok) \/ Inspect(u, ok) \/ ReloadOff(u, ok)
            \/ Latest(u, ok) \/ UnsetConfig(u, ok) \/ RestoreEarly(u, ok)
            \/ RestoreConfig(u, ok) \/ Verify(u, ok) \/ ReloadOn(u, ok)
       \/ \E answer \in {"ok", "noRecord", "failed", "rateLimited"} : Update(u, answer)
       \/ \E answer \in {"ok", "notFound", "failed"} : Uninstall(u, answer)
       \/ \E answer \in {"ok", "failed", "rateLimited"} : Install(u, answer)
    /\ UNCHANGED <<gatewayVars, pipelineVars>>

\* A restart that swaps the process takes the gateway, the rate limits, and the
\* other runs with it.
RestartGateway(u) ==
    \E answer \in {"swapped", "notSwapped", "failed", "unsupported"} :
        /\ Restart(u, answer)
        /\ IF answer = "swapped" THEN GatewayKilled /\ PipelineKilled
           ELSE UNCHANGED <<gatewayVars, pipelineVars>>

-----------------------------------------------------------------------------
(* The gateway and the clock *)

GatewayStep ==
    /\ \E s \in Starts :
         \/ StartAccount(s, channelConfig)
         \/ \E bot \in {BotId, Unknown} : AuthResolves(s, bot)
         \/ AuthRejects(s) \/ StopAccount(s)
         \/ \E state \in ClientStates : ClientChanges(s, state)
         \/ \E owner \in {Owner, Unknown} : OwnerAnswers(s, owner)
         \/ TokenRefreshed(s)
    /\ UNCHANGED <<pipelineVars, upgradeVars>>

Time == Tick /\ UNCHANGED <<gatewayVars, upgradeVars>>

Next ==
    \/ \E r \in Runs :
         \/ \E p \in Pushes, s \in Starts : Push(r, p, s)
         \/ Chains(r) \/ Returns(r) \/ UpgradeEnds(r) \/ Command(r) \/ RestartGateway(r)
    \/ GatewayStep
    \/ Time

\* Callbacks run, downloads, sends and replies settle, and every external command
\* has a timeout.  Nothing is assumed of what they answer, nor of the host.
Fairness ==
    \A r \in Runs :
        /\ WF_vars(Chains(r)) /\ WF_vars(Returns(r)) /\ WF_vars(UpgradeEnds(r))
        /\ WF_vars(Command(r)) /\ WF_vars(RestartGateway(r))

Spec == Init /\ [][Next]_vars /\ Fairness

-----------------------------------------------------------------------------
(* Properties *)

Upgrading == {u \in Upgrades : at[u] \notin {"idle", "done", "returned"}}

\* "Always try to restore config ... to avoid config loss on failure path"
\* (upgrade.ts): when no upgrade is under way the account is still configured,
\* unless the user was told that the configuration has to be repaired.
ConfigRestored ==
    Upgrading = {} => channelConfig \/ \E u \in Upgrades : told[u] = "repair"

\* The configuration is rewritten only while automatic reloads are off: the host
\* must not pick up a file from which the channel is missing.
RewritesUnseen ==
    \A u \in Upgrades :
        at[u] \in {"uninstall", "restoreEarly", "install", "restore"} => reload = "off"

\* However the commands of an upgrade fail, the channel's configuration is not
\* lost: neither to the user after the upgrade, nor to the host during it.
ConfigNeverLost == ConfigRestored /\ RewritesUnseen

\* What a success says: the version on disk is the one the upgrade aimed at.  If
\* that could not be found out, it is the newest one when the update command
\* reported no failure, and when a command failed another one than before.
BorneOut(u) ==
    IF Goal(u) # NoVersion THEN installed' = Goal(u)
    ELSE IF at[u] = "verify" THEN installed' \in Versions /\ current[u] \notin {NoVersion, installed'}
    ELSE installed' = Newest

\* A user who reads that the upgrade succeeded can rely on it, although commands
\* fail with their effect and without it.
ToldTheTruth ==
    [][\A u \in Upgrades : told[u] # "success" /\ told'[u] = "success" => BorneOut(u)]_vars

\* Every message that arrives is done with, upgrades included: no answer of an
\* external command, in whatever order they fail, leaves a run waiting.
RunsEnd == \A r \in Runs : run[r] # "free" ~> run[r] = "free"

TypeOK == GatewayTypeOK /\ PipelineTypeOK /\ UpgradeTypeOK
=============================================================================
