----------------------------- MODULE InboundProofs -----------------------------
(***************************************************************************)
(* Proofs about Inbound, for any number of starts, runs, messages and      *)
(* upgrades.  The gateway: the registry names the client of the gateway    *)
(* that runs, and the status the host shows is that client's.  The         *)
(* upgrade: while the owner's upgrades follow one another, none loses the  *)
(* configuration, rewrites it in view of the host, or reports a success    *)
(* that is none.  The rate limit: the guard counts exactly the messages it *)
(* let through within the window.                                          *)
(***************************************************************************)
EXTENDS Inbound, FiniteSetTheorems, WellFoundedInduction, TLAPS

Typed ==
    /\ gateway \in [Starts -> {"idle", "signing", "running", "stopped", "failed"}]
    /\ client \in [Starts -> ClientStates]
    /\ activeClient \in Starts \cup {NoStart}
    /\ DOMAIN aborted = Starts /\ DOMAIN disposed = Starts
    /\ DOMAIN status = {"running", "connected"}

\* The host starts an account again only when the last start has settled.
OneUnsettled == \A s, u \in Unsettled : s = u

\* The client of a start lives exactly while its gateway runs.
ClientLives ==
    \A s \in Starts :
        /\ gateway[s] = "running" => ~aborted[s] /\ ~disposed[s] /\ activeClient = s
        /\ gateway[s] # "running" => client[s] \in {"none", "disconnected"} /\ activeClient # s

\* The status is that of the gateway that runs.
StatusKnown ==
    /\ status.connected \in BOOLEAN
    /\ \A s \in Starts : gateway[s] = "running" => (status.connected <=> client[s] = "connected")
    /\ activeClient = NoStart => ~status.connected

GatewayInv == Typed /\ OneUnsettled /\ ClientLives /\ StatusKnown

-----------------------------------------------------------------------------
(* The gateway *)

\* Nothing was started.
LEMMA InitInv == Init => GatewayInv
<1>. SUFFICES ASSUME GatewayInit PROVE GatewayInv
  BY DEF Init
<1>1. Typed
  BY DEF GatewayInit, Typed, ClientStates
<1>2. OneUnsettled /\ ClientLives /\ StatusKnown
  BY GatewayConstants DEF GatewayInit, OneUnsettled, Unsettled, ClientLives, StatusKnown
<1>. QED  BY <1>1, <1>2 DEF GatewayInv

\* What the invariant reads does not change.
LEMMA SameConnection == GatewayInv /\ UNCHANGED connection => GatewayInv'
  BY DEF connection, GatewayInv, Typed, OneUnsettled, Unsettled, ClientLives, StatusKnown

\* The host starts an account again when nothing of it is left running.
LEMMA StartInv ==
    ASSUME GatewayInv, NEW s \in Starts, NEW configured, StartAccount(s, configured)
    PROVE  GatewayInv'
<1>. USE DEF GatewayInv, StartAccount
<1>1. Typed'
  BY DEF Typed
<1>2. OneUnsettled'
  BY DEF Typed, OneUnsettled, Unsettled
<1>3. ClientLives'
  BY DEF Typed, ClientLives
<1>4. StatusKnown'
  BY DEF Typed, StatusKnown
<1>. QED  BY <1>1, <1>2, <1>3, <1>4

\* The token is there: the client is made, unless the start was aborted meanwhile.
LEMMA AuthResolvesInv ==
    ASSUME GatewayInv, NEW s \in Starts, NEW bot, AuthResolves(s, bot)
    PROVE  GatewayInv'
<1>. USE DEF GatewayInv, AuthResolves, WithClient
<1>1. Typed'
  BY DEF Typed, Announced, ClientStates
<1>2. OneUnsettled'
  BY DEF Typed, OneUnsettled, Unsettled
<1>3. \A u \in Starts : gateway[u] # "running"
  BY DEF Typed, OneUnsettled, Unsettled
<1>4. ClientLives'
  BY <1>3, GatewayConstants DEF Typed, ClientLives
<1>5. StatusKnown'
  BY <1>3, GatewayConstants DEF Typed, StatusKnown, Announced
<1>. QED  BY <1>1, <1>2, <1>4, <1>5

\* No token, no client.
LEMMA AuthRejectsInv ==
    ASSUME GatewayInv, NEW s \in Starts, AuthRejects(s)
    PROVE  GatewayInv'
<1>. USE DEF GatewayInv, AuthRejects
<1>1. Typed'
  BY DEF Typed
<1>2. OneUnsettled'
  BY DEF Typed, OneUnsettled, Unsettled
<1>3. ClientLives' /\ StatusKnown'
  BY DEF Typed, ClientLives, StatusKnown
<1>. QED  BY <1>1, <1>2, <1>3

\* A stop disposes of the client, or leaves word for the start that waits.
LEMMA StopInv ==
    ASSUME GatewayInv, NEW s \in Starts, StopAccount(s)
    PROVE  GatewayInv'
<1>. USE DEF GatewayInv, StopAccount, OnAbort
<1>1. Typed'
  BY DEF Typed, ClientStates
<1>2. OneUnsettled'
  BY DEF Typed, OneUnsettled, Unsettled
<1>3. \A u \in Starts : gateway[u] = "running" => u = s
  BY DEF Typed, OneUnsettled, Unsettled
<1>4. CASE gateway[s] = "running"
  <2>1. \A u \in Starts : gateway'[u] # "running" /\ activeClient' # u
    BY <1>3, <1>4, GatewayConstants DEF Typed
  <2>2. ClientLives'
    BY <1>3, <1>4, <2>1 DEF Typed, ClientLives
  <2>3. status' = [running |-> FALSE, connected |-> FALSE]
    BY <1>4
  <2>4. status'.connected = FALSE
    BY <2>3
  <2>5. StatusKnown'
    BY <2>1, <2>4 DEF StatusKnown
  <2>. QED  BY <1>1, <1>2, <2>2, <2>5
<1>5. CASE gateway[s] = "signing"
  <2>1. \A u \in Starts : gateway'[u] # "running" /\ gateway[u] # "running"
    BY <1>3, <1>5 DEF Typed
  <2>2. ClientLives'
    BY <1>5, <2>1 DEF ClientLives
  <2>3. status'.connected = status.connected
    BY <1>5 DEF Typed
  <2>4. StatusKnown'
    BY <1>5, <2>1, <2>3 DEF StatusKnown
  <2>. QED  BY <1>1, <1>2, <2>2, <2>4
<1>. QED  BY <1>4, <1>5

\* A client that changes state is the one that is registered.
LEMMA ClientChangesInv ==
    ASSUME GatewayInv, NEW s \in Starts, NEW state \in ClientStates, ClientChanges(s, state)
    PROVE  GatewayInv'
<1>. USE DEF GatewayInv, ClientChanges, ShownAfter, Announced
<1>1. gateway[s] = "running" /\ \A u \in Starts : gateway[u] = "running" => u = s
  BY DEF Typed, OneUnsettled, Unsettled, ClientLives, NextStates
<1>2. Typed'
  BY DEF Typed
<1>3. OneUnsettled'
  BY DEF OneUnsettled, Unsettled
<1>4. ClientLives'
  BY <1>1 DEF Typed, ClientLives
<1>5. StatusKnown'
  <2>1. client'[s] = state /\ activeClient' = s /\ s # NoStart
    BY <1>1, GatewayConstants DEF Typed, ClientLives
  <2>2. status'.connected = (state = "connected")
    OBVIOUS
  <2>3. status'.connected \in BOOLEAN
    BY Zenon, <2>2
  <2>. QED  BY <1>1, <2>1, <2>2, <2>3 DEF StatusKnown
<1>. QED  BY <1>2, <1>3, <1>4, <1>5

\* The process restarts with nothing.
LEMMA KilledInv ==
    ASSUME GatewayInv, GatewayKilled
    PROVE  GatewayInv'
<1>. USE DEF GatewayInv, GatewayKilled
<1>1. Typed'
  BY DEF Typed, ClientStates
<1>2. OneUnsettled' /\ ClientLives' /\ StatusKnown'
  BY GatewayConstants DEF Typed, OneUnsettled, Unsettled, ClientLives, StatusKnown
<1>. QED  BY <1>1, <1>2

-----------------------------------------------------------------------------
\* Every step of the composition keeps the invariant.
LEMMA NextInv == GatewayInv /\ [Next]_vars => GatewayInv'
<1>. SUFFICES ASSUME GatewayInv, [Next]_vars PROVE GatewayInv'
  OBVIOUS
<1>1. CASE GatewayStep
  <2>. PICK s \in Starts :
         \/ StartAccount(s, channelConfig)
         \/ \E bot \in {BotId, Unknown} : AuthResolves(s, bot)
         \/ AuthRejects(s) \/ StopAccount(s)
         \/ \E state \in ClientStates : ClientChanges(s, state)
         \/ \E owner \in {Owner, Unknown} : OwnerAnswers(s, owner)
         \/ TokenRefreshed(s)
    BY <1>1 DEF GatewayStep
  <2>1. (\E owner \in {Owner, Unknown} : OwnerAnswers(s, owner)) \/ TokenRefreshed(s) => UNCHANGED connection
    BY DEF OwnerAnswers, TokenRefreshed
  <2>. QED  BY <2>1, SameConnection, StartInv, AuthResolvesInv, AuthRejectsInv, StopInv,
    ClientChangesInv
<1>2. CASE \E r \in Runs : RestartGateway(r)
  <2>1. GatewayKilled \/ UNCHANGED gatewayVars
    BY <1>2 DEF RestartGateway
  <2>. QED  BY <2>1, KilledInv, SameConnection DEF gatewayVars
<1>3. CASE \E r \in Runs :
             \/ \E p \in Pushes, s \in Starts : Push(r, p, s)
             \/ Chains(r) \/ Returns(r) \/ UpgradeEnds(r) \/ Command(r)
  <2>1. UNCHANGED gatewayVars
    BY <1>3 DEF Push, Chains, Returns, UpgradeEnds, Command
  <2>. QED  BY <2>1, SameConnection DEF gatewayVars
<1>4. CASE Time \/ UNCHANGED vars
  BY <1>4, SameConnection DEF Time, vars, gatewayVars
<1>. QED  BY <1>1, <1>2, <1>3, <1>4 DEF Next

\* At most one start of the account has a client, and registry and status are its.
THEOREM GatewayInvariant == Spec => []GatewayInv
  BY InitInv, NextInv, PTL DEF Spec

\* Tools and the host never find the client of a gateway that was told to stop.
THEOREM RegistryIsLive == Spec => []RegistryNamesLiveClient
<1>1. GatewayInv => RegistryNamesLiveClient
  BY DEF GatewayInv, Typed, ClientLives, RegistryNamesLiveClient
<1>. QED  BY <1>1, GatewayInvariant, PTL

\* The host shows "connected" exactly while a client that was not disposed is.
THEOREM StatusIsTrue == Spec => []StatusTellsTruth
<1>1. GatewayInv => StatusTellsTruth
  BY DEF GatewayInv, Typed, ClientLives, StatusKnown, StatusTellsTruth
<1>. QED  BY <1>1, GatewayInvariant, PTL

-----------------------------------------------------------------------------
(* The upgrade *)

\* The owner's upgrades follow one another.
OneAtATime == \A u, v \in Upgrading : u = v

\* The commands while the channel's section may be missing from the file.
Rewriting == {"uninstall", "restoreEarly", "install", "restore"}

\* The part of either flow that the host must not see.
Hidden(u) ==
    \/ at[u] \in Rewriting \cup {"unset", "latest", "update", "verify"}
    \/ at[u] = "compatible" /\ ~IsSpecified(u)

\* What is known of an upgrade from the command it waits for.
UpgradeOf(u) ==
    /\ told[u] # "none" => at[u] \in {"reloadOn", "restart", "restartPlain", "done", "returned"}
    /\ at[u] = "published" => IsSpecified(u)
    /\ target[u] = Unpublished => at[u] \in {"idle", "published", "done", "returned"}
    /\ at[u] \in {"latest", "update"} => ~IsSpecified(u)
    /\ Hidden(u) => reload = "off"
    /\ at[u] = "restore" /\ verdict[u] = "ok" => Goal(u) # NoVersion /\ installed = Goal(u)

\* The section is there, about to be written back, or the user was told.
ConfigKept == channelConfig \/ \E u \in Upgrades : told[u] = "repair" \/ at[u] \in Rewriting

UpgradeInv == UpgradeTypeOK /\ (\A u \in Upgrades : UpgradeOf(u)) /\ ConfigKept

\* No upgrade was ordered.
LEMMA UpgradeStarts == Init => UpgradeInv
<1>. SUFFICES ASSUME UpgradeInit PROVE UpgradeInv
  BY DEF Init
<1>1. UpgradeTypeOK
  BY UpgradeConstants DEF UpgradeInit, UpgradeTypeOK
<1>. QED  BY <1>1 DEF UpgradeInit, UpgradeInv, UpgradeOf, Hidden, Rewriting, ConfigKept

\* What the invariant reads does not change.
LEMMA SameUpgrade == UpgradeInv /\ UNCHANGED upgradeVars => UpgradeInv'
BY DEF upgradeVars, disk, local, UpgradeInv, UpgradeTypeOK, UpgradeOf, Hidden, Rewriting,
       IsSpecified, Goal, ConfigKept

\* Beside an upgrade that waits for a command there is none but those that have
\* not begun and those that are over, and they stay as they are.
Alone(u) ==
    \A v \in Upgrades : v # u =>
        /\ at[v] \in {"idle", "done", "returned"} /\ at'[v] = at[v]
        /\ told'[v] = told[v]

\* Such an upgrade may change the disk under the others.
LEMMA OthersOf ==
    ASSUME UpgradeInv, NEW u \in Upgrades, Alone(u), NEW v \in Upgrades, v # u
    PROVE  UpgradeOf(v)'
BY DEF Alone, UpgradeInv, UpgradeOf, Hidden, Rewriting

\* An upgrade under way is the only one.
LEMMA Undisturbed ==
    ASSUME OneAtATime, NEW u \in Upgrades, u \in Upgrading,
           \A v \in Upgrades : v # u => at'[v] = at[v] /\ told'[v] = told[v]
    PROVE  Alone(u)
BY DEF OneAtATime, Upgrading, Alone

\* An upgrade begins: nothing has been done yet.
LEMMA StartKeeps ==
    ASSUME UpgradeInv, NEW u \in Upgrades,
           NEW v \in Versions \cup {Unpublished, NoVersion}, StartUpgrade(u, v)
    PROVE  UpgradeInv'
<1>. USE DEF UpgradeInv, StartUpgrade, Goto, Set, disk
<1>1. UpgradeTypeOK'
  BY UpgradeConstants DEF UpgradeTypeOK, Commands
<1>2. ASSUME NEW w \in Upgrades PROVE UpgradeOf(w)'
  BY UpgradeConstants DEF UpgradeTypeOK, UpgradeOf, Hidden, Rewriting, IsSpecified, Goal
<1>3. ConfigKept'
  BY DEF UpgradeTypeOK, ConfigKept, Rewriting
<1>. QED  BY <1>1, <1>2, <1>3

\* The commands before the file is touched.
LEMMA AskingKeeps ==
    ASSUME UpgradeInv, OneAtATime, NEW u \in Upgrades, NEW ok \in BOOLEAN,
           Published(u, ok) \/ Compatible(u, ok) \/ Inspect(u, ok) \/ ReloadOff(u, ok)
             \/ Latest(u, ok)
    PROVE  UpgradeInv'
<1>. USE DEF Published, Compatible, Inspect, ReloadOff, Latest, LatestAnswer,
             Abandon, Report, Goto, Set, Effect, disk, local
<1>1. UpgradeTypeOK'
  BY UpgradeConstants DEF UpgradeInv, UpgradeTypeOK, Commands
<1>2. Alone(u)
  BY Undisturbed DEF UpgradeInv, UpgradeTypeOK, Upgrading
<1>3. UpgradeOf(u)'
  BY UpgradeConstants
  DEF UpgradeInv, UpgradeTypeOK, UpgradeOf, Hidden, Rewriting, IsSpecified
<1>4. ConfigKept'
  BY <1>2 DEF UpgradeInv, UpgradeTypeOK, ConfigKept, Rewriting, Alone, UpgradeOf
<1>. QED  BY <1>1, <1>2, <1>3, <1>4, OthersOf DEF UpgradeInv

\* The update, and the look at what it left.
LEMMA UpdatingKeeps ==
    ASSUME UpgradeInv, OneAtATime, NEW u \in Upgrades,
           (\E ok \in BOOLEAN : Verify(u, ok) \/ ReloadOn(u, ok))
             \/ \E answer \in {"ok", "noRecord", "failed", "rateLimited"} : Update(u, answer)
    PROVE  UpgradeInv'
<1>. USE DEF Verify, ReloadOn, Update, Retries, Retry, Reinstall, Report, Goto, Set, Effect,
             disk, local
<1>1. UpgradeTypeOK'
  BY UpgradeConstants DEF UpgradeInv, UpgradeTypeOK, Commands
<1>2. Alone(u)
  BY Undisturbed DEF UpgradeInv, UpgradeTypeOK, Upgrading
<1>3. UpgradeOf(u)'
  BY DEF UpgradeInv, UpgradeTypeOK, UpgradeOf, Hidden, Rewriting, IsSpecified
<1>4. ConfigKept'
  BY <1>2 DEF UpgradeInv, UpgradeTypeOK, ConfigKept, Rewriting, Alone, UpgradeOf
<1>. QED  BY <1>1, <1>2, <1>3, <1>4, OthersOf DEF UpgradeInv

\* The commands that rewrite the file and replace the plugin.
LEMMA RewritingKeeps ==
    ASSUME UpgradeInv, OneAtATime, NEW u \in Upgrades,
           \/ \E ok \in BOOLEAN : UnsetConfig(u, ok) \/ RestoreEarly(u, ok) \/ RestoreConfig(u, ok)
           \/ \E answer \in {"ok", "notFound", "failed"} : Uninstall(u, answer)
           \/ \E answer \in {"ok", "failed", "rateLimited"} : Install(u, answer)
    PROVE  UpgradeInv'
<1>. USE DEF UnsetConfig, RestoreEarly, RestoreConfig, Uninstall, Install, AfterInstall,
             Retries, Retry, Report, Goto, Set, Effect, Goal, IsSpecified, disk, local
<1>1. UpgradeTypeOK'
  <2>1. CASE \E ok \in BOOLEAN : UnsetConfig(u, ok) \/ RestoreEarly(u, ok) \/ RestoreConfig(u, ok)
    BY <2>1 DEF UpgradeInv, UpgradeTypeOK, Commands
  <2>2. CASE \E answer \in {"ok", "notFound", "failed"} : Uninstall(u, answer)
    BY <2>2 DEF UpgradeInv, UpgradeTypeOK, Commands
  <2>3. CASE \E answer \in {"ok", "failed", "rateLimited"} : Install(u, answer)
    <3>. PICK answer \in {"ok", "failed", "rateLimited"} : Install(u, answer)
      BY <2>3
    <3>1. UpgradeTypeOK /\ UNCHANGED <<channelConfig, reload, target, current, latest, flow, told>>
      BY DEF UpgradeInv
    <3>2. installed' \in Versions \cup {NoVersion}
      <4>1. target[u] # Unpublished
        BY DEF UpgradeInv, UpgradeOf
      <4>. QED  BY <4>1, UpgradeConstants DEF UpgradeInv, UpgradeTypeOK
    <3>3. attempt' \in [Upgrades -> 0 .. MaxAttempts]
      BY UpgradeConstants DEF UpgradeInv, UpgradeTypeOK
    <3>4. at' \in [Upgrades -> Commands \cup {"idle", "done", "returned"}]
      BY DEF UpgradeInv, UpgradeTypeOK, Commands
    <3>5. verdict' \in [Upgrades -> {"none", "notFound", "ok", "failed", "rateLimited"}]
      BY <3>1 DEF UpgradeTypeOK
    <3>. HIDE DEF Install
    <3>. QED  BY <3>1, <3>2, <3>3, <3>4, <3>5 DEF UpgradeTypeOK
  <2>. QED  BY <2>1, <2>2, <2>3
<1>2. Alone(u)
  BY Undisturbed DEF UpgradeInv, UpgradeTypeOK, Upgrading
<1>3. UpgradeOf(u)'
  BY DEF UpgradeInv, UpgradeTypeOK, UpgradeOf, Hidden, Rewriting
<1>4. ConfigKept'
  BY <1>2 DEF UpgradeInv, UpgradeTypeOK, ConfigKept, Rewriting, Alone, UpgradeOf
<1>. QED  BY <1>1, <1>2, <1>3, <1>4, OthersOf DEF UpgradeInv

\* The last command, and the return: they find no other upgrade to kill.
LEMMA EndKeeps ==
    ASSUME UpgradeInv, OneAtATime, NEW u \in Upgrades,
           ReturnText(u)
             \/ \E answer \in {"swapped", "notSwapped", "failed", "unsupported"} : Restart(u, answer)
    PROVE  UpgradeInv'
<1>. USE DEF ReturnText, Restart, UpgradesKilled, Forgotten, Goto, disk, local
<1>1. UpgradeTypeOK'
  BY UpgradeConstants DEF UpgradeInv, UpgradeTypeOK, Commands
<1>2. ASSUME NEW v \in Upgrades PROVE UpgradeOf(v)'
  BY UpgradeConstants
  DEF UpgradeInv, UpgradeTypeOK, UpgradeOf, Hidden, Rewriting, IsSpecified, Goal
<1>3. ConfigKept'
  BY DEF UpgradeInv, UpgradeTypeOK, ConfigKept, Rewriting, OneAtATime, Upgrading
<1>. QED  BY <1>1, <1>2, <1>3 DEF UpgradeInv

\* Every step keeps it while one upgrade is carried out at a time.
LEMMA UpgradeKeeps == UpgradeInv /\ OneAtATime /\ [Next]_vars => UpgradeInv'
<1>. SUFFICES ASSUME UpgradeInv, OneAtATime, [Next]_vars PROVE UpgradeInv'
  OBVIOUS
<1>1. ASSUME NEW r \in Runs, Chains(r) PROVE UpgradeInv'
  <2>1. CASE UNCHANGED upgradeVars
    BY <2>1, SameUpgrade
  <2>2. CASE \E v \in Versions \cup {Unpublished} :
               StartUpgrade(r, IF message[r].body = "upgradeTo" THEN v ELSE NoVersion)
    BY <2>2, StartKeeps, InboundConstants
  <2>. QED  BY <1>1, <2>1, <2>2 DEF Chains
<1>2. ASSUME NEW r \in Runs, Command(r) PROVE UpgradeInv'
  BY <1>2, AskingKeeps, UpdatingKeeps, RewritingKeeps, InboundConstants DEF Command
<1>3. ASSUME NEW r \in Runs, UpgradeEnds(r) \/ RestartGateway(r) PROVE UpgradeInv'
  BY <1>3, EndKeeps, InboundConstants DEF UpgradeEnds, RestartGateway
<1>4. CASE \/ \E r \in Runs : Returns(r) \/ \E p \in Pushes, s \in Starts : Push(r, p, s)
           \/ GatewayStep \/ Time \/ UNCHANGED vars
  <2>1. UNCHANGED upgradeVars
    BY <1>4 DEF Returns, Push, GatewayStep, Time, vars
  <2>. QED  BY <2>1, SameUpgrade
<1>. QED  BY <1>1, <1>2, <1>3, <1>4 DEF Next

\* What holds of the upgrades while they follow one another.
LEMMA UpgradesAreKept == Spec /\ []OneAtATime => []UpgradeInv
BY UpgradeStarts, UpgradeKeeps, PTL DEF Spec

\* However the commands of an upgrade fail, its end finds the account configured
\* or has told the user to repair the configuration.
LEMMA ConfigIsRestored == Spec /\ []OneAtATime => []ConfigRestored
<1>1. UpgradeInv => ConfigRestored
  BY DEF UpgradeInv, ConfigKept, ConfigRestored, Upgrading, Rewriting
<1>. QED  BY <1>1, UpgradesAreKept, PTL

\* No command rewrites the configuration while automatic reloads are on.
LEMMA RewritesAreUnseen == Spec /\ []OneAtATime => []RewritesUnseen
<1>1. UpgradeInv => RewritesUnseen
  BY DEF UpgradeInv, UpgradeOf, Hidden, Rewriting, RewritesUnseen
<1>. QED  BY <1>1, UpgradesAreKept, PTL

\* While upgrades do not overlap, none of them loses the channel's configuration,
\* nor lets the host read a file from which it is missing.
THEOREM ConfigIsKept == Spec /\ []OneAtATime => []ConfigNeverLost
<1>1. ConfigRestored /\ RewritesUnseen => ConfigNeverLost
  BY DEF ConfigNeverLost
<1>. QED  BY <1>1, ConfigIsRestored, RewritesAreUnseen, PTL

\* A success that is reported is one.
LEMMA SuccessIsTrue ==
    ASSUME UpgradeInv, [Next]_vars, NEW u \in Upgrades, told[u] # "success", told'[u] = "success"
    PROVE  BorneOut(u)
<1>1. ASSUME NEW w \in Upgrades, NEW text, told' = Set(told, w, text) PROVE w = u /\ text = "success"
  BY <1>1 DEF UpgradeInv, UpgradeTypeOK, Set
<1>2. CASE \E w \in Upgrades, ok \in BOOLEAN : RestoreConfig(w, ok)
  BY <1>2, <1>1, UpgradeConstants
  DEF RestoreConfig, Report, UpgradeInv, UpgradeOf, BorneOut
<1>3. CASE \E w \in Upgrades, ok \in BOOLEAN : Verify(w, ok)
  <2>. PICK w \in Upgrades, ok \in BOOLEAN : Verify(w, ok)
    BY <1>3
  <2>1. w = u /\ at[u] = "verify" /\ installed' = installed
    BY <1>1 DEF Verify, Report, disk
  <2>2. Upgraded(u, IF ok THEN installed ELSE NoVersion)
    BY <2>1, <1>1 DEF Verify, Report
  <2>3. installed \in Versions \cup {NoVersion}
    BY DEF UpgradeInv, UpgradeTypeOK
  <2>. QED  BY <2>1, <2>2, <2>3 DEF Upgraded, BorneOut
<1>4. CASE \E w \in Upgrades : \E answer \in {"ok", "noRecord", "failed", "rateLimited"} : Update(w, answer)
  <2>. PICK w \in Upgrades : \E answer \in {"ok", "noRecord", "failed", "rateLimited"} : Update(w, answer)
    BY <1>4
  <2>1. told' # told
    OBVIOUS
  <2>2. w = u /\ installed' = Newest /\ at[u] = "update"
    BY <1>1, <2>1 DEF Update, Retry, Reinstall, Report
  <2>3. ~IsSpecified(u) /\ latest[u] \in {Newest, NoVersion}
    BY <2>2 DEF UpgradeInv, UpgradeTypeOK, UpgradeOf
  <2>. QED  BY <2>2, <2>3, UpgradeConstants DEF Goal, BorneOut
<1>5. CASE \E w \in Upgrades, ok \in BOOLEAN :
             \/ Published(w, ok) \/ Compatible(w, ok) \/ Inspect(w, ok) \/ ReloadOff(w, ok)
             \/ Latest(w, ok) \/ UnsetConfig(w, ok) \/ RestoreEarly(w, ok) \/ ReloadOn(w, ok)
  <2>1. \/ told' = told
        \/ \E w \in Upgrades, text \in {"invalid", "incompatible", "already", "failed", "repair"} :
             told' = Set(told, w, text)
    BY <1>5
    DEF Published, Compatible, Inspect, ReloadOff, Latest, UnsetConfig, RestoreEarly, ReloadOn,
        Abandon, Report
  <2>. QED  BY <1>1, <2>1
<1>6. CASE \E w \in Upgrades :
             \/ \E answer \in {"ok", "notFound", "failed"} : Uninstall(w, answer)
             \/ \E answer \in {"ok", "failed", "rateLimited"} : Install(w, answer)
  BY <1>6 DEF Uninstall, Install, Retry
<1>7. CASE \E r \in Runs : Chains(r)
  BY <1>7 DEF Chains, StartUpgrade, upgradeVars
<1>8. CASE \E r \in Runs : UpgradeEnds(r) \/ RestartGateway(r)
  BY <1>8 DEF UpgradeEnds, ReturnText, RestartGateway, Restart
<1>9. CASE \/ \E r \in Runs : Returns(r) \/ \E p \in Pushes, s \in Starts : Push(r, p, s)
           \/ GatewayStep \/ Time \/ UNCHANGED vars
  BY <1>9 DEF Returns, Push, GatewayStep, Time, vars, upgradeVars
<1>. QED  BY <1>2, <1>3, <1>4, <1>5, <1>6, <1>7, <1>8, <1>9, InboundConstants DEF Next, Command

\* While upgrades do not overlap, a user who reads that the upgrade succeeded has
\* the version it aimed at or, if that could not be found out, the newest one or,
\* after a failed command, another one than before.
THEOREM SuccessIsReported == Spec /\ []OneAtATime => ToldTheTruth
<1>1. UpgradeInv /\ [Next]_vars =>
        [\A u \in Upgrades : told[u] # "success" /\ told'[u] = "success" => BorneOut(u)]_vars
  BY SuccessIsTrue
<1>. QED  BY <1>1, UpgradesAreKept, PTL DEF Spec, ToldTheTruth

-----------------------------------------------------------------------------
(* The runs of the pipeline *)

\* The least of some numbers.
LEMMA LeastOf ==
    ASSUME NEW S \in SUBSET Nat, S # {}
    PROVE  Min(S) \in S /\ \A x \in S : Min(S) <= x
<1>. DEFINE upTo == {1 .. x : x \in S}
            R == StrictSubsetOrdering(Nat)
<1>1. IsWellFoundedOn(R, FiniteSubsetsOf(Nat))
  BY FS_StrictSubsetOrderingWellFounded
<1>2. upTo \subseteq FiniteSubsetsOf(Nat) /\ upTo # {}
  <2>1. ASSUME NEW x \in S PROVE 1 .. x \in FiniteSubsetsOf(Nat)
    <3>1. x \in Int /\ 1 \in Int /\ 1 .. x \subseteq Nat
      OBVIOUS
    <3>2. IsFiniteSet(1 .. x)
      BY <3>1, FS_Interval
    <3>. QED  BY <3>1, <3>2 DEF FiniteSubsetsOf
  <2>. QED  BY <2>1
<1>. HIDE DEF R, upTo
<1>3. PICK s \in upTo : \A t \in upTo : <<t, s>> \notin R
  BY <1>1, <1>2, WFMin
<1>4. PICK x \in S : s = 1 .. x
  BY <1>3 DEF upTo
<1>5. ASSUME NEW y \in S, y < x PROVE FALSE
  <2>1. (1 .. y) \in upTo /\ 1 .. y \subseteq 1 .. x /\ x \in 1 .. x /\ x \notin 1 .. y
    BY <1>5 DEF upTo
  <2>2. <<1 .. y, 1 .. x>> \in R
    BY <2>1 DEF R, StrictSubsetOrdering
  <2>. QED  BY <1>3, <1>4, <2>1, <2>2
<1>6. \A y \in S : x <= y
  BY <1>5
<1>. QED  BY <1>6 DEF Min

\* Where the chain ends, and where it counts messages.
LEMMA ChainKnown ==
    /\ Len(Chain) = 17 /\ DOMAIN Chain = 1 .. 17
    /\ Chain[17] = "dispatch-reply"
    /\ Index("guard-send-access") \in 1 .. 17
    /\ Chain[Index("guard-send-access")] = "guard-send-access"
<1>1. Len(Chain) = 17 /\ DOMAIN Chain = 1 .. 17 /\ Chain[17] = "dispatch-reply"
  BY DEF Chain
<1>2. 10 \in DOMAIN Chain /\ Chain[10] = "guard-send-access"
  BY DEF Chain
<1>. QED  BY <1>1, <1>2 DEF Index

\* A turn ends at the first middleware that stops it or waits; there is one.
LEMMA TurnEnds ==
    ASSUME NEW from \in 1 .. 17, NEW m, NEW bot, NEW owner
    PROVE  LET halt == NextHalt(from, m, bot, owner) IN
           /\ halt \in from .. 17 /\ HaltsAt(halt, m, bot, owner)
           /\ \A i \in from .. 17 : HaltsAt(i, m, bot, owner) => halt <= i
<1>. DEFINE S == {i \in from .. 17 : HaltsAt(i, m, bot, owner)}
<1>1. HaltsAt(17, m, bot, owner)
  BY ChainKnown DEF HaltsAt, Applies, Does
<1>2. S \in SUBSET Nat /\ 17 \in S
  BY <1>1
<1>3. NextHalt(from, m, bot, owner) = Min(S)
  BY ChainKnown DEF NextHalt
<1>. HIDE DEF S
<1>4. Min(S) \in S /\ \A x \in S : Min(S) <= x
  BY <1>2, LeastOf
<1>. QED  BY <1>3, <1>4 DEF S

Waits == {"answering", "notifying", "upgrading", "downloading", "replying"}

\* What a run is while it carries a message.
RunsTyped ==
    /\ run \in [Runs -> Waits \cup {"free", "queued"}]
    /\ message \in [Runs -> Messages \cup {NoMessage}]
    /\ start \in [Runs -> Starts \cup {NoStart}]
    /\ position \in [Runs -> 1 .. 17]
    /\ botOwnerId \in [Starts -> {Owner, Unknown}]
    /\ \A r \in Runs : run[r] # "free" => message[r] \in Messages /\ start[r] \in Starts
    /\ \A r \in Runs : run[r] \in {"notifying", "downloading"} => position[r] < 17

\* The owner alone gets an upgrade started, whoever the message says the owner is.
LEMMA OwnersUpgrade ==
    ASSUME NEW m \in Messages, NEW middleware, NEW bot, NEW owner \in {Owner, Unknown},
           Does(middleware, m, bot, owner) = "upgrading"
    PROVE  OrdersUpgrade(m)
<1>1. SpecialCommand(m, owner) = "upgrading"
  BY DEF Does, SkipSelf, SkipPlaceholder, GuardCommand, ResolveMention, GuardGroupCommand,
         SendAccess, DownloadMedia
<1>2. m.body \in {"upgrade", "upgradeTo"} /\ IsOwnerMessage(m, owner)
  BY <1>1 DEF SpecialCommand
<1>3. m.namedOwner \in {Owner, Unknown}
  BY PipelineConstants DEF MessageType
<1>. QED  BY <1>2, <1>3, GatewayConstants DEF IsOwnerMessage, OrdersUpgrade

\* One turn of a run.
LEMMA TurnTyped ==
    ASSUME RunsTyped, NEW r \in Runs, run[r] # "free", NEW from \in 1 .. 17, RunFrom(r, from),
           UNCHANGED botOwnerId
    PROVE  /\ RunsTyped'
           /\ \A u \in Runs : run'[u] # "free" => run[u] # "free" /\ message'[u] = message[u]
           /\ run'[r] = "upgrading" => OrdersUpgrade(message[r])
<1>. DEFINE m == message[r]
            bot == botId[start[r]]
            owner == botOwnerId[start[r]]
            halt == NextHalt(from, m, bot, owner)
            what == Does(Chain[halt], m, bot, owner)
<1>1. m \in Messages /\ owner \in {Owner, Unknown}
  BY DEF RunsTyped
<1>2. halt \in from .. 17 /\ HaltsAt(halt, m, bot, owner)
  BY TurnEnds
<1>3. /\ what \in Waits \cup {"stop"}
      /\ what \in {"notifying", "downloading"} => halt < 17
  <2>1. what # "next"
    BY <1>2 DEF HaltsAt
  <2>2. what \in Waits \cup {"stop", "next"}
    BY DEF Does, SkipSelf, SkipPlaceholder, SpecialCommand, GuardCommand, ResolveMention,
           GuardGroupCommand, SendAccess, DownloadMedia, Waits
  <2>3. halt = 17 => what = "replying"
    BY ChainKnown DEF Does
  <2>. HIDE DEF what, halt
  <2>. QED  BY <1>2, <2>1, <2>2, <2>3
<1>4. what = "upgrading" => OrdersUpgrade(m)
  BY <1>1, OwnersUpgrade
<1>5. IF what = "stop" THEN Forget(r)
      ELSE /\ run' = [run EXCEPT ![r] = what]
           /\ position' = [position EXCEPT ![r] = halt]
           /\ UNCHANGED <<message, start>>
  BY DEF RunFrom
<1>. HIDE DEF what, halt
<1>6. RunsTyped'
  BY <1>2, <1>3, <1>5 DEF RunsTyped, Forget, Waits
<1>7. \A u \in Runs : run'[u] # "free" => run[u] # "free" /\ message'[u] = message[u]
  BY <1>5 DEF RunsTyped, Forget
<1>8. run'[r] = "upgrading" => OrdersUpgrade(m)
  BY <1>4, <1>5 DEF RunsTyped, Forget
<1>. QED  BY <1>6, <1>7, <1>8

\* A turn begins where the last one ended.
LEMMA ChainsTurn ==
    ASSUME RunsTyped, NEW r \in Runs, Chains(r)
    PROVE  run[r] # "free" /\ UNCHANGED botOwnerId /\ \E from \in 1 .. 17 : RunFrom(r, from)
<1>1. position[r] + 1 \in 1 .. 17 \/ run[r] \notin {"notifying", "downloading"}
  BY DEF RunsTyped
<1>. QED  BY <1>1 DEF Chains, Begin, Notified, DownloadsSettle, gatewayVars, account

\* Nothing has arrived.
LEMMA RunsStart == Init => RunsTyped
BY PipelineConstants DEF Init, PipelineInit, GatewayInit, RunsTyped, Waits

\* Every step of the composition keeps the runs typed.
LEMMA RunsKeep == RunsTyped /\ [Next]_vars => RunsTyped'
<1>. SUFFICES ASSUME RunsTyped, [Next]_vars PROVE RunsTyped'
  OBVIOUS
<1>. USE DEF gatewayVars, account, pipelineVars, runVars
<1>1. ASSUME NEW r \in Runs, NEW p \in Pushes, NEW s \in Starts, Push(r, p, s) PROVE RunsTyped'
  BY <1>1, PushesDecode DEF Push, Queue, RunsTyped
<1>2. CASE \E r \in Runs : Chains(r)
  BY <1>2, ChainsTurn, TurnTyped
<1>3. ASSUME NEW r \in Runs, Returns(r) \/ UpgradeEnds(r) PROVE RunsTyped'
  <2>1. Forget(r) \/ (run' = [run EXCEPT ![r] = "answering"] /\ run[r] = "upgrading"
                      /\ UNCHANGED <<message, position, start>>)
    BY <1>3 DEF Returns, Return, Throw, UpgradeEnds, UpgradeReturns
  <2>2. UNCHANGED botOwnerId
    BY <1>3 DEF Returns, UpgradeEnds
  <2>. QED  BY <2>1, <2>2 DEF RunsTyped, Waits, Forget
<1>4. ASSUME NEW r \in Runs, RestartGateway(r) PROVE RunsTyped'
  <2>1. CASE GatewayKilled /\ PipelineKilled
    BY <2>1 DEF RunsTyped, GatewayKilled, PipelineKilled
  <2>2. CASE UNCHANGED <<gatewayVars, pipelineVars>>
    BY <2>2 DEF RunsTyped
  <2>. QED  BY <1>4, <2>1, <2>2 DEF RestartGateway
<1>5. CASE GatewayStep
  <2>1. UNCHANGED runVars
    BY <1>5 DEF GatewayStep
  <2>2. botOwnerId' \in [Starts -> {Owner, Unknown}]
    BY <1>5 DEF GatewayStep, RunsTyped, StartAccount, AuthResolves, AuthRejects, StopAccount,
                ClientChanges, OwnerAnswers, TokenRefreshed
  <2>. QED  BY <2>1, <2>2 DEF RunsTyped
<1>6. CASE (\E r \in Runs : Command(r)) \/ Time \/ UNCHANGED vars
  <2>1. UNCHANGED <<runVars, botOwnerId>>
    BY <1>6 DEF Command, Time, Tick, vars
  <2>. QED  BY <2>1 DEF RunsTyped
<1>. QED  BY <1>1, <1>2, <1>3, <1>4, <1>5, <1>6 DEF Next

\* An upgrade was carried out, or a run carries the order of one.
Ordered(u) == at[u] # "idle" \/ (run[u] # "free" /\ OrdersUpgrade(message[u]))

OneOrdered == \A u, v \in Upgrades : Ordered(u) /\ Ordered(v) => u = v

\* Only the arrival of an order makes one.
LEMMA OrdersArrive ==
    ASSUME RunsTyped, UpgradeTypeOK, [Next]_vars, NEW u \in Upgrades, ~Ordered(u), Ordered(u)'
    PROVE  \E p \in Pushes, s \in Starts : Push(u, p, s) /\ OrdersUpgrade(Decoded(p))
<1>. USE DEF gatewayVars, pipelineVars, runVars, upgradeVars, disk, local
<1>. u \in Runs
  BY InboundConstants
<1>0. OrdersUpgrade(message[u])' <=> OrdersUpgrade(message'[u])
  BY DEF OrdersUpgrade
<1>1. ASSUME NEW r \in Runs, NEW p \in Pushes, NEW s \in Starts, Push(r, p, s)
      PROVE  r = u /\ OrdersUpgrade(Decoded(p))
  BY <1>0, <1>1 DEF Push, Queue, Ordered, RunsTyped
<1>2. ASSUME NEW r \in Runs, Chains(r) PROVE FALSE
  <2>1. /\ \A w \in Runs : run'[w] # "free" => run[w] # "free" /\ message'[w] = message[w]
        /\ run'[r] = "upgrading" => OrdersUpgrade(message[r])
        /\ run[r] # "free"
    BY <1>2, ChainsTurn, TurnTyped
  <2>2. \A w \in Upgrades : w # r => at'[w] = at[w]
    BY <1>2, InboundConstants DEF Chains, StartUpgrade, Goto, UpgradeTypeOK
  <2>3. at'[r] = at[r] \/ run'[r] = "upgrading"
    BY <1>2 DEF Chains
  <2>. QED  BY <1>0, <2>1, <2>2, <2>3 DEF Ordered
<1>3. ASSUME NEW r \in Runs, Returns(r) PROVE FALSE
  BY <1>0, <1>3 DEF Returns, Return, Throw, Forget, Ordered, RunsTyped
<1>4. ASSUME NEW r \in Runs, UpgradeEnds(r) PROVE FALSE
  <2>1. at[r] = "done" /\ \A w \in Upgrades : w # r => at'[w] = at[w]
    BY <1>4 DEF UpgradeEnds, ReturnText, Forgotten
  <2>2. \A w \in Runs : run'[w] # "free" => run[w] # "free" /\ message'[w] = message[w]
    BY <1>4 DEF UpgradeEnds, UpgradeReturns, Forget, RunsTyped
  <2>. QED  BY <1>0, <2>1, <2>2 DEF Ordered
<1>5. ASSUME NEW r \in Runs, Command(r) PROVE FALSE
  <2>1. at[r] # "idle" /\ UNCHANGED <<run, message>>
    BY <1>5 DEF Command, Published, Compatible, Inspect, ReloadOff, Latest, UnsetConfig,
                RestoreEarly, RestoreConfig, Verify, ReloadOn, Update, Uninstall, Install
  <2>2. \A w \in Upgrades : w # r => at'[w] = at[w]
    BY <1>5, InboundConstants
    DEF Command, Published, Compatible, Inspect, ReloadOff, Latest, UnsetConfig, RestoreEarly,
        RestoreConfig, Verify, ReloadOn, Update, Uninstall, Install, Abandon, Report, Reinstall,
        Retry, Goto, UpgradeTypeOK
  <2>. QED  BY <1>0, <2>1, <2>2 DEF Ordered
<1>6. ASSUME NEW r \in Runs, RestartGateway(r) PROVE FALSE
  <2>1. \A w \in Upgrades : at'[w] # "idle" => at[w] # "idle"
    BY <1>6, InboundConstants
    DEF RestartGateway, Restart, UpgradesKilled, Forgotten, Goto, UpgradeTypeOK
  <2>2. \A w \in Runs : run'[w] # "free" => run[w] # "free" /\ message'[w] = message[w]
    BY <1>6 DEF RestartGateway, PipelineKilled
  <2>. QED  BY <1>0, <2>1, <2>2 DEF Ordered
<1>7. CASE GatewayStep \/ Time \/ UNCHANGED vars
  BY <1>0, <1>7 DEF GatewayStep, Time, Tick, vars, Ordered
<1>. QED  BY <1>1, <1>2, <1>3, <1>4, <1>5, <1>6, <1>7 DEF Next

\* An order arrives only where there was none.
LEMMA OrderedKeeps ==
    ASSUME RunsTyped, UpgradeTypeOK, OneOrdered, [Next]_vars,
           MaxUpgrades <= 1, IsFiniteSet(Upgrades)
    PROVE  OneOrdered'
<1>1. ASSUME NEW u \in Upgrades, ~Ordered(u), Ordered(u)'
      PROVE  \A v \in Upgrades : ~Ordered(v) /\ (v # u => ~Ordered(v)')
  <2>. DEFINE busy == {v \in Upgrades : at[v] # "idle" \/ run[v] # "free"}
  <2>1. PICK p \in Pushes, s \in Starts : Push(u, p, s) /\ OrdersUpgrade(Decoded(p))
    BY <1>1, OrdersArrive
  <2>2. Cardinality(busy) < MaxUpgrades
    BY <2>1 DEF Push
  <2>3. IsFiniteSet(busy) /\ Cardinality(busy) \in Nat
    BY FS_Subset, FS_CardinalityType
  <2>4. busy = {}
    <3>1. Cardinality(busy) = 0
      BY <2>2, <2>3, InboundConstants
    <3>. QED  BY <2>3, <3>1, FS_EmptySet
  <2>5. \A v \in Upgrades : ~Ordered(v)
    BY <2>4 DEF Ordered
  <2>6. ASSUME NEW v \in Upgrades, v # u PROVE ~Ordered(v)'
    BY <2>1, <2>5, <2>6, InboundConstants
    DEF Push, Queue, Ordered, OrdersUpgrade, RunsTyped, upgradeVars
  <2>. QED  BY <2>5, <2>6
<1>. QED  BY <1>1 DEF OneOrdered

\* With one order at most, the upgrades follow one another.
THEOREM OneUpgradeEver ==
    ASSUME MaxUpgrades <= 1, IsFiniteSet(Upgrades)
    PROVE  Spec => []OneAtATime
<1>1. Init => OneOrdered
  BY InboundConstants DEF Init, PipelineInit, UpgradeInit, OneOrdered, Ordered
<1>2. OneOrdered => OneAtATime
  BY DEF OneOrdered, Ordered, OneAtATime, Upgrading
<1>3. UpgradeInv => UpgradeTypeOK
  BY DEF UpgradeInv
<1>4. RunsTyped /\ UpgradeInv /\ OneOrdered /\ [Next]_vars => OneOrdered'
  BY <1>3, OrderedKeeps
<1>. QED  BY <1>1, <1>2, <1>4, RunsStart, RunsKeep, UpgradeStarts, UpgradeKeeps, PTL DEF Spec

-----------------------------------------------------------------------------
(* The rate limit *)

\* The map and the history agree on what still counts, sender by sender.
RateInv ==
    /\ now \in Nat
    /\ DOMAIN rateLimitMap = Senders /\ DOMAIN admitted = Senders
    /\ \A s \in Senders :
         /\ IsFiniteSet(admitted[s])
         /\ \A e \in admitted[s] \cup rateLimitMap[s] : e.at \in Nat
    /\ RateWindowExact

\* Nothing was sent.
LEMMA RateStarts == Init => RateInv
<1>1. \A sends : Recent(sends) \subseteq sends
  BY DEF Recent
<1>. QED  BY <1>1, FS_EmptySet, PipelineConstants
          DEF Init, PipelineInit, RateInit, RateInv, RateWindowExact

\* What counts does not change.
LEMMA SameRate == RateInv /\ UNCHANGED rateVars => RateInv'
BY DEF RateInv, RateWindowExact, Recent, rateVars

\* A later time counts less, of the map as of the history.
LEMMA TickRate == ASSUME RateInv, Tick PROVE RateInv'
<1>. DEFINE later(sends) == {e \in sends : now + 1 - e.at < Window}
<1>1. now \in Nat /\ Window \in Nat /\ Limit \in Nat
  BY PipelineConstants DEF RateInv
<1>2. ASSUME NEW s \in Senders
      PROVE  later(rateLimitMap[s]) = later(admitted[s]) /\ Cardinality(later(admitted[s])) <= Limit
  <2>1. \A e \in admitted[s] \cup rateLimitMap[s] : e.at \in Nat
    BY DEF RateInv
  <2>2. later(rateLimitMap[s]) = later(Recent(rateLimitMap[s]))
    BY <1>1, <2>1 DEF Recent
  <2>3. later(admitted[s]) = later(Recent(admitted[s]))
    BY <1>1, <2>1 DEF Recent
  <2>4. /\ Recent(rateLimitMap[s]) = Recent(admitted[s])
        /\ Cardinality(Recent(admitted[s])) <= Limit
    BY DEF RateInv, RateWindowExact
  <2>5. IsFiniteSet(Recent(admitted[s]))
    BY FS_Subset DEF RateInv, Recent
  <2>6. /\ IsFiniteSet(later(Recent(admitted[s])))
        /\ Cardinality(later(Recent(admitted[s]))) <= Cardinality(Recent(admitted[s]))
    BY <2>5, FS_Subset
  <2>7. /\ Cardinality(Recent(admitted[s])) \in Nat
        /\ Cardinality(later(Recent(admitted[s]))) \in Nat
    BY <2>5, <2>6, FS_CardinalityType
  <2>. HIDE DEF later
  <2>. QED  BY <1>1, <2>2, <2>3, <2>4, <2>6, <2>7
<1>3. now' = now + 1 /\ rateLimitMap' = rateLimitMap /\ admitted' = admitted
  BY DEF Tick
<1>4. RateWindowExact'
  <2>1. ASSUME NEW s \in Senders
        PROVE  /\ Recent(rateLimitMap[s])' = later(rateLimitMap[s])
               /\ Recent(admitted[s])' = later(admitted[s])
    <3>1. /\ Recent(rateLimitMap[s])' = {e \in rateLimitMap'[s] : now' - e.at < Window}
          /\ Recent(admitted[s])' = {e \in admitted'[s] : now' - e.at < Window}
      BY DEF Recent
    <3>2. \A e \in rateLimitMap[s] \cup admitted[s] : now' - e.at = now + 1 - e.at
      BY <1>1, <1>3 DEF RateInv
    <3>. QED  BY <1>3, <3>1, <3>2
  <2>. HIDE DEF later
  <2>. QED  BY <1>2, <2>1 DEF RateWindowExact
<1>. QED  BY <1>1, <1>4 DEF RateInv, Tick

\* Counting twice counts once.
LEMMA RecentTwice == \A sends : Recent(Recent(sends)) = Recent(sends)
BY DEF Recent

\* A message passes: both learn of it, and there was room.
LEMMA RecordRate ==
    ASSUME RateInv, NEW s \in Senders, ~IsRateLimited(s), RecordSend(s), UNCHANGED now
    PROVE  RateInv'
<1>. DEFINE send == [at |-> now, nr |-> Cardinality(admitted[s])]
            appended == [rateLimitMap EXCEPT ![s] = Recent(rateLimitMap[s]) \cup {send}]
<1>1. /\ now \in Nat /\ DOMAIN rateLimitMap = Senders /\ DOMAIN admitted = Senders
      /\ Limit \in Nat
  BY PipelineConstants DEF RateInv
<1>2. /\ admitted' = [admitted EXCEPT ![s] = admitted[s] \cup {send}]
      /\ rateLimitMap' = IF CleanupDue THEN [x \in Senders |-> Cleaned(appended[x])] ELSE appended
  BY DEF RecordSend
<1>3. ASSUME NEW x \in Senders
      PROVE  /\ Recent(appended[x]) = Recent(admitted'[x])
             /\ \A e \in appended[x] \cup admitted'[x] : e.at \in Nat
             /\ IsFiniteSet(admitted'[x]) /\ Cardinality(Recent(admitted'[x])) <= Limit
  <2>1. /\ Recent(rateLimitMap[x]) = Recent(admitted[x]) /\ IsFiniteSet(admitted[x])
        /\ Cardinality(Recent(admitted[x])) <= Limit
        /\ \A e \in admitted[x] \cup rateLimitMap[x] : e.at \in Nat
    BY DEF RateInv, RateWindowExact
  <2>2. CASE x # s
    <3>1. appended[x] = rateLimitMap[x] /\ admitted'[x] = admitted[x]
      BY <1>1, <1>2, <2>2
    <3>. QED  BY <2>1, <3>1
  <2>3. CASE x = s
    <3>1. appended[s] = Recent(rateLimitMap[s]) \cup {send} /\ admitted'[s] = admitted[s] \cup {send}
      BY <1>1, <1>2
    <3>2. Recent(appended[s]) = Recent(admitted[s] \cup {send})
      BY <2>1, <2>3, <3>1 DEF Recent
    <3>3. Recent(admitted[s] \cup {send}) \subseteq Recent(admitted[s]) \cup {send}
      BY DEF Recent
    <3>4. IsFiniteSet(Recent(admitted[s])) /\ IsFiniteSet(admitted[s] \cup {send})
      BY <2>1, <2>3, FS_Subset, FS_AddElement DEF Recent
    <3>5. Cardinality(Recent(admitted[s])) \in Nat /\ Cardinality(Recent(admitted[s])) < Limit
      <4>1. Cardinality(Recent(admitted[s])) \in Nat
        BY <3>4, FS_CardinalityType
      <4>2. ~ (Cardinality(Recent(rateLimitMap[s])) >= Limit)
        BY DEF IsRateLimited
      <4>3. Recent(rateLimitMap[s]) = Recent(admitted[s])
        BY <2>1, <2>3
      <4>. QED  BY <1>1, <4>1, <4>2, <4>3
    <3>6. /\ IsFiniteSet(Recent(admitted[s]) \cup {send})
          /\ Cardinality(Recent(admitted[s]) \cup {send}) <= Cardinality(Recent(admitted[s])) + 1
      <4>. DEFINE before == Recent(admitted[s])
      <4>1. /\ IsFiniteSet(before \cup {send})
            /\ Cardinality(before \cup {send}) =
                 IF send \in before THEN Cardinality(before) ELSE Cardinality(before) + 1
        BY <3>4, FS_AddElement
      <4>. HIDE DEF before, send
      <4>2. Cardinality(before) \in Nat
        BY <3>5 DEF before
      <4>. QED  BY <4>1, <4>2 DEF before
    <3>7. /\ IsFiniteSet(Recent(admitted[s] \cup {send}))
          /\ Cardinality(Recent(admitted[s] \cup {send})) <= Cardinality(Recent(admitted[s]) \cup {send})
      BY <3>3, <3>6, FS_Subset
    <3>8. Cardinality(Recent(admitted[s] \cup {send})) <= Limit
      <4>1. /\ Cardinality(Recent(admitted[s] \cup {send})) \in Nat
            /\ Cardinality(Recent(admitted[s]) \cup {send}) \in Nat
        BY <3>6, <3>7, FS_CardinalityType
      <4>. QED  BY <1>1, <3>5, <3>6, <3>7, <4>1
    <3>9. \A e \in appended[s] \cup admitted'[s] : e.at \in Nat
      BY <1>1, <2>1, <2>3, <3>1 DEF Recent
    <3>. QED  BY <2>3, <3>1, <3>2, <3>4, <3>8, <3>9
  <2>. QED  BY <2>2, <2>3
<1>4. DOMAIN rateLimitMap' = Senders /\ DOMAIN admitted' = Senders
  BY <1>1, <1>2
<1>5. ASSUME NEW x \in Senders
      PROVE  /\ rateLimitMap'[x] \subseteq appended[x]
             /\ Recent(rateLimitMap'[x]) = Recent(appended[x])
  <2>1. rateLimitMap'[x] = appended[x] \/ rateLimitMap'[x] = Recent(appended[x])
    BY <1>2 DEF Cleaned
  <2>2. Recent(appended[x]) \subseteq appended[x]
    BY DEF Recent
  <2>. QED  BY <2>1, <2>2, RecentTwice
<1>. HIDE DEF send, appended
<1>6. \A x \in Senders : /\ Recent(rateLimitMap[x])' = Recent(rateLimitMap'[x])
                         /\ Recent(admitted[x])' = Recent(admitted'[x])
  BY DEF Recent
<1>7. RateWindowExact'
  BY <1>3, <1>5, <1>6 DEF RateWindowExact
<1>. QED  BY <1>1, <1>3, <1>4, <1>5, <1>7 DEF RateInv

\* A message is refused: the map forgets what no longer counts.
LEMMA PruneRate ==
    ASSUME RateInv, NEW s \in Senders, PruneOnly(s), UNCHANGED now
    PROVE  RateInv'
<1>1. ASSUME NEW x \in Senders
      PROVE  /\ rateLimitMap'[x] \subseteq rateLimitMap[x]
             /\ Recent(rateLimitMap'[x]) = Recent(rateLimitMap[x])
  <2>1. rateLimitMap'[x] = rateLimitMap[x] \/ rateLimitMap'[x] = Recent(rateLimitMap[x])
    BY DEF PruneOnly, RateInv
  <2>2. Recent(rateLimitMap[x]) \subseteq rateLimitMap[x]
    BY DEF Recent
  <2>. QED  BY <2>1, <2>2, RecentTwice
<1>2. \A x \in Senders : /\ Recent(rateLimitMap[x])' = Recent(rateLimitMap'[x])
                         /\ Recent(admitted[x])' = Recent(admitted[x])
  BY DEF PruneOnly, Recent
<1>3. RateWindowExact'
  BY <1>1, <1>2 DEF RateInv, RateWindowExact
<1>. QED  BY <1>1, <1>3 DEF RateInv, PruneOnly

\* A turn that goes past the guard was let through by it.
LEMMA TurnRate ==
    ASSUME RateInv, NEW r \in Runs, message[r] \in Messages, NEW from \in 1 .. 17, RunFrom(r, from)
    PROVE  RateInv'
<1>. DEFINE m == message[r]
            bot == botId[start[r]]
            owner == botOwnerId[start[r]]
            guard == Index("guard-send-access")
            halt == NextHalt(from, m, bot, owner)
<1>1. m.from \in Senders
  BY PipelineConstants DEF MessageType
<1>2. ASSUME from <= guard, halt > guard, ~m.group PROVE ~IsRateLimited(m.from)
  <2>1. guard \in from .. 17 /\ halt \in 1 .. 17 /\ Chain[guard] = "guard-send-access"
    BY <1>2, ChainKnown, TurnEnds
  <2>2. ~HaltsAt(guard, m, bot, owner)
    BY <1>2, <2>1, TurnEnds
  <2>. HIDE DEF guard
  <2>3. SendAccess(m, bot) = "next"
    BY <1>2, <2>1, <2>2 DEF HaltsAt, Applies, Does
  <2>. QED  BY <2>3 DEF SendAccess
<1>3. \/ from <= guard /\ halt > guard /\ ~m.group /\ RecordSend(m.from)
      \/ PruneOnly(m.from)
      \/ UNCHANGED <<rateLimitMap, cleanupCounter, admitted>>
  BY DEF RunFrom
<1>4. UNCHANGED now
  BY DEF RunFrom
<1>. HIDE DEF halt, guard, m
<1>. QED  BY <1>1, <1>2, <1>3, <1>4, RecordRate, PruneRate, SameRate DEF rateVars

\* Every step of the composition keeps map and history in agreement.
LEMMA RateKeeps == RunsTyped /\ RateInv /\ [Next]_vars => RateInv'
<1>. SUFFICES ASSUME RunsTyped, RateInv, [Next]_vars PROVE RateInv'
  OBVIOUS
<1>1. ASSUME NEW r \in Runs, Chains(r) PROVE RateInv'
  <2>1. message[r] \in Messages /\ \E from \in 1 .. 17 : RunFrom(r, from)
    BY <1>1, ChainsTurn DEF RunsTyped
  <2>. QED  BY <2>1, TurnRate
<1>2. ASSUME NEW r \in Runs, RestartGateway(r) PROVE RateInv'
  <2>1. CASE PipelineKilled
    <3>2. /\ \A s \in Senders : rateLimitMap'[s] = {} /\ admitted'[s] = {}
          /\ DOMAIN rateLimitMap' = Senders /\ DOMAIN admitted' = Senders /\ now' \in Nat
      BY <2>1 DEF PipelineKilled, RateInv
    <3>3. \A s \in Senders : Recent(rateLimitMap[s])' = {} /\ Recent(admitted[s])' = {}
      BY <3>2 DEF Recent
    <3>4. IsFiniteSet({}) /\ Cardinality({}) <= Limit
      BY FS_EmptySet, PipelineConstants
    <3>5. RateWindowExact'
      BY <3>3, <3>4 DEF RateWindowExact
    <3>. QED  BY <3>2, <3>4, <3>5 DEF RateInv
  <2>2. CASE UNCHANGED pipelineVars
    BY <2>2, SameRate DEF pipelineVars
  <2>. QED  BY <1>2, <2>1, <2>2 DEF RestartGateway, pipelineVars
<1>3. CASE Time
  BY <1>3, TickRate DEF Time
<1>4. CASE \/ \E r \in Runs :
                \/ \E p \in Pushes, s \in Starts : Push(r, p, s)
                \/ Returns(r) \/ UpgradeEnds(r) \/ Command(r)
           \/ GatewayStep \/ UNCHANGED vars
  <2>1. UNCHANGED rateVars
    BY <1>4 DEF Push, Queue, Returns, Return, Throw, UpgradeEnds, UpgradeReturns, Command,
                GatewayStep, vars, pipelineVars
  <2>. QED  BY <2>1, SameRate
<1>. QED  BY <1>1, <1>2, <1>3, <1>4 DEF Next

\* Within any window no sender gets more than the limit through, and none is
\* refused because of a message that no longer counts.
THEOREM RateLimitIsExact == Spec => []RateWindowExact
<1>1. RateInv => RateWindowExact
  BY DEF RateInv
<1>. QED  BY <1>1, RunsStart, RunsKeep, RateStarts, RateKeeps, PTL DEF Spec
================================================================================
