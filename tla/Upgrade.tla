------------------------------ MODULE Upgrade ------------------------------
(***************************************************************************)
(* The upgrade command (src/business/commands/upgrade/upgrade.ts and       *)
(* utils.ts): a sequence of calls of the npm and openclaw programs that    *)
(* rewrite the host's configuration and replace the plugin under the       *)
(* process that runs them.                                                 *)
(*                                                                         *)
(* An action is the completion of one external command and what the code   *)
(* does with the answer before it starts the next.  A command that fails   *)
(* may have had its effect all the same ("non-zero exit codes due to       *)
(* warnings"); one that succeeds has.  at[u] names the command upgrade u   *)
(* waits for; the commands, unlike their answers, are never lost, because  *)
(* each has a timeout, which is one of the failures.                       *)
(***************************************************************************)
EXTENDS Naturals

CONSTANTS
    Upgrades,       \* runs of performUpgrade
    Versions,       \* versions the registry has
    Newest,         \* the latest stable one
    Unpublished,    \* a well-formed version the registry does not have
    NoVersion,      \* null
    MaxAttempts     \* PLUGIN_CMD_RETRY_MAX_ATTEMPTS

ASSUME UpgradeConstants ==
    /\ Newest \in Versions /\ NoVersion \notin Versions
    /\ Unpublished \notin Versions \cup {NoVersion}
    /\ MaxAttempts \in Nat \ {0}

VARIABLES
    installed,      \* version on disk, NoVersion if the plugin is not installed
    channelConfig,  \* channels.yuanbao is in the configuration file
    reload,         \* gateway.reload.mode
    at, target, current, latest, attempt,
    flow,           \* which of the two flows runs
    verdict,        \* the answer of the command the rest of the flow depends on
    told            \* the final text the user gets, "none" if none yet

disk == <<installed, channelConfig, reload>>
local == <<target, current, latest, attempt, flow, verdict>>
upgradeVars == <<disk, at, local, told>>

Commands ==
    {"published", "compatible", "inspect", "reloadOff", "latest", "unset", "uninstall",
     "restoreEarly", "install", "restore", "verify", "update", "reloadOn",
     "restart", "restartPlain"}

UpgradeTypeOK ==
    /\ installed \in Versions \cup {NoVersion}
    /\ channelConfig \in BOOLEAN /\ reload \in {"off", "hybrid"}
    /\ at \in [Upgrades -> Commands \cup {"idle", "done", "returned"}]
    /\ target \in [Upgrades -> Versions \cup {Unpublished, NoVersion}]
    /\ current \in [Upgrades -> Versions \cup {NoVersion}]
    /\ latest \in [Upgrades -> {Newest, NoVersion}]
    /\ attempt \in [Upgrades -> 0 .. MaxAttempts]
    /\ flow \in [Upgrades -> {"regular", "specified"}]
    /\ verdict \in [Upgrades -> {"none", "notFound", "ok", "failed", "rateLimited"}]
    /\ told \in [Upgrades -> {"none", "invalid", "incompatible", "already", "success",
                              "repair", "rateLimited", "failed"}]

UpgradeInit ==
    /\ installed \in Versions /\ channelConfig = TRUE /\ reload = "hybrid"
    /\ at = [u \in Upgrades |-> "idle"]
    /\ target = [u \in Upgrades |-> NoVersion] /\ current = target /\ latest = target
    /\ attempt = [u \in Upgrades |-> 0]
    /\ flow = [u \in Upgrades |-> "regular"]
    /\ verdict = [u \in Upgrades |-> "none"]
    /\ told = [u \in Upgrades |-> "none"]

\* performUpgrade returns: only what is on disk and what the user read remains.
Forgotten(us) ==
    /\ at' = [u \in Upgrades |-> IF u \in us THEN "returned" ELSE at[u]]
    /\ target' = [u \in Upgrades |-> IF u \in us THEN NoVersion ELSE target[u]]
    /\ current' = [u \in Upgrades |-> IF u \in us THEN NoVersion ELSE current[u]]
    /\ latest' = [u \in Upgrades |-> IF u \in us THEN NoVersion ELSE latest[u]]
    /\ attempt' = [u \in Upgrades |-> IF u \in us THEN 0 ELSE attempt[u]]
    /\ flow' = [u \in Upgrades |-> IF u \in us THEN "regular" ELSE flow[u]]
    /\ verdict' = [u \in Upgrades |-> IF u \in us THEN "none" ELSE verdict[u]]

\* The process ends, and with it every upgrade it carries out.
UpgradesKilled == Forgotten({u \in Upgrades : at[u] # "idle"})

-----------------------------------------------------------------------------
Goto(u, command) == at' = [at EXCEPT ![u] = command]
Set(f, u, value) == [f EXCEPT ![u] = value]
\* A command whose only effect is on one variable: it has it if it succeeds.
Effect(ok, variable, new) == IF ok THEN {new} ELSE {variable, new}

\* return from one of the flows with a message: through the finally block
Report(u, text) == /\ told' = Set(told, u, text) /\ Goto(u, "reloadOn")
\* return before the try block
Abandon(u, text) == /\ told' = Set(told, u, text) /\ Goto(u, "done")

IsSpecified(u) == target[u] # NoVersion

-----------------------------------------------------------------------------
(* performUpgrade up to the try block *)

StartUpgrade(u, version) ==
    /\ at[u] = "idle"
    /\ target' = Set(target, u, version)
    /\ flow' = Set(flow, u, IF version = NoVersion THEN "regular" ELSE "specified")
    /\ Goto(u, IF version = NoVersion THEN "inspect" ELSE "published")
    /\ UNCHANGED <<disk, current, latest, attempt, verdict, told>>

\* npm view plugin@version version: a failed query counts as "not there"
Published(u, ok) ==
    /\ at[u] = "published"
    /\ ok => target[u] \in Versions
    /\ IF ok THEN Goto(u, "compatible") /\ UNCHANGED told ELSE Abandon(u, "invalid")
    /\ UNCHANGED <<disk, local>>

\* minHostVersion: a failed query counts as compatible.  Asked for the specified
\* version before, for the latest one inside the try block.
Compatible(u, ok) ==
    /\ at[u] = "compatible"
    /\ IF ok THEN Goto(u, IF IsSpecified(u) THEN "inspect" ELSE "update") /\ UNCHANGED told
       ELSE IF IsSpecified(u) THEN Abandon(u, "incompatible") ELSE Report(u, "incompatible")
    /\ UNCHANGED <<disk, local>>

\* readInstalledVersion
Inspect(u, ok) ==
    /\ at[u] = "inspect"
    /\ current' = Set(current, u, IF ok THEN installed ELSE NoVersion)
    /\ Goto(u, "reloadOff")
    /\ UNCHANGED <<disk, target, latest, attempt, flow, verdict, told>>

\* Mutant: the flow goes on although reloads could not be turned off.
ReloadOffIgnored(u, ok) ==
    /\ at[u] = "reloadOff"
    /\ reload' \in Effect(ok, reload, "off")
    /\ Goto(u, IF IsSpecified(u) THEN "unset" ELSE "latest")
    /\ UNCHANGED <<installed, channelConfig, local, told>>

ReloadOff(u, ok) ==
    /\ at[u] = "reloadOff"
    /\ reload' \in Effect(ok, reload, "off")
    /\ \/ ~ok /\ Abandon(u, "failed")
       \/ ok /\ IsSpecified(u) /\ current[u] = target[u] /\ Report(u, "already")
       \/ /\ ok /\ ~(IsSpecified(u) /\ current[u] = target[u])
          /\ Goto(u, IF IsSpecified(u) THEN "unset" ELSE "latest") /\ UNCHANGED told
    /\ UNCHANGED <<installed, channelConfig, local>>

-----------------------------------------------------------------------------
(* runRegularUpgradeFlow *)

\* getLatestStableVersion: the highest stable version, or null
LatestAnswer(ok) == IF ok THEN Newest ELSE NoVersion

\* Asked again in the other flow, when the update found no install record and
\* that flow has to find its version itself.
Latest(u, ok) ==
    /\ at[u] = "latest"
    /\ latest' = Set(latest, u, LatestAnswer(ok))
    /\ IF ok /\ current[u] = Newest
         THEN Report(u, "already")
         ELSE /\ Goto(u, IF flow[u] = "specified" THEN "unset"
                         ELSE IF ok THEN "compatible" ELSE "update")
              /\ UNCHANGED told
    /\ UNCHANGED <<disk, target, current, attempt, flow, verdict>>

\* runOpenClawCommandWithRetry: the answer is final unless it is a rate limit
\* and an attempt is left.
Retries(u, answer) == answer = "rateLimited" /\ attempt[u] + 1 < MaxAttempts

Retry(u) ==
    /\ attempt' = Set(attempt, u, attempt[u] + 1)
    /\ UNCHANGED <<disk, at, target, current, latest, flow, verdict, told>>

\* Mutant: without an install record the same flow is tried again.
UpdateAgain(u) == Goto(u, "latest") /\ UNCHANGED flow

\* "No install record": on with the other flow
Reinstall(u) == Goto(u, "latest") /\ flow' = Set(flow, u, "specified")

Update(u, answer) ==
    /\ at[u] = "update"
    /\ \/ Retries(u, answer) /\ Retry(u)
       \/ /\ ~Retries(u, answer)
          /\ attempt' = Set(attempt, u, 0)
          /\ \/ /\ answer = "ok"
                /\ installed' = Newest /\ Report(u, "success")
                /\ UNCHANGED <<flow, verdict>>
             \/ /\ answer = "noRecord"
                /\ Reinstall(u)
                /\ UNCHANGED <<installed, verdict, told>>
             \/ /\ answer \in {"failed", "rateLimited"}
                /\ installed' \in {installed, Newest}
                /\ verdict' = Set(verdict, u, answer) /\ Goto(u, "verify")
                /\ UNCHANGED <<flow, told>>
          /\ UNCHANGED <<channelConfig, reload, target, current, latest>>

-----------------------------------------------------------------------------
(* runSpecifiedVersionFlow, also the fallback of the regular flow *)

\* what it installs; null if the regular flow could not find out
Goal(u) == IF IsSpecified(u) THEN target[u] ELSE latest[u]

UnsetConfig(u, ok) ==
    /\ at[u] = "unset"
    /\ channelConfig' \in Effect(ok, channelConfig, FALSE)
    /\ Goto(u, "uninstall")
    /\ UNCHANGED <<installed, reload, local, told>>

\* "plugin not found" is an answer of its own
Uninstall(u, answer) ==
    /\ at[u] = "uninstall"
    /\ answer = "notFound" => installed = NoVersion
    /\ installed' \in Effect(answer # "failed", installed, NoVersion)
    /\ Goto(u, IF answer = "ok" THEN "install" ELSE "restoreEarly")
    /\ verdict' = Set(verdict, u, answer)
    /\ UNCHANGED <<channelConfig, reload, target, current, latest, attempt, flow, told>>

RestoreEarly(u, ok) ==
    /\ at[u] = "restoreEarly"
    /\ channelConfig' \in Effect(ok, channelConfig, TRUE)
    /\ IF ok /\ verdict[u] = "notFound"
         THEN Goto(u, "install") /\ UNCHANGED told
         ELSE Report(u, "repair")
    /\ UNCHANGED <<installed, reload, local>>

\* Mutant: only a successful install is followed by the restore.
AfterInstallIfOk(answer) == IF answer = "ok" THEN "restore" ELSE "verify"

\* Step 6: whatever the install said
AfterInstall(answer) == "restore"

\* plugin@null is a version nobody has published
Install(u, answer) ==
    /\ at[u] = "install"
    /\ answer = "ok" => Goal(u) # NoVersion
    /\ \/ Retries(u, answer) /\ Retry(u)
       \/ /\ ~Retries(u, answer)
          /\ attempt' = Set(attempt, u, 0)
          /\ installed' \in IF Goal(u) = NoVersion THEN {installed}
                            ELSE Effect(answer = "ok", installed, Goal(u))
          /\ verdict' = Set(verdict, u, answer) /\ Goto(u, AfterInstall(answer))
          /\ UNCHANGED <<channelConfig, reload, target, current, latest, flow, told>>

RestoreConfig(u, ok) ==
    /\ at[u] = "restore"
    /\ channelConfig' \in Effect(ok, channelConfig, TRUE)
    /\ IF ok /\ verdict[u] # "ok"
         THEN Goto(u, "verify") /\ UNCHANGED told
         ELSE Report(u, IF ok THEN "success" ELSE "repair")
    /\ UNCHANGED <<installed, reload, local>>

\* Mutant: with the latest version unknown, any version that can be read will do.
UpgradedUncompared(u, read) == read # NoVersion /\ (Goal(u) # NoVersion => read = Goal(u))

\* verifyVersionAfterFailedCommand of either flow.  The regular flow compares
\* with the latest version, or, if that is unknown, with the one before.
Upgraded(u, read) ==
    /\ read # NoVersion
    /\ IF Goal(u) # NoVersion THEN read = Goal(u)
       ELSE current[u] # NoVersion /\ read # current[u]

Verify(u, ok) ==
    /\ at[u] = "verify"
    /\ LET read == IF ok THEN installed ELSE NoVersion IN
       IF Upgraded(u, read)
         THEN Report(u, "success") /\ verdict' = Set(verdict, u, "ok")
         ELSE /\ Report(u, IF verdict[u] = "rateLimited" THEN "rateLimited"
                           ELSE IF flow[u] = "specified" THEN "repair" ELSE "failed")
              /\ UNCHANGED verdict
    /\ UNCHANGED <<disk, target, current, latest, attempt, flow>>

-----------------------------------------------------------------------------
(* the finally block and what follows it *)

ReloadOn(u, ok) ==
    /\ at[u] = "reloadOn"
    /\ reload' \in Effect(ok, reload, "hybrid")
    /\ Goto(u, IF told[u] = "success" THEN "restart" ELSE "done")
    /\ UNCHANGED <<installed, channelConfig, local, told>>

\* A restart that works ends this process (and its other upgrades); it may also
\* report success and leave the process running.
Restart(u, answer) ==
    /\ \/ at[u] = "restart" /\ answer \in {"swapped", "notSwapped", "failed", "unsupported"}
       \/ at[u] = "restartPlain" /\ answer \in {"swapped", "notSwapped", "failed"}
    /\ \/ answer = "swapped" /\ UpgradesKilled
       \/ answer = "unsupported" /\ Goto(u, "restartPlain") /\ UNCHANGED local
       \/ answer \in {"notSwapped", "failed"} /\ Goto(u, "done") /\ UNCHANGED local
    /\ UNCHANGED <<disk, told>>

ReturnText(u) == at[u] = "done" /\ Forgotten({u}) /\ UNCHANGED <<disk, told>>
=============================================================================
