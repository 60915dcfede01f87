SPECIFICATION Spec
CONSTANTS
    Starts = {s1, s2}
    NoStart = noStart
    BotId = bot
    Owner = owner
    Unknown = unknown
    Runs = {r1}
    Upgrades = {r1}
    Messages <- MCUpgradeMessages
    Pushes <- MCUpgradePushes
    Senders = {owner, "user"}
    NoMessage = noMessage
    CommandSenders = {owner}
    RequireMention = TRUE
    Limit = 1
    Window = 2
    CleanupInterval = 2
    MaxTime = 0
    Versions = {v1, v2}
    Newest = v2
    Unpublished = v3
    NoVersion = noVersion
    MaxAttempts = 2
    MaxUpgrades = 1
INVARIANTS
    ConfigNeverLost
PROPERTIES
    RunsEnd ToldTheTruth
CHECK_DEADLOCK FALSE
