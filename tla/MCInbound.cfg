SPECIFICATION Spec
CONSTANTS
    Starts = {s1, s2}
    NoStart = noStart
    BotId = bot
    Owner = owner
    Unknown = unknown
    Runs = {r1}
    Upgrades = {r1}
    Messages <- MCMessages
    Pushes <- MCPushes
    Senders = {owner, "user"}
    NoMessage = noMessage
    CommandSenders = {owner}
    RequireMention = TRUE
    Limit = 2
    Window = 2
    CleanupInterval = 2
    MaxTime = 2
    Versions = {v2}
    Newest = v2
    Unpublished = v3
    NoVersion = noVersion
    MaxAttempts = 1
    MaxUpgrades = 0
INVARIANTS
    RegistryNamesLiveClient
    StatusTellsTruth
    RateWindowExact
CHECK_DEADLOCK FALSE
