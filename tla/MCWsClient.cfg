CONSTANTS
    s1 = s1
    s2 = s2
    r1 = r1
    r2 = r2
    Sockets <- MCSockets
    NoSocket = NoSocket
    Requests <- MCRequests
    MaxReconnectAttempts = 3
    StaticToken = FALSE
SPECIFICATION FairSpec
INVARIANTS
    OneDriver
    DisposedIsQuiet
    RequestsSettleOnce
    RejectedTokenNotReused
PROPERTIES
    ImplementsOwnedClient
    GetsSomewhere
    SilentPeerNoticed
CHECK_DEADLOCK FALSE
