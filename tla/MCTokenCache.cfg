CONSTANTS
    c1 = c1
    c2 = c2
    Callers <- MCCallers
    MaxFetches = 4
SPECIFICATION FairSpec
INVARIANTS
    RetryIsFresh
    RefreshPlanned
PROPERTY
    EveryCallEnds
CHECK_DEADLOCK FALSE
