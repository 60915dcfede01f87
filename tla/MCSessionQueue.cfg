CONSTANTS
    k1 = k1
    k2 = k2
    t1 = t1
    t2 = t2
    t3 = t3
    Keys <- MCKeys
    Tasks <- MCTasks
    NoKey = NoKey
    NoTask = NoTask
    MaxGeneration = 2
SPECIFICATION QueueFairSpec
INVARIANTS
    AtMostOneRunning
    ChainTracksPending
PROPERTIES
    ImplementsSerialQueue
    EveryTaskLeaves
CHECK_DEADLOCK FALSE
