CONSTANTS
    t1 = t1
    t2 = t2
    t3 = t3
    Directs = {peer}
    Groups = {group}
    Tasks <- MCTasks
    NoTask = NoTask
    NoKey = NoKey
    MaxGeneration = 3
SPECIFICATION Spec
INVARIANTS
    LatestWins
    NewestSurvives
PROPERTIES
    SkippedExactlyIfDiscarded
    StopGetsThrough
CHECK_DEADLOCK FALSE
