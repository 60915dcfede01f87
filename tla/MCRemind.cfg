SPECIFICATION RemindSpec
CONSTANTS
    Calls = {c1, c2}
    Requests <- MCRequests
    Times <- MCTimes
    NoTime <- MCNoTime
    Conversations = {"group:g", "direct:u"}
    NoConversation = "none"
    OldJobs <- MCOldJobs
    NoJob = "none"
    Second = 3
    MinDelay = 2
    Timeout = 2
    MaxTime = 5
INVARIANTS
    OkIsTrue
    OnceUnlessUnheard
CHECK_DEADLOCK FALSE
