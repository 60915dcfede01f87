SPECIFICATION Spec
CONSTANTS
    TtlMs = 2
    MaxKeys = 1
    CleanupMinInterval = 1
    MaxTime = 2
    Callers = {c1, c2}
    Users <- MCUsers
    NoUser = noUser
    Names <- MCNames
    NameContains <- MCNameContains
    Rosters <- MCRosters
    Speakers <- MCSpeakers
    GroupTtl = 1
    SessionTtl = 1
    RequestTimeout = 1
    Group = group
    NoTarget = noTarget
    MaxSize = 3
    DirectoryTtl = 1
    Refs = {"r1", "r2"}
    NoRef = noRef
    Jobs <- MCJobs
    Mode = "first"
INVARIANTS
    QuotedOnce
    SeqInWireOrder
    CacheKnowsItsAge
SYMMETRY CallerSymmetry
CHECK_DEADLOCK FALSE
