CONSTANTS
    m1 = m1
    m2 = m2
    m3 = m3
    m4 = m4
    baseLane = baseLane
    controlLane = controlLane
    Messages <- MCMessages
    Lanes <- MCLanes
    NoMessage = NoMessage
    HistoryLimit = 2
    MediaLimit = 2
SPECIFICATION HistorySpec
SYMMETRY MCSymmetry
INVARIANTS
    NotShownAgain
    RecalledStaysOut
PROPERTY
    NothingLost
CHECK_DEADLOCK FALSE
