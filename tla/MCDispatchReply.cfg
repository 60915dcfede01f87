CONSTANTS
    MaxSegments = 1
    MaxPieces = 2
    MaxDrains = 2
    NoPiece = NoPiece
SPECIFICATION FairSpec
INVARIANTS
    SentInOrder
    LastMessageComplete
    FallbackStandsAlone
    OneLoop
PROPERTIES
    FinishIsLast
    ReplyEnds
CHECK_DEADLOCK FALSE
