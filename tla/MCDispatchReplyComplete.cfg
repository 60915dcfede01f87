CONSTANTS
    MaxSegments = 1
    MaxPieces = 2
    MaxDrains = 2
    NoPiece = NoPiece
SPECIFICATION Spec
INVARIANT
    CompleteReply
CHECK_DEADLOCK FALSE
