SPECIFICATION TextSpec
CONSTANTS
    Messages <- MCMessages
    MinChars = 3
    MaxChars = 4
    MaxReasoning = 2
INVARIANTS
    SentExactly
    BlocksKept
CHECK_DEADLOCK FALSE
