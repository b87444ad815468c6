CONSTANTS
    NULL = NULL
    BLANK = BLANK
    NEWLINE = NEWLINE
    BACKSLASH = BACKSLASH
    HASH = HASH
    DOUBLE = DOUBLE
    SINGLE = SINGLE
    DASH = DASH
    letter = letter
    Other <- MCOther
    FlagArg <- SomeFlags
    MAX_LINE_LENGTH = 6
    BlockSize = 2
    MaxText = 6
SPECIFICATION Spec
INVARIANTS
    TypeOK
    ContextSound
    TrimsNearby
    ClosedOnce
    
CHECK_DEADLOCK FALSE
