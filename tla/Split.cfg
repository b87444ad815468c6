CONSTANTS
    INT_MAX = 15
    Text <- MCText
    DELIMITER = DELIMITER
    MINUS = MINUS
    NUL = NUL
    NULL = NULL
    GARBAGE = GARBAGE
    Elem <- MCElem
    BlockArg = {0}
    Index = {}
    SSIZE_MAX = 8
    SIZE_MAX = 31
    PointerSize = 2
    e_destroy = free
    ValidIndices = TRUE
    e_length = NULL
    e_display = NULL
    COMMA = COMMA
SPECIFICATION FairSpec
INVARIANTS
    SplitTypeOK
    WordsRight
    FailureContained
    IntsExact
PROPERTY
    SplitReturns
CHECK_DEADLOCK FALSE
