CONSTANTS
    Elem = {e1, e2, e3, e4}
    NULL = NULL
    GARBAGE = GARBAGE
    BlockArg = {0, 1, 2, 8}
    Index = {0, 1, 2, 3}
    SSIZE_MAX = 4
    SIZE_MAX = 15
    PointerSize = 2
    e_destroy = free_elem
    ValidIndices = TRUE
    e_length <- MCLength
    e_display = show
    DELIMITER = DELIMITER
    COMMA = COMMA
SPECIFICATION Spec
INVARIANTS
    SizesSafe
    ElementsOwned
    CopyEqual
    DisplayFits
PROPERTY
    ActualSpec
CHECK_DEADLOCK FALSE
