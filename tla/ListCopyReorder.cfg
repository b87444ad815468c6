CONSTANTS
    Cell = {c1, c2, c3}
    a1 = a1
    a2 = a2
    b = b
    Value <- MCValue
    NULL = NULL
    FREED = FREED
    e_destroy = free_value
    NoRecentArg <- ReorderOnly
    E_match <- NoOrder
    E_sort <- NoOrder
    e_length <- MCLength
    e_display = show
    DELIMITER = DELIMITER
    COMMA = COMMA
SPECIFICATION Spec
INVARIANT
    CopyIsWhole
CHECK_DEADLOCK FALSE
