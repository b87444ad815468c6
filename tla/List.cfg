CONSTANTS
    Cell = {c1, c2, c3}
    a1 = a1
    a2 = a2
    b = b
    Value <- MCValue
    NULL = NULL
    FREED = FREED
    e_destroy = free_value
    NoRecentArg <- AllModes
    E_match <- OrderOrNone
    E_sort <- OrderOrNone
    e_length <- MCLength
    e_display = show
    DELIMITER = DELIMITER
    COMMA = COMMA
SPECIFICATION Spec
SYMMETRY Symmetry
INVARIANTS
    ChainIntact
    RecentIsLive
    SortedInOrder
    LookupFinds
    CopyComplete
    CellsFreed
    DisplayExact
PROPERTIES
    ActualSpec
    DuplicateAdvances
CHECK_DEADLOCK FALSE
