CONSTANTS
    Cell = {c1, c2, c3}
    a1 = a1
    a2 = a2
    b = b
    c = c
    Value <- MCValue
    NULL = NULL
    NoRecentArg <- NoRecent
    E_match <- OrderOrNone
    E_sort <- NoOrder
    NoBucket = 2
    e_hash <- BucketOfC
    e_destroy = free_value
    AddsNull = TRUE
    e_length <- MCLength
    e_display = show
    DELIMITER = DELIMITER
    COMMA = COMMA
SPECIFICATION Spec
SYMMETRY Symmetry
INVARIANTS
    BucketsSound
    ElementsPlaced
    LookupFinds
    CopyComplete
    DisplayExact
PROPERTY
    ActualSpec
CHECK_DEADLOCK FALSE
