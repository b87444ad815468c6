CONSTANTS
    Cell = {c1, c2, c3, c4}
    Value = {x, y}
    NULL = NULL
    e_destroy = free_value
    INT_MAX = 2
SPECIFICATION Spec
SYMMETRY Symmetry
INVARIANTS
    ChainIntact
    LengthExact
PROPERTY
    DocumentedSpec
