CONSTANTS
    Cell = {c1, c2}
    Value = {x, y}
    NULL = NULL
    e_destroy = free_value
    INT_MAX = 2
SPECIFICATION Spec
SYMMETRY Symmetry
INVARIANT
    ElementsDestroyed
