CONSTANTS
    Kv = {k1, k2}
    Obj = {o1, o2, o3, o4}
    NULL = NULL
SPECIFICATION Spec
SYMMETRY Symmetry
INVARIANTS
    OwnedOnce
    NeverDangling
    AllAccounted
