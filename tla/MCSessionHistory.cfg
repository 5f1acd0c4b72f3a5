SPECIFICATION Spec
CONSTANTS
    Sessions = {1, 2, 3}
    Walks = {first, second}
    PageSize = 2
    MaxAge = 1
    MaxNow = 3
SYMMETRY Symmetric
INVARIANTS
    EachRowOnce
    WalkMissesNone
\* Every session erased, every walk over.
CHECK_DEADLOCK FALSE
