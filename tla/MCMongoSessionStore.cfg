SPECIFICATION MCMongoSpec
CONSTANTS
    Sessions = {t1, t2}
    Calls = {c1, c2, c3, c4}
    None = None
    MaxAge = 0
    MaxTime = 1
SYMMETRY Symmetric
INVARIANTS
    ErasedIsGone
    CacheIsSound
PROPERTIES
    StableObject
\* Every call that may be made was made.
CHECK_DEADLOCK FALSE
