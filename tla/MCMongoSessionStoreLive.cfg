SPECIFICATION MongoSpec
CONSTANTS
    Sessions = {t1}
    Calls = {c1, c2, c3}
    None = None
    MaxAge = 1
    MaxTime = 1
INVARIANTS
    LiveIsCached
CHECK_DEADLOCK FALSE
