SPECIFICATION GuardsSpec
CONSTANTS
    Keys = {k1, k2}
    Calls = {c1, c2, c3}
    None = None
    LimitedKeys = {k1, k2}
    Limit = 2
    Window = 3
    Full = 6
    MaxTime = 12
    Vendors = 3
    MaxAttempts = 2
    MaxChunks = 2
INVARIANTS
    SerialInCallOrder
    OneVoice
    SentOnOutageOnly
PROPERTIES
    SerialQueueSpec
    MapEmpties
    RetryHintHonoured
    IsTokenBucket
    AbortIsQuiet
    StreamedCallEnds
\* Every call was made and is through; the bound on the clock; a call that
\* is over, and a vendor that hangs on a structured one.
CHECK_DEADLOCK FALSE
