SPECIFICATION Spec
CONSTANTS
    Sessions = {t1}
    Sockets = {s1, s2}
    Messages = {m1, m2}
    Payloads <- MCPayloads
    MaxContentLength = 2
    MaxLimit = 2
    MaxChunks = 1
    MaxOffLock = 1
    None = None
INVARIANTS
    AnswersAttributable
    ConversationInArrivalOrder
PROPERTIES
    EveryMessageAnswered
\* Every socket may be closed and every message answered.
CHECK_DEADLOCK FALSE
