SPECIFICATION Spec
CONSTANTS
    Starts = {1, 2, 3}
    Stops = {1, 2}
    s1 = s1
    s2 = s2
    Sockets = {s1, s2}
    Posts = {1, 2, 3, 4}
    Chats = {c1, c2}
    Users = {u1, u2}
    MaxTools = 1
    Casts <- MCCasts
INVARIANTS
    CopiesAreHistory
    ErasedStaysErased
    ErrorsAreHeard
    OpenIsWatched
PROPERTIES
    NeverCutUnasked
    DeadIsGone
\* The host may never call start() again, and no client come.
CHECK_DEADLOCK FALSE
