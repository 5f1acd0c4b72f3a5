SPECIFICATION Spec
CONSTANTS
    Starts = {1, 2, 3}
    Stops = {1}
    s1 = s1
    s2 = s2
    Sockets = {s1, s2}
    Posts = {1}
    Chats = {c1}
    Users = {u1}
    MaxTools = 0
    Casts <- MCServerCasts
INVARIANTS
    HeardOnceStarted
CHECK_DEADLOCK FALSE
