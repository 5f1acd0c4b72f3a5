SPECIFICATION Spec
CONSTANTS
    MaxUpgrades = 3
    u1 = u1
    u2 = u2
    Users = {u1, u2}
    Owners <- OwnersByName
    None = None
INVARIANTS
    SessionIsItsSockets
    HooksPaired
    NothingLeftBehind
\* Every upgrade was made, and no client has to leave.
CHECK_DEADLOCK FALSE
