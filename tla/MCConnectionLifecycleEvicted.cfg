SPECIFICATION Spec
CONSTANTS
    MaxUpgrades = 2
    u1 = u1
    u2 = u2
    Users = {u1, u2}
    Owners <- OwnersByName
    None = None
PROPERTIES
    ReceivedIsNeverEvicted
\* Every upgrade was made, and no client has to leave.
CHECK_DEADLOCK FALSE
