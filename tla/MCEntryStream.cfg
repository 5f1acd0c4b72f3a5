SPECIFICATION StreamSpec
CONSTANTS
    Policies <- SomePolicies
    MaxTurns = 2
    MaxChunks = 2
    MaxRounds = 1
    MaxEntries = 7
INVARIANTS
    LiveIsReplay
    ClientNeverConfused
    SuppressionHides
    PolicyHolds
\* The socket closes, or the bounds are used up.
CHECK_DEADLOCK FALSE
