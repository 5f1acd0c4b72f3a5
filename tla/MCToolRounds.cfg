SPECIFICATION Spec
CONSTANTS
    MaxToolRounds = 2
    MaxCalls <- CallsPerRound
INVARIANTS
    EveryCallAnswered
    TeardownInOrder
PROPERTIES
    NeverStartedBehindTheModel
    AbandonedQuietly
    RunEnds
\* The turn is over.
CHECK_DEADLOCK FALSE
