SPECIFICATION FairSpec
CONSTANTS
    Budget = 12
    MinSlice = 2
    AttemptTimeout = 8
    MaxAttempts = 3
    BackoffBase = 2
    BackoffMax = 5
    Advice = {1, 4}
    MaxPoolWait = 3
    MaxConnect = 4
    MaxExchange = 1
INVARIANTS
    TypeOK
    OverrunIsBounded
    GivesUpOnlyWithoutBudget
PROPERTIES
    RoundEnds
CHECK_DEADLOCK FALSE
