SPECIFICATION Spec
CONSTANTS
    HistoryLimit = 2
    MaxPerUser = 2
    MaxRounds = 2
    MaxDisturbances = 2
INVARIANTS
    TypeOK
    OneWayForward
    NothingMissed
PROPERTY SpinnerEnds
CHECK_DEADLOCK FALSE
