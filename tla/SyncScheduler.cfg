SPECIFICATION FairSpec
CONSTANTS
    Accounts <- MCAccounts
    Bulks <- MCBulks
    Targets <- MCTargets
    Switched <- MCSwitched
    Threshold = 2
    Enforce = TRUE
    MaxRestarts = 1
CHECK_DEADLOCK FALSE
INVARIANTS TypeOK BackgroundIsSerial SuspendedIsNotPolled ShownIsTrue
PROPERTIES BulkKeepsTheTickOut BaselineResumes EveryAccountIsPolled StopReturns
