SPECIFICATION Spec
CONSTANTS
    Accounts <- MCAccounts
    Bulks <- MCBulks
    Targets <- MCTargets
    Switched <- MCSwitched
    Threshold = 2
    Enforce = TRUE
    MaxRestarts = 0
CHECK_DEADLOCK FALSE
INVARIANT StopWaitsForRounds
