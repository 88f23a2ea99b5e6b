SPECIFICATION Spec
CONSTANTS
    k1 = k1
    k2 = k2
    None = None
    Keys <- MCKeys
    MaxJobs = 3
    MaxKept = 1
    MaxRestarts = 1
CHECK_DEADLOCK FALSE
INVARIANT DrainSavesTheCopy
