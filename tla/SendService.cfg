SPECIFICATION Spec
CONSTANTS
    k1 = k1
    k2 = k2
    None = None
    Keys <- MCKeys
    MaxJobs = 3
    MaxKept = 1
    MaxRestarts = 1
SYMMETRY MCSymmetry
CHECK_DEADLOCK FALSE
INVARIANTS TypeOK MapsAgree OneSenderPerKey SecondLetterHasAReason DrainLeavesTimedOutOnly
PROPERTIES StatusIsFinal
