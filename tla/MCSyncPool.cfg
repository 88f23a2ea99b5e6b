SPECIFICATION FairSpec
CONSTANTS
    a1 = a1
    a2 = a2
    a3 = a3
    bg1 = bg1
    now1 = now1
    bulk2 = bulk2
    now3 = now3
    Rounds <- MCRounds
    Accounts = {a1, a2, a3}
    AccountOf <- MCAccountOf
    Background = {bg1}
    Interactive = {now1, now3}
    Limit = 1
    MaxAttempts = 2
INVARIANTS
    TypeOK
    ConnectionBound
    OneRoundPerAccount
    NoIdleSlot
    FailureOnlyAtRoundEnd
    InteractiveFirst
PROPERTIES
    EveryRoundEnds
    ImplementsGate
CHECK_DEADLOCK FALSE
