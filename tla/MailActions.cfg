SPECIFICATION Spec
CONSTANTS
    Messages = {a, b}
    Plans = {1, 2}
    MaxDisturbances = 1
INVARIANTS
    TypeOK
    ScreenIsTrue
