SPECIFICATION Spec
CONSTANTS
    Messages = {a, b}
    Plans = {1}
    MaxDisturbances = 1
PROPERTIES
    RollbackMeansNothingHappened
