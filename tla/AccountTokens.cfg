SPECIFICATION Spec
CONSTANTS
  Round = Round
  Others = {letter}
  Flows = {1, 2}
  MaxAttempts = 2
  Threshold = 2
  MaxTransientPolls = 1
  Deadline = 2
  MaxTokens = 6
  MaxEvents = 3
INVARIANTS
  TypeOK
  RotationIsSafe
PROPERTIES
  RedIsDeserved
  EndsByItself
CHECK_DEADLOCK FALSE
