SPECIFICATION Spec
CONSTANTS
  Round = Round
  Others = {letter}
  Flows = {1}
  MaxAttempts = 2
  Threshold = 2
  MaxTransientPolls = 1
  Deadline = 2
  MaxTokens = 6
  MaxEvents = 3
PROPERTY DisabledStaysOff
CHECK_DEADLOCK FALSE
