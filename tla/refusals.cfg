SPECIFICATION Spec
CONSTANTS
  Runs = {r1, r2}
  MaxPerHour = 2
  MaxRetries = 1
  None = none
CHECK_DEADLOCK FALSE
PROPERTY RefusalsKept
