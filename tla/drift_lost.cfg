SPECIFICATION Spec
CONSTANTS
  Runs = {r1, r2}
  Keys = {k1, k2}
  Values = {a, b}
  MaxShips = 2
  MaxRetries = 1
SYMMETRY MCSymmetry
CHECK_DEADLOCK FALSE
INVARIANT FailedRunsLoseNoDrift
