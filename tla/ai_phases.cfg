SPECIFICATION Spec
CONSTANTS
  Limit = 2
  MaxItems = 3
  NImpacts = 3
  NFindings = 2
  Traced <- MCTraced
  MaxUnits = 2
  MaxCalls = 3
  DailyCap = 3
  MaxCost = 2
  MaxPrior = 1
CHECK_DEADLOCK FALSE
INVARIANTS
  GuardedCallsWithinCap
  SpendOvershootBounded
  LedgerAgrees
  NothingDropped
  PartialIffStarved
  SurfacedFindingsHeard
PROPERTIES
  ImplementsBoundedPool
  Terminates
