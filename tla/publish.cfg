SPECIFICATION Spec
CONSTANTS
  Runs = {r1, r2}
  MaxFaults = 2
INVARIANTS
  NoOrphanUnlessUnsure
  ClaimsAreTrue
  FreshClosedOnlyIfCaught
PROPERTY NothingStays
