SPECIFICATION Spec
CONSTANTS
  Runs = {r1, r2}
  MaxFaults = 2
INVARIANT FreshPullsStayOpen
