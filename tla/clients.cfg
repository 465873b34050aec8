SPECIFICATION Spec
CONSTANTS
    Names = {1, 2}
    MaxRows = 13
    Procs = {p1, p2}
    Invoked <- MCInvoked
    Tours <- MCTours
    Typed <- MCTyped
    MaxClicks = 3
    MaxCalls = 1
    InitialRows <- MCRows
SYMMETRY Alike
INVARIANTS
    OneWorkspaceUnlessUnsure
    ExitTellsTheTruth
    SettledScreensShowTheirKey
    DeletesAreNamedUnlessReused
CHECK_DEADLOCK FALSE
