CONSTANTS
    Reqs = {r1, r2, r3}
    Old = old
    Outputs = 2
    RateCap = 2
    Budget = 2
    Crowd <- MCCrowd
SPECIFICATION Spec
SYMMETRY Symmetry
CHECK_DEADLOCK FALSE
INVARIANTS
    TypeOK
    RowsHaveObjects
    OrphansAccounted
    TurnRowsTellTheTruth
    RateKeptUnlessRaced
    LedgerLacksOnlyTheDead
    CleanChatsArePaired
PROPERTY
    ArchiveHolds
