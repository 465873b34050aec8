CONSTANTS
    None = None
    k1 = k1
    k2 = k2
    page = page
    copy = copy
    table = table
    Keys = {k1, k2}
    FactSets <- MCFactSets
    Estates <- MCEstates
    MaxDrafts = 2
SPECIFICATION Spec
CHECK_DEADLOCK FALSE
INVARIANTS
    DisputedKeysUntouched
    SubstitutionsLand
    PublishedIsProposed
