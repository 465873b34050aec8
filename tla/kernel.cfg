SPECIFICATION Spec
CONSTANTS
    Actors = {a1, a2}
    Files = {f1}
    OpTimeout = 1
    Ttl = 7
    Attempts = 2
    MaxFaults = 2
    None = None
SYMMETRY Alike
INVARIANTS
    AnswersAreTheOperations
    ClaimsFromOneImage
    BucketAlarmsHaveCause
CHECK_DEADLOCK FALSE
