SPECIFICATION Spec
CONSTANTS
    NONE = NONE
    Chains = {c1, c2}
    MaxRestarts = 3
INVARIANTS
    OpenMeansCurrentSchema
    CursorMatchesRows
    OpenRowsAreOurs
    RefusalHarmless
CHECK_DEADLOCK FALSE
