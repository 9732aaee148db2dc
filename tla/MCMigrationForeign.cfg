SPECIFICATION Spec
CONSTANTS
    NONE = NONE
    Chains = {c1, c2}
    MaxRestarts = 1
INVARIANTS
    ForeignFileRefused
CHECK_DEADLOCK FALSE
