SPECIFICATION FeedSpec
CONSTANTS
    MAX_U64 = 63
    MAX_I64 = 31
    DEFAULT_PER_PAGE = 3
    MAX_PER_PAGE = 4
    Bodies <- MCBodies
    FirstTx <- MCFirstTx
    MaxTip = 3
    Pages <- MCPages
    PageSizes <- MCPageSizes
    Windows <- MCWindows
    DEFAULT_LEADER_WINDOW = 3
    MAX_LEADER_WINDOW = 6
INVARIANTS
    PageIsSlice
    FeedWalkMissesNothing
    LeadersExact
