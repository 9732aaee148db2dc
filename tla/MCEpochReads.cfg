SPECIFICATION Spec
CONSTANTS
    MAX_U64 = 63
    MAX_I64 = 31
    DEFAULT_PER_PAGE = 3
    MAX_PER_PAGE = 4
    MaxOutput = 6
    EpochOf <- MCEpochOf
    Closing <- MCClosing
    LastBlock <- MCLastBlock
    Keys <- MCKeys
    Seated <- MCSeated
    Burns <- MCBurns
    Starts = {0, 3}
    Pages <- MCPages
    PageSizes <- MCPageSizes
INVARIANTS
    EpochRowsExact
    CurrentIffOpen
    PinnedCommittee
    NoTipRace
    ShownIsReachable
    OutputExact
