SPECIFICATION Spec
CONSTANTS
    Clients = {c1, c2}
    STATS_TTL = 2
    MaxRefresh = 2
    TxsUpTo <- MCTxsUpTo
    EpochOfBlock <- MCEpochOfBlock
    CommitteeSize <- MCCommitteeSize
    RegistrySize <- MCRegistrySize
    MaxTip = 3
    MaxTime = 5
SYMMETRY Interchangeable
INVARIANTS
    StatsCoherent
PROPERTIES
    StalenessBound
