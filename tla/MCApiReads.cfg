SPECIFICATION ApiSpec
CONSTANTS
    NONE = NONE
    TRANSFER_TOPIC = TRANSFER_TOPIC
    OtherTopic = OtherTopic
    ZeroRoot = ZeroRoot
    A = A
    B = B
    T1 = T1
    T2 = T2
    D1 = D1
    D2 = D2
    U64_MAX = 1000000
    ROUND_SPAN = 256
    WORKER_SPAN = 65536
    MaxHeight = 3
    Chain <- Sample
    PerPage = 1
    MAX_PER_PAGE = 1
    Selections <- MCSelections
    MaxLost = 2
INVARIANTS
    TxDetailExact
    TotalCoversAnswer
    TokensFromCache
    NoDanglingPointer
    WalkMissesAtMostLost
    BatchNumbering
    NoHoleInPage
