SPECIFICATION Spec
CONSTANTS
    NONE = NONE
    TRANSFER_TOPIC = TRANSFER_TOPIC
    OtherTopic = OtherTopic
    ZeroRoot = ZeroRoot
    A = A
    B = B
    T1 = T1
    T2 = T2
    D1 = D1
    D2 = D2
    U64_MAX = 1000000
    ROUND_SPAN = 256
    WORKER_SPAN = 65536
    MaxHeight = 3
    Chain <- Sample
INVARIANTS
    TypeOK
    IndexIsPrefix
    CountsExact
    RangesExact
    TokensExact
    NeverAhead
PROPERTIES
    CursorStepwise
    TokenStatusMachine
    ImplementsIndexWriter
    ImplementsDerivedIndex
