SPECIFICATION Spec
CONSTANTS
    NONE = NONE
    TRANSFER_TOPIC = TRANSFER_TOPIC
    U64_MAX = 255
    ROUND_SPAN = 4
    WORKER_SPAN = 4
    Answer <- MCAnswer
    Candidates <- MCCandidates
    U8_MAX = 255
    EmptyText = ""
    MaxFaults = 2
INVARIANTS
    RowsAreDeserved
    DiesOfFaultsOnly
