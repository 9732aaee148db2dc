SPECIFICATION Spec
CONSTANTS
    READ_POOL_SIZE = 2
    MAX_CONCURRENT_NODE_READS = 1
    Conns = {k1, k2}
    Browsers = {b1, b2}
    Loop = loop
    Jobs = {j1, j2, j3, j4}
    NoOne = nobody
    NoConn = noconn
    MaxLost = 1
SYMMETRY Interchangeable
INVARIANTS
    TypeOK
    OccupancyBounded
    ConnsExclusive
    RefusedOnlyAfterPanic
