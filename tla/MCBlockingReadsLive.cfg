SPECIFICATION Spec
CONSTANTS
    READ_POOL_SIZE = 1
    MAX_CONCURRENT_NODE_READS = 1
    Conns = {k1}
    Browsers = {b1, b2}
    Loop = loop
    Jobs = {j1, j2}
    NoOne = nobody
    NoConn = noconn
    MaxLost = 1
PROPERTIES
    EveryoneServed
