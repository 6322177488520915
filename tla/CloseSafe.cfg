SPECIFICATION FairSpec
CONSTANTS
    N = 4
    Channel = {a, b}
    Conf_MaxConnections = 3
    WRITEBUFFER_FLUSH_LEN = 2
    WRITEBUFFER_MAX_LEN = 3
INVARIANTS
    PoolSound
    ClosesSound
PROPERTIES
    CascadeEnds
