\* One configured server, rehashes with and without it
CONSTANTS
    MAX_SERVERS = 2
    Fd = {1, 2, 3}
    Name = {"A"}
    Files <- MCFilesAlone
    FirstFile <- MCAlone
    Added <- MCAdded
    NGIRCd_Passive = FALSE
    Conf_MaxConnections = 1
    MaxAddr = 2
    Conf_ConnectRetry = 1
    RECONNECT_DELAY = 1
    STARTUP_DELAY = 1
    Random = {0}
    MaxAdmin = 2
SPECIFICATION FairSpec
INVARIANTS
    LinksSound
PROPERTIES
    StaysKnown
    PipesEnd
