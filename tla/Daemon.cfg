CONSTANTS
    Fd = {1, 2, 3, 4, 5}
    FD_SETSIZE = 5
    Port = {1}
    Conf_MaxConnections = 2
    Faults = TRUE
    Meddling = TRUE
SPECIFICATION Spec
INVARIANTS
    DescriptorsSound
    RoundServes
PROPERTIES
    QuitKept
