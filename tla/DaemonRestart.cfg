CONSTANTS
    Fd = {1, 2, 3}
    FD_SETSIZE = 4
    Port = {1}
    Conf_MaxConnections = 1
    Faults = FALSE
    Meddling = FALSE
SPECIFICATION Spec
INVARIANT RestartServes
