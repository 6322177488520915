SPECIFICATION FairSpec
CONSTANTS
    COMMAND_LEN = 3
    READBUFFER_LEN = 4
    MAX_COMMANDS = 2
    FreeCommands = {1}
    Conf_MaxPenaltyTime = 1
    Conf_PingTimeout = 1
    Conf_PongTimeout = 1
    Penalties = {0, 2}
    Data <- SomeData
INVARIANTS
    SlotSound
    WaitingLineHeld
PROPERTIES
    PenaltyServed
    InputServed
    UnregisteredEnds
    PipeClosed
