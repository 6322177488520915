SPECIFICATION Spec
CONSTANTS
    s1 = s1
    s2 = s2
    s3 = s3
    u1 = u1
    u2 = u2
    ca = ca
    cl = cl
    t1 = t1
    NoArg = NoArg
    BadKey = BadKey
    User = {u1, u2}
    Server = {s1, s2, s3}
    Link <- MCLink3
    Home <- MCHome3
    Chan = {ca, cl}
    LocalChan = {cl}
    Modeless = {}
    AllowedChan = {ca, cl}
    Predefined <- MCPredefined
    Reg = {}
    KickProtected = {}
    KeyFile = {}
    Conf_OperCanMode = FALSE
    Conf_OperChanPAutoOp = FALSE
    Conf_MaxJoins = 0
    Conf_DefaultChannelModes = {"n"}
    MAX_HNDL_CHANNEL_LISTS = 50
    MAX_HNDL_MODES_ARG = 5
    CmdChan <- MCCmdGlobal
    ChangeList = {}
    Topic = {}
    Leaver = {u2}
    Victim = {u2}
    MaxQueue = 2
    Fragile <- MCFragile3
INVARIANTS
    Prepared
    ServersAgree
