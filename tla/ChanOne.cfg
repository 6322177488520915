SPECIFICATION Spec
CONSTANTS
    u1 = u1
    u2 = u2
    u3 = u3
    ca = ca
    cb = cb
    k1 = k1
    t1 = t1
    NoArg = NoArg
    BadKey = BadKey
    User <- MCUser
    Chan = {ca, cb}
    LocalChan = {}
    Modeless = {cb}
    AllowedChan = {ca}
    Predefined <- MCPredefined
    Oper = {u3}
    Reg = {}
    KickProtected = {}
    KeyFile = {}
    Conf_OperCanMode = TRUE
    Conf_OperChanPAutoOp = TRUE
    Conf_MaxJoins = 1
    Conf_DefaultChannelModes = {"n", "t"}
    MAX_HNDL_CHANNEL_LISTS = 2
    MAX_HNDL_MODES_ARG = 5
    Key = {}
    JoinList <- MCJoin
    ChangeList <- MCChanges
    Topic = {t1}
    Invisible = {u2}
    HideChannels = {}
    Conf_MorePrivacy = FALSE
    Conf_MaxListSize = 1
    MAX_RPL_WHO = 2
INVARIANTS
    ChannelsSound
    InfoConsistent
PROPERTIES
    RankSafe
    InviteOnce
    Authorised
    AbstractOK
