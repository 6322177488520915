CONSTANTS
    MASK_LEN = 9
    Conf_MaxNickLength = 4
    CHANNEL_NAME_LEN = 4
    MaxArgs = 2
    SIZE = 8
    MAX_WHOWAS = 3
    PatternChars = {"a", "b", "*", "?", "\\", "["}
    TextChars = {"a", "b", "["}
    MaxPattern = 4
    MaxText = 4
    LineChars = {" ", ":", "a", "^"}
    MaxLine = 8
    NameChars = {"a", "0", "!", "@", "*", ":", "#", "[", " ", "~"}
    MaxName = 4
    Nick = {"m", "n"}
    MaxLog = 5
    Byte = {"0", "1"}
    None = None
    MAX_HNDL_TARGETS = 2
    World <- MCWorld
    Target <- MCTarget
    MaxTargets = 3
    Mask <- MCMask
    LineNick = {"m", "n"}
    Host = "h"
    CloakHost = "k"
    Seconds = {0, 1}
    MaxNow = 3
SPECIFICATION Spec
CHECK_DEADLOCK FALSE
INVARIANTS
    PatternsExact
    RequestExact
    ArraysExact
    WhowasExact
    MessagesServed
    BansKept
