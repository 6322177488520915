SPECIFICATION Spec
CONSTANTS
    c1 = c1
    c2 = c2
    n1 = n1
    n2 = n2
    n3 = n3
    NoNick = NoNick
    Conn = {c1, c2}
    Nick = {n1, n2, n3}
    Blocked = {n3}
    Token = {1}
    AuthPing = TRUE
    ServerPwd = TRUE
    CapConn = {}
INVARIANT
    ResolveFollowed
