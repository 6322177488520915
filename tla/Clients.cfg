SPECIFICATION Spec
CONSTANTS
    This = This
    NULL = NULL
    p1 = p1
    p2 = p2
    p3 = p3
    r1 = r1
    u1 = u1
    Peer = {p1, p2, p3}
    Remote = {r1}
    User = {u1}
    Watcher = {u1}
    MaxUnknown = 1
    MaxFail = 1
INVARIANTS
    ListSound
    ViewExact

    
SYMMETRY MCSymmetry
