SPECIFICATION Spec
CONSTANTS
    Peers = {p1, p2}
    NoPeer = NoPeer
    Users = {u1, u2}
    MaxSize = 3
    PerPeer = 2
    MaxCalls = 5
CHECK_DEADLOCK FALSE
INVARIANT QuietIsUnreferenced
