SPECIFICATION Spec
CONSTANTS
    Peers = {p1}
    NoPeer = NoPeer
    EventCap = 1
    ChanCap = 1
    MaxFiles = 1
INVARIANT ConnectedMeansPeer
