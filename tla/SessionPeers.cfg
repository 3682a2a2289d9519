SPECIFICATION Spec
CONSTANTS
    Peers = {p1, p2}
    NoPeer = NoPeer
    EventCap = 2
    ChanCap = 1
    MaxFiles = 1
SYMMETRY PeerSymmetry
INVARIANTS
    NoDoubleDiscovery
    StaleNewsCorrected
    SentToShown
    ConnectionRetractable
    NoSelfShutdown
