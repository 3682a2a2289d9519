SPECIFICATION Spec
CONSTANTS
    Peers = {p1}
    NoPeer = NoPeer
    EventCap = 1
    ChanCap = 1
    MaxFiles = 2
INVARIANTS
    TypeOK
    PipelineIsFifo
    SendingIsReal
PROPERTIES
    SolePeerConnected
    FilesHandled
    ImplementsFileQueue
    SendingEnds
    LostPeerReleased
