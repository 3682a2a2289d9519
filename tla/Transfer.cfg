SPECIFICATION Spec
CONSTANTS
    NumTransfers = 2
    MaxBatch = 2
    MaxConns = 2
    PerPeer = 1
    Cancellable = {1}
    Downloadable = {2}
    NameOf <- MCDistinct
INVARIANTS
    TypeOK
    ActiveIsRunning
    NoneStranded
PROPERTY
    ImplementsDelivery
