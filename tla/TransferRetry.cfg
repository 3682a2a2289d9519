SPECIFICATION Spec
CONSTANTS
    NumTransfers = 3
    MaxBatch = 2
    MaxConns = 2
    PerPeer = 2
    Cancellable = {}
    Downloadable = {}
    NameOf <- MCDistinct
INVARIANTS
    CompletedIsExported
    AtMostTwice
