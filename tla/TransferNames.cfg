SPECIFICATION Spec
CONSTANTS
    NumTransfers = 2
    MaxBatch = 2
    MaxConns = 2
    PerPeer = 1
    Cancellable = {}
    Downloadable = {}
    NameOf <- MCOneName
INVARIANT ShownIsOnDisk
