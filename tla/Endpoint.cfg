SPECIFICATION Spec
CONSTANTS
    Proc = {a}
    Self = a
    Key = {k1, k2, k3}
    NoKey = NoKey
    NoFile = NoFile
    Short = Short
    Caller = {c1, c2}
    Nobody = Nobody
    NoAddr = NoAddr
    MaxMoves = 2
INVARIANTS
    TypeOK
    IdentityKept
    InvalidationHolds
PROPERTY ShutdownCloses
