SPECIFICATION Spec
CONSTANTS
    Peers = {p1}
    Me = me
    Callers = {c1, c2}
    TTL = 2
INVARIANTS
    TypeOK
    FreshIsJustified
    DirectAnswers
PROPERTY
    CacheConverges
