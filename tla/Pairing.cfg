SPECIFICATION Spec
CONSTANTS
    ADJECTIVES <- MCAdjectives
    NOUNS <- MCNouns
    NoWord = "other"
    Size <- MCSize
    InvalidCode = InvalidCode
    Drawn <- MCDrawn
    Typed <- MCTyped
    Peers = {p1}
    Callers = {c1, c2}
    Validity = 1
    None = None
INVARIANTS TypeOK TypedIsRead CancelHolds
PROPERTIES WaitEnds
