SPECIFICATION Spec
CONSTANTS
    Collectors = {c1, c2}
    Loggers = {l1, l2}
    Fallible = {"ipc"}
    MaxSessions = 2
    MayCrash = TRUE
INVARIANTS
    IInv
    PortsTogether
PROPERTIES
    OnlyCompleteAnswers
    LostOnlyWithPort
    HandshakeEnds
