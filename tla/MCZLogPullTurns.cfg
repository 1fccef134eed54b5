SPECIFICATION TurnsSpec
CONSTANTS
    Fallible = {}
    AsyncMayFail = FALSE
    Frontends = {"ipc"}
    MaxSessions = 1
    MaxArrivals = 3
    PipeCap = 1
CONSTRAINT
    Bounded
INVARIANTS
    TakesTurns
