SPECIFICATION Spec
CONSTANTS
    Fallible = {"tcp"}
    AsyncMayFail = FALSE
    Frontends = {}
    MaxSessions = 2
    MaxArrivals = 2
    PipeCap = 2
PROPERTIES
    KeepsService
