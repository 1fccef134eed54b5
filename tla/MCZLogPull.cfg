SPECIFICATION Spec
CONSTANTS
    Fallible <- NetworkEndpoints
    AsyncMayFail = TRUE
    Frontends = {"ipc", "tcp"}
    MaxSessions = 3
    MaxArrivals = 1
    PipeCap = 3
INVARIANTS
    IInv
    NoLostWakeup
    SocketsHandedOver
    StoppedHoldsNoEndpoint
    AbortOnlyAfterFault
    FlagTellsWorker
PROPERTIES
    StopReturns
