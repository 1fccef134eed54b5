SPECIFICATION Spec
CONSTANTS
    Threads = {t1, t2}
    LOCK = "mutex"
    FormatMayThrow = TRUE
    MaxCalls = 3
    Capacity = 2
INVARIANTS
    IInv
    WholeTexts
    ThreadOrder
PROPERTIES
    KeepsStream
    CallEnds
