SPECIFICATION Spec
CONSTANTS
    Loggers = {l1, l2}
    Mine = {l1}
    Threads = {t1}
    MaxCalls = 3
    MaxRuns = 2
    Capacity = 2
INVARIANTS
    IInv
    PrintedInOrder
    AllHeard
PROPERTIES
    KeepsStreams
    KeepsService
    DestructorEnds
