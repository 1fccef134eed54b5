SPECIFICATION Spec
CONSTANTS
    bufmask = 3
    maxcolumns = 3
    Usages <- AllUsages
    Settings <- AllSettings
INVARIANTS
    CursorTracked
