SPECIFICATION Spec
CONSTANTS
    bufmask = 3
    maxcolumns = 3
    Usages <- AllUsages
    Settings <- AllSettings
INVARIANTS
    PartsInOrder
    Aligned
    TextPrinted
    Fits
PROPERTIES
    Narrows
    KeepsQueues
