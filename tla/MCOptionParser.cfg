SPECIFICATION Spec
CONSTANTS
    Tables <- AllTables
    Defaults <- AllDefaults
    Vectors <- AllVectors
    Settings <- AllSettings
INVARIANTS
    BufferSuffices
    ListsFollowBuffer
    CommandLine
PROPERTIES
    Advances
    KeepsOrder
