SPECIFICATION Spec
CONSTANTS
    Characters <- AllCharacters
    Files <- LongNameFiles
    INI_MAX_LINE = 8
    MAX_SECTION = 3
    MAX_NAME = 3
INVARIANTS
    ContinuationKeepsName
