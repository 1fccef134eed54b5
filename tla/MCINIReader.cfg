SPECIFICATION ReaderSpec
CONSTANTS
    Characters <- AllCharacters
    Files <- AllFiles
    Lower <- LowerCase
    Digits = {"1"}
    INI_MAX_LINE = 8
    MAX_SECTION = 4
    MAX_NAME = 3
INVARIANTS
    ContinuationKeepsName
    Stripped
    GetAnswersFile
