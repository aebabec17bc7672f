SPECIFICATION SearchSpec
CONSTANTS
    Null = Null
    Keys <- MCKeys
    Values <- MCKeys
    HashOf <- MCHashOf
    InitialCapacity = 3
    PointerSize = 1
    SizeMax = 7
    Lines <- MCLines
    Regexes <- MCRegexes
    Invalid <- MCInvalid
    MaxLines = 4
    FsPaths <- MCFsPaths
    FileSystems <- MCFileSystems
    RegexMatches <- MCRegexMatches
    StackCapacity = 1
    StateSize = 2
INVARIANTS
    SearchTypeOK
    TreeMeansConfig
    RefusedForAReason
    SearchIsComplete
    DiesForAReason
    UnmatchedIsWarnedAbout
PROPERTIES
    TableIsMap
    SearchIsWalk
    SearchEnds
CHECK_DEADLOCK FALSE
