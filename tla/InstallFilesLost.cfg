SPECIFICATION Spec
CONSTANTS
    N = 3
    Paths <- MCPaths
    Kind <- MCKind
    Contents <- MCContents
    Origins = {o1, o2}
    NoOrigin = NoOrigin
    Systems <- MCChains
    MaxCalls = 2
    o1 = o1
    o2 = o2
INVARIANT EveryFileListed
CHECK_DEADLOCK FALSE
