SPECIFICATION Spec
CONSTANTS
    N = 3
    Paths <- MCPaths
    Kind <- MCKind
    Contents <- MCContents
    Origins = {o1, o2}
    NoOrigin = NoOrigin
    Systems <- MCSystems
    MaxCalls = 2
    o1 = o1
    o2 = o2
INVARIANTS
    FilesInv
    ListedExactlyOnce
    ListedMatches
    ReplacesWins
    ConflictReported
    NeverForeign
PROPERTY BaseUntouched
CHECK_DEADLOCK FALSE
