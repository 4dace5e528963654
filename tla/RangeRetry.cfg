CONSTANTS
    Size = 5
    BufSize = 3
SPECIFICATION FairSpec
INVARIANTS
    Prefix
    EOFAtEnd
    ReaderInv
PROPERTIES
    ReadReturns
CHECK_DEADLOCK FALSE
