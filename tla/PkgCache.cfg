CONSTANTS
    Procs = {p1, p2}
    p1 = p1
    p2 = p2
    MaxAttempts = 2
    OldCache = TRUE
SPECIFICATION FairSpec
INVARIANTS
    CacheInv
    SettledSigned
PROPERTIES
    PartialHeals
CHECK_DEADLOCK FALSE
