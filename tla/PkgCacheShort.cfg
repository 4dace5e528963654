CONSTANTS
    Procs = {p1, p2}
    p1 = p1
    p2 = p2
    MaxAttempts = 2
    OldCache = FALSE
SPECIFICATION Spec
INVARIANTS
    CachedWhole
SYMMETRY ProcSymmetry
CHECK_DEADLOCK FALSE
