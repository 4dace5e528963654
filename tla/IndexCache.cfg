SPECIFICATION Spec
CONSTANTS
    Callers = {c1, c2}
    c1 = c1
    c2 = c2
    MaxVersion = 3
    MaxFaults = 1
    MaxCrashes = 2
    MaxWrites = 3
INVARIANTS
    IndexInv
    NamedByEtag
    OneAnswer
    LocalFresh
PROPERTY CallsReturn
CHECK_DEADLOCK FALSE
