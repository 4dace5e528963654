SPECIFICATION Spec
CONSTANTS
    Names <- MCNames
    Contents = {"x", "y"}
    Fold <- MCFold
    Bases <- MCEmpty
    Texts <- MCTexts
    MaxLinks = 3
    MaxOps = 3
    MaxFaults = 0
INVARIANT
    MemoryCoversDisk
CHECK_DEADLOCK FALSE
