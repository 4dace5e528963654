SPECIFICATION Spec
CONSTANTS
    Names <- MCNames
    Contents = {x, y}
    Fold <- MCFold
    Bases <- MCBases
    Texts <- MCTexts
    MaxLinks = 3
    MaxOps = 4
    MaxFaults = 1
INVARIANTS
    Mirrored
    ReadsBack
    DirInv
CONSTRAINT
    MCClaims
SYMMETRY MCSymmetry
CHECK_DEADLOCK FALSE
