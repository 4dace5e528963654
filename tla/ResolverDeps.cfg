SPECIFICATION Spec
CONSTANTS
    MaxInt = 9
    Names <- MCNames
    Text <- MCText
    Universes <- MCDiamond
INVARIANT DepsSatisfied
CHECK_DEADLOCK FALSE
