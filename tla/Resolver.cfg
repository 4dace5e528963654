SPECIFICATION Spec
CONSTANTS
    MaxInt = 9
    Names <- MCNames
    Text <- MCText
    Universes <- MCUniverses
INVARIANTS
    ResolverInv
    DependenciesFirst
    WorldHonoured
    ChoiceOrderIndependent
    DepthBounded
PROPERTY Advances
