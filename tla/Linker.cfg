CONSTANTS
    Modules = {m1, m2, m3}
    Names = {f, v}
    Variables = {v}
    None = None
SYMMETRY MCSymmetry
SPECIFICATION Spec
CHECK_DEADLOCK FALSE
INVARIANTS
    OwnDefinitionsAreUsed
    FunctionsResolve
PROPERTIES
    ResolvedForGood
    ImplementsLinkedNames
