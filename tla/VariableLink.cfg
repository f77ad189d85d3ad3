CONSTANTS
    Modules = {m1, m2}
    Names = {v}
    Variables = {v}
    None = None
SPECIFICATION Spec
CHECK_DEADLOCK FALSE
INVARIANTS
    DefinitionsResolve
