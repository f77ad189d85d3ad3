CONSTANTS
    Objects = {o1, o2, o3}
    Functions = {f1, f2}
    Modules = {m1}
    Nodes = {n1, n2}
    MaxOperands = 2
    Null = Null
SYMMETRY MCSymmetry
SPECIFICATION Spec
CHECK_DEADLOCK FALSE
INVARIANTS
    LookupsAreLive
    EntryPointsAreFound
    OperandsHaveEntryPoints
PROPERTIES
    SyncAddsOnlyMissing
