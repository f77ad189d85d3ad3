CONSTANTS
    Children = {"filter", "stream", "missing"}
    Inputs = {0, 3, 10}
    Outputs = {0, 1, 5, 8, 13}
    Capacity = 8
    ChunkSize = 4
    AtomicWrite = 2
    DescriptorLimit = 8
SPECIFICATION Spec
CHECK_DEADLOCK FALSE
INVARIANTS
    HangsAreExplained
    CutsAreExplained
PROPERTIES
    FilterReturns
