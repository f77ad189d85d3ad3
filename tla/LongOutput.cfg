CONSTANTS
    Children = {"filter"}
    Inputs = {3}
    Outputs = {5}
    Capacity = 8
    ChunkSize = 4
    AtomicWrite = 2
    DescriptorLimit = 8
SPECIFICATION Spec
CHECK_DEADLOCK FALSE
INVARIANTS
    BufferIsOutput
