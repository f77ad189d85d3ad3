\* Two modules and two llvm::Modules, three dispatchers with at most two nodes.
CONSTANTS
    Modules = {m1, m2}
    LLModules = {x1, x2}
    Objects = {d1, d2, d3}
    Interfaces = {i1, i2}
    Contents = {shape, tag}
    Addresses <- NodeAddresses
    None = None
    MaxOperands = 2

SYMMETRY Alike

SPECIFICATION Spec

INVARIANTS
    LookupsAreExact
    NeverReleasedAreKnown
    FunctionsFollow
    MergeFindsTheMissed

PROPERTIES
    CrashesAreExplained

CHECK_DEADLOCK FALSE
