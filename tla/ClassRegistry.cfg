CONSTANTS
    A = A
    Bases <- MCBases
    GivenNames <- MCGivenNames
    EmptyName = EmptyName
    NoModule = NoModule
    NoEntry = NoEntry
    Null = Null
    Objects = {o1, o2, o3}
    Modules = {m1, m2}
    Addresses = {1, 2}
    UniqueModulus = 4
    MaxSuffixes = 1
    MaxOperands = 2
    MaxUnique = 1
SYMMETRY MCSymmetry
SPECIFICATION Spec
CHECK_DEADLOCK FALSE
INVARIANTS
    ListMatchesTable
    OperandsHaveClasses
PROPERTIES
    SortedSyncAddsOnlyMissing
