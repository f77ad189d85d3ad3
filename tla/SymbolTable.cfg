CONSTANTS
    A = A
    Objects = {o1, o2, o3}
    Tables = {t1, t2}
    Bases <- MCBases
    GivenNames <- MCGivenNames
    EmptyName = EmptyName
    NoTable = NoTable
    NoEntry = NoEntry
    UniqueModulus = 4
    MaxSuffixes = 1
SYMMETRY MCSymmetry
SPECIFICATION Spec
INVARIANTS
    TypeOK
    UniqueNames
    TableEntriesAreCurrent
    NamedObjectsAreFound
    AbandonedTablesAreEmpty
PROPERTIES
    MovesKeepNames
    ImplementsNameSpace
