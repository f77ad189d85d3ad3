CONSTANTS
    EntryPoints = {e1, e2}
    Size = 2
    Texts = {"x"}
    Files <- MCFiles
    MaxNodes = 6
    MaxLooseNodes = 3
    MaxTuples = 2
SYMMETRY MCSymmetry
SPECIFICATION Spec
CHECK_DEADLOCK FALSE
INVARIANTS
    DetailsMatchNodes
    PositionsStay
    CarefulUseIsSafe
PROPERTIES
    DescribingKeepsNames
