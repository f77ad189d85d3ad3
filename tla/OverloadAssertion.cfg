CONSTANTS
    Interfaces = {I1, I2}
    MethodNames = {1, 2}
    ClassCount = 2
    MaxMethods = 2
    Unnamed = Unnamed
    Overloads = TRUE
    UnnamedClasses = FALSE
SPECIFICATION Spec
CHECK_DEADLOCK FALSE
INVARIANTS
    InsertedClassImplements
