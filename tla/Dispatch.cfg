CONSTANTS
    Interfaces = {I1, I2}
    MethodNames = {1, 2}
    ClassCount = 3
    MaxMethods = 2
    Unnamed = Unnamed
    Overloads = TRUE
    UnnamedClasses = TRUE
SPECIFICATION Spec
CHECK_DEADLOCK FALSE
INVARIANTS
    DoesImplementIsInclusion
    AssertionsAreExplained
    CallsReachTheClass
    ImplementationsAreListed
PROPERTIES
    EndsLinked
