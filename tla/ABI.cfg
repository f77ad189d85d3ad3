CONSTANTS
    Names <- SourceNames
    Numbers <- Numerals
    Anonymous <- Unnamed
    Protocols = {}
    Functions <- AllFunctions
    Several <- SeveralMethods
    Compiled <- AllCompiled
    Combined <- CompiledMethods
    Identifier <- Identifiers
    MaxFunctions = 3
    MaxClasses = 3
    Undefined = Undefined
SPECIFICATION Loading
INVARIANTS
    RoundTrip
    MethodNamesTellSignatures
    StopsAreExplained
    NamedOnce
PROPERTIES
    ClassesAreScopes
CHECK_DEADLOCK FALSE
