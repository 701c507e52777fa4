SPECIFICATION BenchSpec
CONSTANTS
    Interfaces <- MCInterfaces
    Aliases <- MCAliases
    Aggregates <- MCAggregates
    Functions <- MCFunctions
    Programs <- MCPrograms
    Ground <- MCGround
    MaxWork = 12
    MaxNesting = 8
    ChunkSize = 2
    Budget = 20
    MaxUsize = 255
    Policies <- MCPolicies
    UnsafeStructs <- MCUnsafe
    Visible <- MCVisible
    Reflected <- MCReflected
INVARIANTS
    ImplsJustified
    DeterminedUnique
    MonoClosed
    LayoutOrder
    ReprAgrees
    RoundTrip
    ReflectionGuarded
CHECK_DEADLOCK FALSE
