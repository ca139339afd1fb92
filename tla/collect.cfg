SPECIFICATION CollectSpec
CONSTANTS
    a = a
    b = b
    c = c
    r = r
    None = None
    NoName = None
    Label = {a, b, c}
    Requirement = {r}
    FixtureName <- Names
    Segment <- Segments
    Registries <- MCRegistries
    Programs <- MCPrograms
    Dynamics <- MCDynamics
    ModuleDefaults <- MCDefaults
    Filters <- MCFilters
INVARIANTS
    InheritanceIsTheClosure
    DumpPredictsCoordination
PROPERTY RunnableWasAvailable
