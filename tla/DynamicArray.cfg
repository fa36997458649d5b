SPECIFICATION Spec
CONSTANTS
    Items = {a, b}
    NULL = NULL
    Garbage = Garbage
    InitialCapacity = 2
    GrowthFactor = 2
    MaxCapacity = 9
INVARIANTS
    ArrayTypeOK
PROPERTIES
    ImplementsDeque
