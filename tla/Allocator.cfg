SPECIFICATION AllocSpec
CONSTANTS
    TotalPages = 3
    PageSize = 4
    SizeModulus = 64
    MaxPageCount = 3
    MaxGeneration = 3
    Domains = {10, 11}
    Sizes = {0, 1, 4, 5, 12, 13, 16}
INVARIANTS
    SpansIntact
    
PROPERTY
    ImplementsOwnership
