SPECIFICATION El0Spec
CONSTANTS
    CapTableSize = 2
    MaxGeneration = 1
    Services = {1, 2, 3}
    Operations = {1}
    Resources = {1}
    PermissionBits = {"CALL", "CRITICAL"}
    UnknownBit = "UNKNOWN"
    ServiceTableSize = 4
    DispatchLimit = 2
    LayerL4 = 1
    DomainIds = {100, 200}
    EntryPoints = {e1}
    NULL = NULL
    ArchDomains <- MCArchDomains
    ContextMax = 2
    BootServices <- MCBootServices
    KernelGrants <- MCKernelGrants
    CallRequests <- MCCallRequests
CHECK_DEADLOCK FALSE
INVARIANTS
    El0TypeOK
    IdentityIsCodes
    StackIsCallChain
PROPERTY El0CallsAuthorized
