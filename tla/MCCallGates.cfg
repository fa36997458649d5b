SPECIFICATION GateSpec
CONSTANTS
    CapTableSize = 1
    MaxGeneration = 1
    Services = {1, 2}
    Operations = {1}
    Resources = {1}
    PermissionBits = {"CALL", "CRITICAL"}
    UnknownBit = "UNKNOWN"
    ServiceTableSize = 3
    DispatchLimit = 2
    LayerL4 = 1
    DomainIds = {100, 200}
    EntryPoints = {e1}
    NULL = NULL
    MaxDepth = 2
    CallRequests <- MCRequests
INVARIANTS
    RegistryTypeOK
    DispatchBacked
    GateDecides
    ContextFollowsCalls
PROPERTY
    IdentityChangesThroughGates
