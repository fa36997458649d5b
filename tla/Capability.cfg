SPECIFICATION CapSpec
CONSTANTS
    CapTableSize = 2
    MaxGeneration = 2
    Services = {1, 2}
    Operations = {1}
    Resources = {1}
    PermissionBits = {"CALL"}
    UnknownBit = "UNKNOWN"
INVARIANTS
    CapTypeOK
    FreeListExact
    RevokedStaysDead
    CheckExact
PROPERTY ImplementsAuthority
