SPECIFICATION Spec
CONSTANTS
    CapTableSize = 1
    MaxGeneration = 2
    Services = {1, 2}
    Operations = {3, 4}
    ReadOperation = 3
    WriteOperation = 4
    Resources = {1}
    PermissionBits = {"READ", "WRITE"}
    UnknownBit = "UNKNOWN"
    BufferCount = 1
    BufferSize = 1
INVARIANTS
    NoResidue
    RevokedBufferStaysDead
PROPERTIES
    
    OwnerDecides
