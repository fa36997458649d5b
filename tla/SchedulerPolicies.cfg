SPECIFICATION Spec
CONSTANTS
    TaskKinds <- MCOneKind
    MaxTasks = 3
    MaxTaskGeneration = 1
    Weights = {2}
    MaxWeight = 4
    BaseWeight = 1
    RequestedSlices = {1}
    DefaultSlice = 1
    ScanGenerations = 1
    Scale = 4
    Policies = {"RR", "EEVDF"}
    PreemptLimits = {0}
    MaxSleep = 0
    StepCount = 1
    MaxVirtualTime = 8
INVARIANTS
    NeverFarAhead
PROPERTIES
    VirtualTimeMonotonic
    TurnComesNearer
