SPECIFICATION NestedSpec
CONSTANTS
    TaskKinds <- MCKinds
    MaxTasks = 2
    MaxTaskGeneration = 1
    Weights = {}
    MaxWeight = 4
    BaseWeight = 1
    RequestedSlices = {}
    DefaultSlice = 1
    ScanGenerations = 2
    Scale = 4
    Policies = {"RR"}
    PreemptLimits = {0}
    MaxSleep = 1
    StepCount = 1
    MaxVirtualTime = 1
    ContextMax = 2
    Authorized <- MCAuthorized
INVARIANT ReturnsWithinTask
