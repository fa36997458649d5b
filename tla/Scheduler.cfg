SPECIFICATION Spec
CONSTANTS
    TaskKinds <- MCKinds
    MaxTasks = 2
    MaxTaskGeneration = 2
    Weights = {}
    MaxWeight = 4
    BaseWeight = 1
    RequestedSlices = {}
    DefaultSlice = 1
    ScanGenerations = 1
    Scale = 2
    Policies = {"RR"}
    PreemptLimits = {0}
    MaxSleep = 1
    StepCount = 2
    MaxVirtualTime = 1
INVARIANTS
    PreemptionKeepsContext
    RunningIsCurrent
    
