SPECIFICATION FairMachine
CONSTANTS
    MaxTasks = 3
    MaxTaskGeneration = 1
    TaskKinds <- MCOneKind
    Weights = {}
    MaxWeight = 4
    BaseWeight = 1
    RequestedSlices = {}
    DefaultSlice = 1
    ScanGenerations = 1
    Scale = 4
    Policies = {"RR"}
    PreemptLimits = {0, 2}
    MaxSleep = 1
    StepCount = 1
    MaxVirtualTime = 1
CHECK_DEADLOCK FALSE

    
PROPERTIES
    ExpiryIsServed
    ReadyTaskRuns
    SleeperWakes
