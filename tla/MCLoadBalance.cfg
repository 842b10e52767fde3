CONSTANTS
    MaxCores = 3
    MaxThreads = 2
    MaxTasks = 2
    None = None
SPECIFICATION Spec
INVARIANTS
    AddToLeastLoaded
    StealFindsWaitingTask
