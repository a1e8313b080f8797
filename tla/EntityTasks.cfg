CONSTANTS
    t1 = t1
    t2 = t2
    Task = {t1, t2}
    Op <- Operation
    Program <- ProgramOf
    Loose <- ReadsAndTransfers
    Unfreed <- UnfreedBy
    Workloads <- MCWorkloads
    MaxHandle = 2
SPECIFICATION Spec
INVARIANTS OpenHandleLives StrayNeedsClose ObjectsAreFreed
PROPERTIES KeepsPromise TaskEnds
CHECK_DEADLOCK FALSE
