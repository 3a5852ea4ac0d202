SPECIFICATION Spec
CONSTANTS
    i1 = i1
    i2 = i2
    p1 = p1
    p2 = p2
    NoSlot = NoSlot
    NoTask = NoTask
    Issue <- OneIssue
    Urgent <- Todo
    Pod <- OnePod
    MaxConcurrent = 3
    MaxRetries = 2
    FaultKinds <- AllFaults
    MaxTasks = 3
    MaxStops = 1
    MaxFaults = 1
SYMMETRY Symmetry
INVARIANTS MemoryBound LockExclusive 
