SPECIFICATION FairSpec
CONSTANTS
    i1 = i1
    i2 = i2
    p1 = p1
    p2 = p2
    NoSlot = NoSlot
    NoTask = NoTask
    Issue <- TwoIssues
    Urgent <- Todo
    Pod <- TwoPods
    MaxConcurrent = 1
    MaxRetries = 2
    FaultKinds <- NoFaults
    MaxTasks = 3
    MaxStops = 1
    MaxFaults = 0
INVARIANTS  PriorityKept
PROPERTY LoopSettles
