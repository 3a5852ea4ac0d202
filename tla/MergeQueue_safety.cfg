SPECIFICATION Spec
CONSTANTS
    p1 = p1
    w1 = w1
    w2 = w2
    NoPair = NoPair
    Pair <- OnePair
    Worker <- TwoWorkers
    Modes <- BothModes
    Threshold = 2
    Interval = 1
    SocketTimeout = 0
    MaxJobs = 3
    MaxFaults = 2
    MaxClock = 3
    LastFault = 3
SYMMETRY Symmetry
INVARIANTS TypeOK JobConservation ActiveRecoveryExclusive
PROPERTY LeaseRespected
