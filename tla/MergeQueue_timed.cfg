SPECIFICATION FairSpec
CONSTANTS
    p1 = p1
    w1 = w1
    w2 = w2
    NoPair = NoPair
    Pair <- OnePair
    Worker <- TwoWorkers
    Modes <- AutoOnly
    Threshold = 3
    Interval = 1
    SocketTimeout = 0
    MaxJobs = 2
    MaxFaults = 1
    MaxClock = 7
    LastFault = 3
INVARIANTS NoConcurrentProcessing SubmissionCovered
PROPERTY EveryJobCompletes
