SPECIFICATION FairSpec
CONSTANTS
    NoWorker = NoWorker
    NoTask = NoTask
    Issue = {i1}
    Modular = {}
    Fetcher = {f1}
    TodoFetcher = {}
    Triager = {t1}
    Fixer = {x1}
    MaxRetries = 2
    Threshold = 1
    Resolutions = {"fix", "undispatched", "clarify", "final", "postpone", "hold", "error"}
    FixOutcomes = {"done", "refused", "error"}
    Triggers = {}
    FaultKinds = {"crash", "stop", "critical", "flip", "scan", "close"}
    MaxTriggers = 0
    MaxFaults = 1
INVARIANTS NeverWedged 
PROPERTY Settles
