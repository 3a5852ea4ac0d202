SPECIFICATION Spec
CONSTANTS
    NoWorker = NoWorker
    NoTask = NoTask
    Issue = {i1}
    Modular = {}
    Fetcher = {f1}
    TodoFetcher = {}
    Triager = {t1}
    Fixer = {x1}
    MaxRetries = 2
    Threshold = 1
    Resolutions = {"fix"}
    FixOutcomes = {"failed"}
    Triggers = {"todo"}
    FaultKinds = {"swallow", "flip", "read"}
    MaxTriggers = 1
    MaxFaults = 1
INVARIANT
    OneRunPerTodo
