SPECIFICATION Spec
CONSTANTS
    Strategies = {"per_commit", "merged"}
    MaxBuildAttempts = 2
    MaxOriginals = 3
    MaxPeople = 1
    MaxFaults = 2
INVARIANTS  ConsolidatedSound
PROPERTY ChainFolds
CHECK_DEADLOCK FALSE
