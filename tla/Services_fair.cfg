SPECIFICATION ServicesSpec
CONSTANTS
    Tracker = {1, 2, 3}
    Families <- MCFamilies
    Names <- MCNames
    MaxCleanupFaults = 1
    MaxReopened = 1
    Author = {"a1", "a2", "a3"}
    IssueOfAuthor <- MCIssues
    MaxEdits = 2
    MaxExpiries = 1
    MaxReplacements = 1
    Batches <- MCBatches
    Keeps = {1, 2}
    MaxIterations = 3
    MaxStepErrors = 1
    MaxErrors = 1
    MaxCycles = 1
    MaxTurns = 3
    MaxBuildFaults = 2
    MaxBuildCancels = 2
    Machine = {"r1", "r2"}
    Holder <- MCHolder
    Host = {"h1"}
    NoHost = "none"
    MaxFarmFaults = 1
    Commits = {"c1", "c2"}
    Histories <- MCHistories
    MaxInheritBuilds = 2
    Fixer = {"f1", "f2"}
    Versions <- MCVersions
    MaxRemoteFaults = 1
    MaxRemoteAttempts = 2
    MaxMerges = 1
    Space = {"w1", "w2"}
    Marked = {"w1"}
    CloneFile = {"x", "y"}
    Cleaner = {"c1"}
    MaxRuns = 2
INVARIANTS SecretSafe InheritanceSound CloneSound
PROPERTIES
    TrackersSound  TitleAgreed HistorySound  RemotesSound
    ServicesSettle
CHECK_DEADLOCK FALSE
