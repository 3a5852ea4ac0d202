SPECIFICATION FairSpec
CONSTANTS
    i1 = i1
    i2 = i2
    l1 = l1
    s1 = s1
    s2 = s2
    Poller = Poller
    NoTask = NoTask
    Issue <- TwoIssues
    Urgent <- Todo
    LockId <- OneLock
    LockOf <- SameLock
    Slot <- TwoSlots
    MaxRetries = 2
    Deployments <- OneOrTwoSlots
    MaxJobs = 2
 
PROPERTY ParkedResumes
