SPECIFICATION FairSpec
CONSTANTS
    j1 = j1
    j2 = j2
    health = health
    NoCall = nocall
    Job <- TwoJobs
    Control = {}
    MaxPending = 2
    JobSlots = 2
    ServedJobs = 1
    ServedBytes = 2
    ReplyCap = 2
CHECK_DEADLOCK FALSE
PROPERTIES
    EntriesReturn
    ImplementsCalls
