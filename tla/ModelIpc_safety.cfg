SPECIFICATION Spec
CONSTANTS
    j1 = j1
    j2 = j2
    health = health
    NoCall = nocall
    Job <- TwoJobs
    Control <- OneControl
    MaxPending = 2
    JobSlots = 1
    ServedJobs = 1
    ServedBytes = 1
    ReplyCap = 2
SYMMETRY Symmetry
CHECK_DEADLOCK FALSE
INVARIANTS
    AnswersAreGenuine
    AdmissionIsExact
PROPERTIES
    CancelledNeverStarts
