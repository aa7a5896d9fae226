SPECIFICATION MCSpec
CONSTANTS
    j1 = j1
    j2 = j2
    server1 = server1
    server2 = server2
    child1 = child1
    child2 = child2
    NoServer = noserver
    NoChild = nochild
    NoConfig = 0
    Job <- TwoJobs
    Server <- TwoServers
    Child <- TwoChildren
    Config <- TwoConfigs
    WithBackup <- SecondConfig
    RuntimeModel = {qwen}
    Budget = 3
    Threshold = 2
    OpenFor = 2
SYMMETRY Symmetry
CONSTRAINT Focus
CHECK_DEADLOCK FALSE
INVARIANTS
    ProcessesAreOwned
    RepliesAreFresh
    OnlyOwnFailures
    HealthIsCurrent
PROPERTIES
    FailoverHasHalf
