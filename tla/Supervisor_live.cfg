SPECIFICATION FairSpec
CONSTANTS
    d1 = d1
    d2 = d2
    d3 = d3
    r1 = r1
    r2 = r2
    Timer = timer
    Saver = saver
    Nobody = nobody
    Daemon <- TwoDaemons
    Request <- TwoRequests
    MaxFailures = 2
    HealthLimit = 2
    MaxUpdates = 1
CHECK_DEADLOCK FALSE
INVARIANTS
    DaemonsAreSingle
    ClientRunsCommittedConfig
    FailureChargedOnce
PROPERTIES
    ServiceReturns
