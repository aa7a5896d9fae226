SPECIFICATION Spec
CONSTANTS
    a = a
    b = b
    RequestId <- MCRequestId
    MaxJobs = 2
    MaxPendingPlans = 1
    PlanLength = 2
    MaxUnexpected = 2
    Modes = {"local", "askModel", "askScreenshot", "unavailable"}
    ReuseIds = TRUE
    MixUploads = TRUE
SYMMETRY Symmetry
VIEW WithoutBookkeeping
CHECK_DEADLOCK FALSE
INVARIANTS
    PausedIsIdle
    OnlyOwnedAutomationRuns
    AtMostOneLateAction
    PlanRunsOnce
    CardIsAnswerable
