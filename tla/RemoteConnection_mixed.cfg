SPECIFICATION Spec
CONSTANTS
    a = a
    b = b
    RequestId <- MCRequestId
    MaxJobs = 2
    MaxPendingPlans = 1
    PlanLength = 1
    MaxUnexpected = 2
    Modes = {"local", "askModel", "askScreenshot", "unavailable"}
    ReuseIds = FALSE
    MixUploads = TRUE
CHECK_DEADLOCK FALSE
PROPERTY RequestsAreNotDisplaced
