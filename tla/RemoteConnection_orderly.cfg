SPECIFICATION FairSpec
CONSTANTS
    a = a
    b = b
    RequestId <- MCRequestId
    MaxJobs = 2
    MaxPendingPlans = 1
    PlanLength = 1
    MaxUnexpected = 1
    Modes = {"local", "askModel"}
    ReuseIds = FALSE
    MixUploads = FALSE
CHECK_DEADLOCK FALSE
INVARIANTS
    RunsOnlyReviewedPlans
    HonestReport
    NothingForgotten
PROPERTIES
    CancelledWorkStaysCancelled
    RequestsSettle
    RunsSettle
