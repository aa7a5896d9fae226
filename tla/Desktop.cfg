SPECIFICATION DesktopSpec
CONSTANTS
    e1 = e1
    e2 = e2
    ctrl = ctrl
    Run = {e1, e2}
    NoRun = norun
    Modifier = {ctrl}
    Plan <- SomePlans
    MaxTouches = 1
    Request = {r1, r2}
    NoFrame = noframe
    MaxPages = 4
    Spans = {1, 2, 3, 10, 30}
    Images = {1, 5}
    Before = {0, 7}
    Parts = 4
    here = here
    moved = moved
    other = other
    Content = {here, moved, other}
    NoContent = nocontent
    Point = {1, 2}
    Nodes <- SomeNodes
    TestWindow = {here, moved}
    MaxChanges = 3
    l1 = l1
    l2 = l2
    l3 = l3
    Call = {l1, l2, l3}
    Tasks <- SomeTasks
    Workers = 2
    Settings <- SomeSettings
    MaxTokens = 1
    Threads = {t1, t2}
    Faulting = {t2}
    None = none
    MaxCaptures = 2
    Rounds = {3, 7}
    MaxProbes = 4
CHECK_DEADLOCK FALSE
INVARIANTS
    ActionsAreContained
    PicturesArePrivate
    LocalWorkIsBounded
    FailuresAreWatched
PROPERTIES
    ExecutionsReturn
