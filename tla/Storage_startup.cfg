SPECIFICATION StartupSpec
CONSTANTS
    plain = plain
    other = other
    legacy = legacy
    k1 = k1
    k2 = k2
    Body = {plain, other, legacy}
    Key = {k1, k2}
    NoKey = nokey
    Uses <- UsesMost
    DefaultBody = plain
    LegacyBody = legacy
    MigratedBody = plain
    NoFile = nofile
    NoConfig = noconfig
    NoRequest = 0
    Drafts <- TwoDrafts
    InitialDisk <- Disks
    MaxSaves = 2
    MaxCrashes = 1
    MaxEvents = 2
    SaveEarly = TRUE
    t1 = t1
    t2 = t2
    a = a
    b = b
    m = m
    n = n
    Transfer = {t1, t2}
    Requests <- Asks
    InitialFiles <- FilesBefore
    Artifacts <- TwoArtifacts
    Model = {m, n}
    Slots = {1, 2}
    MaxDeletes = 1
    MaxStops = 1
    Program = {p, q}
    Listed = {x, y}
    Hashed = {x}
    Archives = {TRUE, FALSE}
    MaxStarts = 3
    QueueRoom = 2
    RotateAfter = 1
    MaxRecords = 2
    MaxLogs = 2
    Others = {"other"}
    MaxChanges = 2
    Memory <- SomeMemories
    Folded <- LowerCase
    Bad = "empty"
    MaxMemories = 2
    Found <- SomeFiles
    TokenSizes = {1, 3}
    Budget = 6
    KeepMessages = 2
    Fewest = 3
    SummaryRoom = 3
    Pictures = {"x", "y"}
    MaxPictures = 2
    MaxMessages = 7
CHECK_DEADLOCK FALSE
INVARIANT SavedIsInForce
