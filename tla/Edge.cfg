SPECIFICATION EdgeSpec
CONSTANTS
    h1 = h1
    h2 = h2
    c1 = c1
    c2 = c2
    NoHost = nohost
    Networks <- SomeNetworks
    Ttl = 1
    MaxCodes = 3
    Message = {1, 3, 4, 5, 6, 7}
    Size <- SizeOf
    MaxMessage = 6
    MaxPlain = 3
    Header = 1
    Tag = 1
    Id = {1, 2}
    MaxSent = 2
    Connection = {c1, c2}
    Address = {p, q}
    Window = 2
    MaxFailures = 2
    MaxRequests = 2
    MaxTracked = 1
    MaxTime = 2
    Uploads = {1, 2}
    Sizes = {0, 1, 2, 4, 6}
    MaxChunk = 4
    MaxBytes = 6
    MaxPieces = 3
    Steps = {1, 2, 3, 6, 7}
    Parts = 2
    BufferSizes = {0, 1, 2, 3}
    Capacity = 2
    MaxInput = 7
    StartFrames = 2
    EndFrames = 3
    MaxFrames = 8
CHECK_DEADLOCK FALSE
INVARIANTS
    PageAndNetworkAreCurrent
    LimitsHold
    OvertakenNeverPairs
    SoundIsWhole
PROPERTIES
    ImplementsFifo
    AnnouncementEnds
