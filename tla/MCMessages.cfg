\* The paths of what is received, each on its own: one radio, pre-buffers of none and two
\* samples, two files for the recorder, a few of everything for the other parts.
SPECIFICATION SumSpec
CONSTANTS
    Radios = {"A"}
    RingSizes = {0, 2}
    MaxBlocks = 4
    MaxFiles = 2
    Ids = {1, 2}
    KMax = 2
    MaxMessages = 3
    Clients = {"k1", "k2"}
    MaxToggles = 1
    Channels = {"c1"}
    MessageIds = {1, 2}
    PktNos = {1, 2, 3}
    Mes = {"m1"}
    Stations = {1}
    MaxPackets = 4
    Workers = {"w1", "w2"}
    BufferSize = 5
    MaxAge = 2
    OldFiles = {2, 3, 4, 6, 7, 8, 11}
    StartTime = 14
    EndTime = 15
    MaxRows = 2
    Aircraft = {1, 2}
    HeardByB = {1}
    Batch = 1
    SeenFor = 2
    GoodFor = 1
    Every = 1
    Retry = 2
    LastTick = 2
INVARIANTS
    HeaderCountsData
    OneSeam
    NoBleed
    
    FeedAccountsForEveryMessage
    
    PartsAreReassembled
    ArchiveIsKept
    MapIsCurrent
\* Every part is bounded, and the program ends.
CHECK_DEADLOCK FALSE
