SPECIFICATION FairSpecGetLogs
CONSTANTS
    Chunk = 3
    Wanted = 2
    MaxSize = 10
    Launches = {a, b}
    Other = other
    Stale = stale
    MaxPid = 4
    StalePids = {2, 5}
    MaxHour = 2
    Powers = {3, 9}
CHECK_DEADLOCK FALSE
INVARIANTS
    TypeOK
    ChunksTile
    LinesInOrder
    CutOnlyAtChunks
    ReadsBounded
    OwnLaunchLog
PROPERTIES
    ReadEnds
    ImplementsReader
