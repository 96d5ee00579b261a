SPECIFICATION CloseSpec
CONSTANTS
    NumVolumes = 1
    NumLbns = 2
    NumInodes = 2
    NumFree = 2
    NumSyncers = 1
    NumBalloons = 1
    NumFlushers = 2
    FreeMin = 1
    FlushLwm = 2
    FlushBatch = 2
    SyncLwm = 1
    MaxWrites = 4
INVARIANTS
    WritesSurviveCrash
    CloseIsDurable
    CloseFindsVolumes
PROPERTY OnlyAFullQueueHangsClose
CHECK_DEADLOCK FALSE
