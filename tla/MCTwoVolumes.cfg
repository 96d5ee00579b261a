SPECIFICATION FairSpec
CONSTANTS
    NumVolumes = 2
    NumLbns = 2
    NumInodes = 2
    NumFree = 2
    NumSyncers = 1
    NumBalloons = 1
    NumFlushers = 1
    FreeMin = 1
    FlushLwm = 1
    FlushBatch = 1
    SyncLwm = 1
    MaxWrites = 2
INVARIANTS
    BlocksArePermuted
    InOnePlace
PROPERTY CallsReturnOrStarve
CHECK_DEADLOCK FALSE
