SPECIFICATION FairSpec
CONSTANTS
    NumVolumes = 1
    NumLbns = 3
    NumInodes = 2
    NumFree = 2
    NumSyncers = 1
    NumBalloons = 1
    NumFlushers = 1
    FreeMin = 1
    FlushLwm = 2
    FlushBatch = 2
    SyncLwm = 1
    MaxWrites = 4
PROPERTIES
    InodeLocksReleased
    LockedWritesFinish
    CallsReturnOrStarve
CHECK_DEADLOCK FALSE
