SPECIFICATION Spec
CONSTANTS
    NumVolumes = 1
    NumLbns = 3
    NumInodes = 3
    NumFree = 2
    NumSyncers = 2
    NumBalloons = 1
    NumFlushers = 1
    FreeMin = 1
    FlushLwm = 2
    FlushBatch = 2
    SyncLwm = 1
    MaxWrites = 4
INVARIANTS
    TypeOK
    BlocksArePermuted
    WritesSurviveCrash
    CleanIsDurable
    InUseIsHashed
    NoNullInode
    InOnePlace
    CountersMatchQueues
CHECK_DEADLOCK FALSE
