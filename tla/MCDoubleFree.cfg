SPECIFICATION Spec
CONSTANTS
    NumVolumes = 1
    NumLbns = 2
    NumInodes = 3
    NumFree = 1
    NumSyncers = 1
    NumBalloons = 2
    NumFlushers = 1
    FreeMin = 1
    FlushLwm = 2
    FlushBatch = 1
    SyncLwm = 1
    MaxWrites = 6
INVARIANT FreesWhatItInvalidates
CHECK_DEADLOCK FALSE
