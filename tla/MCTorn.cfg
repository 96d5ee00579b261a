SPECIFICATION Spec
CONSTANTS
    NumVolumes = 1
    NumLbns = 2
    NumInodes = 3
    NumFree = 2
    NumSyncers = 1
    NumBalloons = 1
    NumFlushers = 1
    FreeMin = 1
    FlushLwm = 1
    FlushBatch = 2
    SyncLwm = 1
    MaxWrites = 4
INVARIANT WritesNeverTorn
CHECK_DEADLOCK FALSE
