SPECIFICATION StructuresSpec
CONSTANTS
    TreeKeys = {1, 2, 3, 4, 5, 6, 7}
    ListThreads = {t1, t2}
    MaxData = 3
    HashNodes = {n1, n2, n3}
    NilNode = nil
    MaxCount = 5
    Clients = {c1, c2, c3}
    Vids = {v1, v2, v3}
    FreeVid = none
    MaxVolumes = 2
    BlockSize = 4
    SizeMod = 64
    LbnMod = 8
    MaxOffset = 40
    MaxBytes = 20
    MaxRounds = 9
INVARIANTS
    StaysBalanced
    LiveNodesAreLinked
    DenialsAreRight
    ListIsQueue
    OneEntryPerVolume
    EntryIsComplete
    InUseIsComplete
    WritesItsBlocks
    ReturnsCount
    StaysInBlock
PROPERTIES
    ImplementsIndex
    RemovalIsFinal
CHECK_DEADLOCK FALSE
