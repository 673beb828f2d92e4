SPECIFICATION JournalSpec
CONSTANTS
    g = g
    a1 = a1
    a2 = a2
    a3 = a3
    b1 = b1
    b2 = b2
    b3 = b3
    c2 = c2
    Genesis = g
    Checkpoint = {b3}
    None = None
    WalkLimit = 1
    Backfill = 2
    MaxActivation = 3
    ChunkSize = 2
    RepairWindow = 2
    RepairBatch = 1
    LiveGap = 1
    Header <- HoleHeaders
    Parent <- HoleTree
    Weight <- Unit
    Best = b3
    Window = 2
    MaxRun = 1
    MaxCuts = 1
    Bootstrapped = FALSE
    CutBulk = TRUE
    BackfillAnywhere = TRUE
INVARIANTS
    WorkIsNeverOverstated
PROPERTIES
    EveryEventIsWhole
