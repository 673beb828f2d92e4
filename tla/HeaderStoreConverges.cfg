SPECIFICATION FairSpec
CONSTANTS
    g = g
    a1 = a1
    a2 = a2
    b1 = b1
    b2 = b2
    b3 = b3
    Genesis = g
    Checkpoint = {}
    None = None
    WalkLimit = 3
    Backfill = 2
    MaxActivation = 3
    ChunkSize = 2
    RepairWindow = 2
    RepairBatch = 1
    LiveGap = 1
    Header <- ForkHeaders
    Parent <- ForkTree
    Weight <- ForkWeights
    Best = b3
    Window = 1
    MaxRun = 3
    MaxCuts = 1
    Bootstrapped = TRUE
    CutBulk = FALSE
    BackfillAnywhere = FALSE
PROPERTIES
    Converges
