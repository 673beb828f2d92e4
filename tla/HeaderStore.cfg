SPECIFICATION FairJournalSpec
CONSTANTS
    g = g
    a1 = a1
    a2 = a2
    a3 = a3
    b1 = b1
    b2 = b2
    b3 = b3
    c2 = c2
    Genesis = g
    Checkpoint = {}
    None = None
    WalkLimit = 3
    Backfill = 2
    MaxActivation = 3
    ChunkSize = 1
    RepairWindow = 2
    RepairBatch = 1
    LiveGap = 1
    Header <- WideHeaders
    Parent <- WideTree
    Weight <- Weights
    Best = a3
    Window = 1
    MaxRun = 2
    MaxCuts = 1
    Bootstrapped = TRUE
    CutBulk = FALSE
    BackfillAnywhere = FALSE
INVARIANTS
    TypeOK
    ActiveIsTheTipsChain
    ForkCoversEveryChange
    StoredInactiveIsInactive
    JournalSaysTheTip
    HeldTipsAreActive
PROPERTIES
    TipNeverLosesWork
    ServesOneChain
    HonestBranchIsServed
