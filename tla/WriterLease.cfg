SPECIFICATION Spec
CONSTANTS
    w1 = w1
    w2 = w2
    w3 = w3
    Writer <- ThreeWriters
    Pass <- TwoPasses
    None = None
    Term = 1
    MsPerS = 2
    FaultyTake = TRUE
CHECK_DEADLOCK FALSE
INVARIANTS
    TypeOK
    HolderKeepsItsTerm
    StampedPassWasNeverRefused
PROPERTIES
    HoldsNeverInterleave
    GivesTurns
    EveryPassGetsIn
