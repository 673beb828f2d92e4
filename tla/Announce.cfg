SPECIFICATION FairSpec
CONSTANTS
    a1 = a1
    a2 = a2
    t1 = t1
    t2 = t2
    None = None
    Announcer <- TwoAnnouncers
    Target <- TwoTargets
    Casts <- EitherCast
    StuckAfter = 1
    MaxHeight = 2
    MaxMoves = 2
    MaxCrashes = 1
INVARIANTS
    OneAnnouncerInFlight
PROPERTIES
    ClearedForkWasCarried
    DeliveryNeverSinks
    EveryTargetIsTold
