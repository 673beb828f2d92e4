SPECIFICATION FairSpec
CONSTANTS
  Hash <- CHash
  Genesis = "g"
  Parent <- CParent
  Height <- CHeight
  NoHash = "none"
  StartChains <- Apart
  Rungs <- AllThree
  Tips <- Moves
  FirstConfig <- AllThree
  Configs <- Removals
  Ticks = {1, 2}
  Ceilings = {1}
  Depth = 2
  Walk = 2
  Backfill = 1
  Cap = 1
  MaxClock = 1
  MaxMoves = 1
  MaxOddities = 1
PROPERTIES SnapshotNeverGoesBack SplitIsReal ResolvedIsOver AgreementResolves FarApartIsSaid
