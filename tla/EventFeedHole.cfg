SPECIFICATION Spec
CONSTANTS
  w1 = w1
  w2 = w2
  t1 = t1
  r1 = r1
  None = None
  Worker <- TwoWorkers
  Cron <- TwoWorkers
  Target <- OneTarget
  Reader <- OneReader
  Casts <- OutboxAlone
  Budget = 2
  PageSize = 1
  RetainLimit = 2
  StreamBound = 2
  MaxCrashes = 0
SYMMETRY WorkerSymmetry
INVARIANT NoTargetSkips
