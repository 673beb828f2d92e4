SPECIFICATION StreamFairSpec
CONSTANTS
  NoAlarm = NoAlarm
  Heartbeat = 1
  Minute = 2
  Quiet = 2
  Session = 1
  BackoffFirst = 1
  BusyTries = 1
  MaxDrops = 1
  MaxHeight = 2
INVARIANT StreamTypeOK
PROPERTY SkippedTickWasHeard
PROPERTY StoreCatchesUp
PROPERTY StreamComesBack
