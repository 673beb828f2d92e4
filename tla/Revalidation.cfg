SPECIFICATION FairSpec
CONSTANTS
  r = r
  a1 = a1
  a2 = a2
  a3 = a3
  a4 = a4
  a5 = a5
  b2 = b2
  b3 = b3
  b4 = b4
  b5 = b5
  cron = cron
  admin = admin
  None = None
  Block <- Tree
  Root = r
  Parent <- ParentOf
  Height <- HeightOf
  Valid <- MinedOnA3
  Old <- OldRows
  OldTip = a3
  Checkpoint <- AtRoot
  Stepper <- Both
  Leased <- CronAlone
  Budget = 1
  WalkLimit = 2
  MaxRestarts = 1
  MaxCuts = 1
CHECK_DEADLOCK FALSE
INVARIANT RefusedIsNotServed
PROPERTY FaultIsReal
PROPERTY PassEnds
