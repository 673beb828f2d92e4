SPECIFICATION Spec
CONSTANTS
  c1 = c1
  c2 = c2
  q1 = q1
  None = None
  Colo <- TwoColos
  Key <- AboutTheLine
  Request <- OneRequest
  MaxHeight = 5
  Spans <- Runs
  Stops = {4, 5}
  MaxKept = 2
  MaxWrites = 2
  MaxFaults = 1
  EdgeDepth = 1
  ReorgBound = 2
  MaxSteps = 2
  MaxShorter = 1
  MaxActivation = 2
  LinkWindow = 2
  Bucket = 2
  BodyTags = 2
SYMMETRY ColoSymmetry
INVARIANTS
  OnlyAnActivationOverturns
PROPERTIES
  PurgeTakesWhatWasKept
CHECK_DEADLOCK FALSE
