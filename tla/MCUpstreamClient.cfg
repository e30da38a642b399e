SPECIFICATION FairSpec
CONSTANTS
  c1 = c1
  c2 = c2
  k1 = k1
  k2 = k2
  Calls = {c1}
  Keys = {k1, k2}
  NoKey = NoKey
  MaxAttempts = 3
  TripRun = 2
  TripMin = 3
CHECK_DEADLOCK FALSE
PROPERTY CallsReturn
INVARIANT RetriesBounded
INVARIANT UnbilledIsUnbilled
INVARIANT StreamNotCut
