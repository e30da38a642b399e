SPECIFICATION Spec
CONSTANTS
  c1 = c1
  c2 = c2
  k1 = k1
  k2 = k2
  Calls = {c1, c2}
  Keys = {k1}
  NoKey = NoKey
  MaxAttempts = 1
  TripRun = 1
  TripMin = 3
CHECK_DEADLOCK FALSE
SYMMETRY Symmetry
INVARIANT ProbeInFlight
