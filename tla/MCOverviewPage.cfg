SPECIFICATION FairSpec
CONSTANTS
  None = None
  MaxCalls = 2
INVARIANTS
  OneInterval
  ResetHeldOnce
PROPERTIES
  ConfirmedOnce
  PollingHeals
