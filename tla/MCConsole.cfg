SPECIFICATION Spec
CONSTANTS
  None = None
  MaxCalls = 4
  Capacity = 3
  Installs = 2
  Registered <- MCRegistered
  PageSize = 1
  Earlier <- MCEarlier
  Env <- MCEnv
  Bounds <- MCBounds
  Priced = {1, 2}
  MaxWallet = 3
  MaxRestarts = 1
  Drafts <- MCDrafts
  Empty <- MCEmpty
  Routes = {"installs", "audit", "config", "export"}
CHECK_DEADLOCK FALSE
INVARIANTS
  BusyHasCause
  ReasonMatchesTarget
  CalmUseShowsTruth
  EffectsAreAudited
  RestartKeepsConfig
  RingWindowsLog
