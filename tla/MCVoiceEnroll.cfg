SPECIFICATION Spec
CONSTANTS
  r1 = r1
  r2 = r2
  e1 = e1
  i1 = i1
  i2 = i2
  n1 = n1
  n2 = n2
  n3 = n3
  s1 = s1
  s2 = s2
  Requests <- MCRequests
  Earlier <- MCEarlier
  Owner <- MCOneOwner
  Names <- MCNames
  Sample <- MCSample
  LeaseOwner <- MCLeaseOwner
  PerInstall = 2
  Ceiling = 3
CHECK_DEADLOCK FALSE
INVARIANT InventoryHeld
INVARIANT RegistrationIsCharged
INVARIANT NoSilentOrphan
INVARIANT RecordedVoiceExists
INVARIANT SampleSpent
