SPECIFICATION Spec
CONSTANTS
  r1 = r1
  r2 = r2
  e1 = e1
  i1 = i1
  i2 = i2
  n1 = n1
  n2 = n2
  n3 = n3
  s1 = s1
  s2 = s2
  Requests <- MCTwoRequests
  Earlier = {}
  Owner <- MCTwoOwners
  Names <- MCTwoNames
  Sample <- MCTwoSample
  LeaseOwner <- MCTwoLeases
  PerInstall = 2
  Ceiling = 1
CHECK_DEADLOCK FALSE
INVARIANT AccountCeilingHeld
