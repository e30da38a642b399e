SPECIFICATION Spec
CONSTANTS
  Requests = {r1, r2}
  Speech = {r2}
  Quote = 1
INVARIANT RefusalRefunded
