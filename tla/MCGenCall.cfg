SPECIFICATION FairSpec
CONSTANTS
  Requests = {r1, r2}
  Speech = {r2}
  Quote = 1
INVARIANT GenerationsAccounted
PROPERTIES
  ReservationsClose
  ImplementsPaidCall
