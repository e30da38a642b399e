SPECIFICATION FairSpec
CONSTANTS
  r1 = r1
  r2 = r2
  Requests = {r1, r2}
  NGlobal = 1
  Quote = 2
  MaxBill = 3
  BillOf <- MCBillOf
INVARIANTS
  CallsAccounted
  OnlyProvenRefunds
  RefusalRefunded
PROPERTIES
  ReservationsClose
  ImplementsPaidCall
