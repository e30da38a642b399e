SPECIFICATION Spec
CONSTANTS
  Requests = {r1, r2}
  Installs = {i1, i2}
  Providers <- MCProviders
  Days <- MCDays
  Months <- MCMonths
  MonthOf <- MCMonthOf
  Plans <- MCPlans
  LimitSets <- MCLimitSets
  MaxInt = 4
  None = None
SYMMETRY MCSymmetry
INVARIANTS
  TypeOK
  SpendConserved
  UsageConserved
  NeverCorrupt
  WalletNotOversold
PROPERTIES
  OneTerminalWinner
  ImplementsWallet
