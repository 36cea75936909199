SPECIFICATION FairSpec
CONSTANTS
  a = a
  b = b
  c = c
  Tickers = {a, b}
  Rankings <- TwoRankings
  TargetN = 2
  Scales = {4}
  StartCash = 1
  Contribution = 2
  MaxMoney = 20
  Depositors = {web}
  LastMonth = 2
  MaxRuns = 2
  MaxMoves = 0
  MaxCrashes = 1
INVARIANTS
  MoneyConserved
  MarkerCoversRows
  DepositOncePerMonth
PROPERTIES
  AllowanceArrives
