SPECIFICATION Spec
CONSTANTS
  a = a
  b = b
  c = c
  Tickers = {a, b, c}
  Rankings <- ThreeRankings
  TargetN = 2
  Scales = {2, 4}
  StartCash = 1
  Contribution = 2
  MaxMoney = 20
  Depositors = {}
  LastMonth = 2
  MaxRuns = 2
  MaxMoves = 1
  MaxCrashes = 0
INVARIANTS
  RerunTradesNothing
  BestRankFirst
  VolCapHeld
PROPERTIES
  ImplementsBook
