SPECIFICATION Spec
CONSTANTS
  a = a
  b = b
  c = c
  Tickers = {a, b, c}
  FloorPct = 20
  PositionPct = 50
  MaxPositions = 2
  RelaxedLimit = 1
  Markets <- AbcMarkets
  Replies <- Answers
  Setups <- AllSetups
  Interval = 1
  Drawdowns = {"mild", "half", "deep"}
  Trailing <- NoneOrB
  Allowance = 4
  LastWeek = 2
  WeeksAMonth = 1
  MaxMoney = 8
INVARIANTS
  BuysKeepLimits
  PositionsCapped
  VetoHolds
