SPECIFICATION Spec
CONSTANTS
  w1 = w1
  w2 = w2
  w3 = w3
  Workers = {w1, w2, w3}
  Tickers = {a}
  MaxPerMin = 2
  Budget = 3
  Minute = 2
  MaxAge = 2
  DayLength = 4
  LastTick = 7
SYMMETRY Alike
INVARIANT QuotaKept
