SPECIFICATION Spec
CONSTANTS
  Tickers = {t1}
  PickSets = {}
  LastDay = 3
  MonthOf <- FourDMonthOf
  DayOfMonth <- FourDDayOfMonth
  MonthLength <- FourDMonthLength
  PlanDays = {3}
  Amounts = {4}
  Cashes = {3}
  Transfers = {2}
  Rates = {0, 1}
  Seeds <- NoSeeds
  InterestScale = 2
  MaxOps = 3
  MaxAborts = 1
INVARIANTS
  PlanOncePerMonth
  TypeOK
  LedgerExplainsCash
  CashFloor
  MonthlyOnce
  EachDayAccruedOnce
PROPERTIES
  NoRetroactiveBuy
  TrueupReconciles
