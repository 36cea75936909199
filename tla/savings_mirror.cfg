SPECIFICATION FairSpec
CONSTANTS
  Tickers = {t1}
  PickSets = {{p1}, {p1, p2}}
  LastDay = 1
  MonthOf <- TwoDayMonthOf
  DayOfMonth <- TwoDayDayOfMonth
  MonthLength <- TwoDayMonthLength
  PlanDays = {1}
  Amounts = {2}
  Cashes = {2}
  Transfers = {0}
  Rates = {0}
  Seeds <- SomeSeeds
  InterestScale = 2
  MaxOps = 3
  MaxAborts = 0
INVARIANTS
  MirrorTracksPositions
  MirrorAddsUp
  ClosedTrackerIsEmpty
PROPERTIES
  ParkedGetsPlaced
