SPECIFICATION FairSpec
CONSTANTS
  Users = {"user"}
  TradingDays = {1, 2}
  RebalanceDays = {2}
  LastDay = 3
  MaxRequests = 3
  MaxCrashes = 1
INVARIANT EveryStageReached
PROPERTY BackfillAllEnds
