SPECIFICATION FairSpec
CONSTANTS
  Tickers = {t1, t2}
  PickSets = {{t1}, {t1, t2}}
  Depositors = {web}
  StartCash = 1
  Contribution = 2
  LastMonth = 2
  MaxRuns = 3
  MaxCrashes = 1
INVARIANTS
  MoneyConserved
  SnapshotIsWhole
  RebalanceOncePerMonth
PROPERTIES
  BackfillReplaces
  DroppedNamesSold
  AllowanceArrives
