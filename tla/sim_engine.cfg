SPECIFICATION Spec
CONSTANTS
  a = a
  b = b
  Tickers = {a, b}
  FloorPct = 40
  PositionPct = 60
  MaxPositions = 1
  RelaxedLimit = 1
  Strategies = {"hybrid", "llm"}
  Markets <- AbMarkets
  Replies <- AbReplies
  ChatReplies <- AbChats
  StartCash = 0
  Allowance = 4
  Interval = 2
  WeeksAMonth = 2
  Since = {1}
  FirstWeek = 4
  LastWeek = 5
  MaxEvents = 2
INVARIANTS
  MoneyConserved
  EngineKeepsCap
  ReviewsSpaced
  MarkersTellPayments
CONSTRAINT UntilRaced
