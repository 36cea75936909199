SPECIFICATION Spec
CONSTANTS
  a = a
  b = b
  Tickers = {a, b}
  FloorPct = 40
  PositionPct = 60
  MaxPositions = 2
  RelaxedLimit = 1
  Strategies = {"hybrid"}
  Markets <- MarketOfA
  Replies <- AdditionOfB
  ChatReplies <- AbChats
  StartCash = 0
  Allowance = 4
  Interval = 2
  WeeksAMonth = 2
  Since = {1}
  FirstWeek = 1
  LastWeek = 3
  MaxEvents = 0
PROPERTY ReviewKeepsFloor
