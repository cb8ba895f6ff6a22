SPECIFICATION FairSpec
CONSTANTS
  None = None
  c1 = c1
  SPX = SPX
  g1 = g1
  OptionIds <- MCOptionIds
  Tickers <- MCTickers
  Quotes <- MCQuotes
  Greeks <- MCGreeks
  MinuteTicks = 2
  GraceTicks = 1
  MaxTime = 3
  MaxEvents = 2
  MaxLives = 2
INVARIANTS
  TypeOK
  Accounted
  BarsFaithful
  WholeMinute
  RetryHarmless
PROPERTIES
  RowsImmutable
  ImplementsLedger
  UnderlyingSettles
CHECK_DEADLOCK FALSE
