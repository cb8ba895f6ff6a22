SPECIFICATION Spec
CONSTANTS
  None = None
  c1 = c1
  SPX = SPX
  g1 = g1
  OptionIds <- MCOptionIds
  Tickers <- MCTickers
  Quotes <- MCOneQuote
  Greeks <- MCNoGreeks
  MinuteTicks = 1
  GraceTicks = 1
  MaxTime = 3
  MaxEvents = 2
  MaxLives = 1
PROPERTIES
  GracefulStopLosesNothing
CHECK_DEADLOCK FALSE
