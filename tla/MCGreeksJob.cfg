SPECIFICATION FairSpec
CONSTANTS
  None = None
  scheduled = scheduled
  manual = manual
  Scheduled = scheduled
  Jobs <- MCJobs
  Keys <- MCKeys
  Tickers <- MCTickers
  Minutes <- MCMinutes
  MinuteOf <- MCMinuteOf
  TickerOf <- MCTickerOf
  Expired = {}
  Arrivals <- MCArrivals
  Closes = {"good"}
  BatchSize = 2
  Limits <- MCLimits
  MaxCrashes = 1
INVARIANTS
  TypeOK
  ExaminedOnce
PROPERTIES
  NothingOverlooked
  FillSpec
  RunsEnd
  ComputedInTheEnd
