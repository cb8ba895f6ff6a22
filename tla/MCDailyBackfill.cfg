SPECIFICATION Spec
CONSTANTS
  None = None
  c1 = c1
  SPX = SPX
  Programs <- MCPrograms
  Options <- MCOptions
  Tickers <- MCTickers
  Listed <- MCListed
  Expires <- MCExpires
  RunTimes <- MCRunTimes
  Sessions <- MCSessions
  Degraded <- MCDegraded
  Lookback = 2
  Retention = 2
  Concurrency = 2
  MaxTime = 2
INVARIANTS
  TypeOK
  GapClosed
  Reconciled
PROPERTIES
  SchedulerKeepsRunning
CHECK_DEADLOCK FALSE
