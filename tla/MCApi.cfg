SPECIFICATION Spec
CONSTANTS
  SPX = SPX
  C100 = C100
  MinuteTicks = 2
  Sessions <- MCSessions
  Rows <- MCRows
  AggPeriods <- MCAggPeriods
  AskedPeriods <- MCAskedPeriods
  AskedLimits <- MCAskedLimits
  MaxLimit = 2
  AskedMinutes <- MCAskedMinutes
  Ticks <- MCTicks
INVARIANTS
  TypeOK
  PageWalkComplete
  NothingTwice
  GapsExact
CHECK_DEADLOCK FALSE
