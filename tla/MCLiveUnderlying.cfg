SPECIFICATION FairSpec
CONSTANTS
  None = None
  Order <- MCOrder
  Delays = {0}
  Window = {0, 1, 2, 3}
  Lookback = 2
  Zeroed <- MCZeroed
  Backfills <- MCBackfills
  MaxTime = 2
  MaxTrades = 2
  MaxDrops = 1
  MaxLives = 2
INVARIANTS
  TypeOK
  OnlyOthersCollide
  TradesAccounted
  CatchUpClosesGap
PROPERTIES
  CaptureResumes
  StopEnds
CHECK_DEADLOCK FALSE
