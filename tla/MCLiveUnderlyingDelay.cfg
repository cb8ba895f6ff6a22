SPECIFICATION Spec
CONSTANTS
  None = None
  Order <- MCOrder
  Delays = {1}
  Window = {0, 1, 2, 3}
  Lookback = 2
  Zeroed = {}
  Backfills = {}
  MaxTime = 3
  MaxTrades = 2
  MaxDrops = 0
  MaxLives = 1
INVARIANTS
  OnlyClosedMinutes
CHECK_DEADLOCK FALSE
