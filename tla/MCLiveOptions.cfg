SPECIFICATION Spec
CONSTANTS
  None = None
  C17 = C17
  C175 = C175
  VIX = VIX
  NDX = NDX
  Symbols <- MCSymbols
  Contains <- MCContains
  Quoted <- MCQuoted
  Order <- MCOrder
  Underlying <- MCUnderlying
  Window <- MCWindow
  Others <- MCOthers
  Gate = 0
  Lookback = 1
  Interval = 1
  Concurrency = 2
  MaxTime = 1
  MaxQueue = 1
  MaxFaults = 1
INVARIANTS
  TypeOK
  NoLeakedSubscription
  KnownBeforeRequested
PROPERTIES
  WindowCovered
  PassesEnd
CHECK_DEADLOCK FALSE
