SPECIFICATION FairSpec
CONSTANTS
  None = None
  Underlyings <- MCUnderlyings
  Contracts <- MCContracts
  Conns <- MCConns
  MaxDrops = 2
CONSTRAINT
  ListenersAlone
PROPERTIES
  NeverGivesUp
CHECK_DEADLOCK FALSE
