SPECIFICATION Spec
CONSTANTS
  None = None
  Underlyings <- MCUnderlyings
  Contracts <- MCContracts
  Conns <- MCConns
  MaxDrops = 1
PROPERTIES
  ReconnectResubscribes
CHECK_DEADLOCK FALSE
