SPECIFICATION Spec
CONSTANTS
  None = None
  Underlyings <- MCUnderlyings
  Contracts <- MCContracts
  Conns <- MCConns
  MaxDrops = 2
INVARIANTS
  TypeOK
  NoLeakedConnection
  ClosedForGood
PROPERTIES
  ResubscriptionComplete
CHECK_DEADLOCK FALSE
