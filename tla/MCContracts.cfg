SPECIFICATION Spec
CONSTANTS
  c1 = c1
  c2 = c2
  c3 = c3
  SPX = SPX
  NDX = NDX
  ingestion = ingestion
  poller = poller
  Programs <- MCPrograms
  Pollers <- MCPollers
  Options <- MCOptions
  Order <- MCOrder
  Underlying <- MCUnderlying
  Listed <- MCListed
  Expires <- MCExpires
  MaxTime = 2
INVARIANTS
  TypeOK
  TrackedHasRow
PROPERTIES
  KeepsPromise
