SPECIFICATION Spec
CONSTANTS
  ArenaCapacity = 3
  QtyModulus = 3
  Ids = {i1, i2, i3}
  Traders = {t1, t2}
  Prices <- MCPrices
  MaxQuantity = 2
  NoOrder = NoOrder
  NoLevel = NoLevel
  NoPrice = NoPrice
  NoSnapshot = NoSnapshot
SYMMETRY Symmetry
INVARIANTS
  TypeOK
  ListsPartitionArena
  LevelsWellFormed
  IndexExact
  BestIsBest
  NotCrossed
  RestoreExact
PROPERTY
  ImplementsPriceTime
