SPECIFICATION FairSpec
CONSTANTS
  ArenaCapacity = 2
  QtyModulus = 3
  Ids = {i1, i2, i3}
  Traders = {t1, t2}
  Prices <- MCPrices
  MaxQuantity = 2
  NoOrder = NoOrder
  NoLevel = NoLevel
  NoPrice = NoPrice
  NoSnapshot = NoSnapshot
INVARIANT
  ArenaFullTradesNothing
PROPERTY
  CallsReturn
