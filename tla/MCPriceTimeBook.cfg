SPECIFICATION MCSpec
CONSTANTS
  Capacity = 3
  Ids <- MCIds
  Traders = {t1, t2}
  Prices <- MCPrices
  MaxQuantity = 4
  MaxMaker = 2
  NoOrder = NoOrder
INVARIANTS
  PriceTimePriority
  FillsAreTrades
  EngineAgrees
\* The answer to the order is the end.
CHECK_DEADLOCK FALSE
