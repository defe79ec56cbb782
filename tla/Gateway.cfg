SPECIFICATION GatewaySpec
CONSTANTS
  Capacity = 2
  Laps = 2
  NoCursorCache = FALSE
  NoValue = NoValue
  MaxCommands = 5
  Values = {1, 2, 3, 4, 5}
  Panics = {1, 3, 4}
INVARIANTS
  ExecutedInOrder
  NothingLeftInRing
PROPERTIES
  ReceivedIsExecuted
  RunReturns
\* run returns and the process ends.
CHECK_DEADLOCK FALSE
