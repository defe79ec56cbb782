SPECIFICATION Spec
CONSTANTS
  MaxOrders = 12
  MaxLevels = 5
  MaxTcpOrders = 6
  MaxTcpLevels = 3
  Capacity = 2
  Laps = 2
  NoCursorCache = FALSE
  NoValue = NoValue
  Count = 6
  Measurer = main_thread
  Others = {other}
  Sizes = {1, 2}
  MaxCalls = 2
  MaxSessions = 2
  Off = Off
INVARIANTS
  ResultsRight
  StatsBounded
PROPERTY
  ProgramsEnd
\* The programs end.
CHECK_DEADLOCK FALSE
