SPECIFICATION Spec
CONSTANTS
  Capacity = 4
  Laps = 2
  NoCursorCache = FALSE
  Values = {v1, v2}
  NoValue = NoValue
INVARIANTS
  TypeOK
  SlotOwnership
  NoDataRace
  DropLeaksNothing
PROPERTY
  ImplementsFifo
\* Both handles dropped and the ring freed: the system has stopped.
CHECK_DEADLOCK FALSE
