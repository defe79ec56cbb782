SPECIFICATION WalSpec
CONSTANTS
  InitialSize = 2
  MaxSerial = 4
  MaxTruncate = 1
  MaxDamage = 1
INVARIANTS
  MappingBacked
  ZeroBeyondEnd
  IteratorAgrees
  AckedSurvives
PROPERTY
  ImplementsDurableLog
