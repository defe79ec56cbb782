SPECIFICATION WalSpec
CONSTANTS
  InitialSize = 2
  MaxSerial = 4
  MaxTruncate = 0
  MaxDamage = 1
INVARIANT
  AtMostOneLost
