CONSTANTS
  a = a
  b = b
  a1 = a1
  a2 = a2
  b1 = b1
  Dir <- MCDir
  Key <- MCKey
  DirOf <- MCDirOf
  QueueSize = 2
  MaxChanges = 4
SPECIFICATION FairSpec
INVARIANTS NoGhosts PlacedCounted
PROPERTY ScanReturns
