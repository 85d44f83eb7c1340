CONSTANTS
  Key = {1, 2, 3}
  K = 2
  MaxCount = 3
  Row = {1, 2}
  Slot = {1, 2}
  hash <- MCHash
  fingerprint <- MCShared
  minCount = 2
  MaxAccesses = 4
SPECIFICATION HKSpec
INVARIANTS TypeOK NoOverestimate HeatBelowTotal HottestTracked
