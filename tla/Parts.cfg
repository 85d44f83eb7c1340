CONSTANTS
  Name <- MCName
  Length <- MCLength
  Prefix <- MCPrefix
  LowerHex <- MCLowerHex
  Root <- MCRoot
  MaxDepth = 6
  gibibyte = 8
  MaxInt64 = 31
  MaxUint32 = 1
  GiB = {0, 1, 3, 4, 8, 9}
  Count = {0, 1, 3}
  Port = {0, 1, 2}
  MaxPort = 1
  Key = {1, 2, 3, 4, 5, 6}
  K = 5
  MaxCount = 3
  MaxSaves = 3
  TopKCapacity = 2
  ReadLimit = 1
SPECIFICATION PartsSpec
INVARIANTS EntriesWatched KeyNamesEntry MeansWhatItSays IndexConsistent HeapOrder
INVARIANTS NeverTorn ConfirmedSurvives
PROPERTY ImplementsTopK
CHECK_DEADLOCK FALSE
