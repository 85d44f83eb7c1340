SPECIFICATION FairSpec
CONSTANTS
  s = s
  t = t
  Dir = {s, t}
  Root = root
  Parent <- MCParent
  EventBufferSize = 1
  ErrorBufferSize = 1
  ReadFaults = TRUE
  MaxQueuedEvents = 1
  MaxChanges = 3
CHECK_DEADLOCK FALSE
PROPERTIES ReaderExits AddWatchReturns LossEndsWatcher
