SPECIFICATION Spec
CONSTANTS
  s = s
  t = t
  Dir = {s, t}
  Root = root
  Parent <- MCParent
  EventBufferSize = 1
  ErrorBufferSize = 1
  ReadFaults = TRUE
  MaxQueuedEvents = 2
  MaxChanges = 4
CHECK_DEADLOCK FALSE
INVARIANTS TypeOK CoverageKept LossReported
PROPERTY ImplementsStream
