SPECIFICATION FairSpec
CONSTANTS
  WarmupDuration = 2
  MaxClock = 4
INVARIANT FreezeRespected
PROPERTIES LossHandled ProcessEnds
