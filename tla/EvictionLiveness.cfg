SPECIFICATION FairSpec
CONSTANTS
  a1 = a1
  a2 = a2
  c1 = c1
  c2 = c2
  Key = {a1, a2, c1}
  ActionKey = {a1, a2}
  Client = {b1}
  Lawless = {}
  Faults = FALSE
  Size = {1, 2}
  Inode = {i1}
  Blocks = 4
  MaxClock = 1
  MaxHeat = 1
  MaxEdits = 1
  MinimumResidence = 1
  WarmupDuration = 0
  MinActionCacheBytes = 1
  Modes = {FALSE}
  Policy <- MCPolicy
PROPERTIES ColdestFirst CycleComplete ClientProceeds EvictionConverges
