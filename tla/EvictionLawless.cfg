SPECIFICATION Spec
CONSTANTS
  a1 = a1
  a2 = a2
  c1 = c1
  c2 = c2
  Key = {a1, c1}
  ActionKey = {a1}
  Client = {b1}
  Lawless = {b1}
  Faults = TRUE
  Size = {1, 2}
  Inode = {i1, i2}
  Blocks = 4
  MaxClock = 1
  MaxHeat = 0
  MaxEdits = 2
  MinimumResidence = 1
  WarmupDuration = 1
  MinActionCacheBytes = 0
  Modes = {TRUE, FALSE}
  Policy <- MCPolicy
SYMMETRY Symmetry
INVARIANT ShadowOnlyProjects
PROPERTIES ChangedEntryRefused ReplacedRootUntouched
