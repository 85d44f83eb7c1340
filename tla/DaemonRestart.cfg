SPECIFICATION Spec
CONSTANTS
  WarmupDuration = 2
  MaxClock = 4
INVARIANT FreezeSurvivesRestart
