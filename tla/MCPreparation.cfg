SPECIFICATION Spec
CONSTANTS
  None = None
  GpuRequiredCount = 2
  GpuMinVram = 14
  Worlds <- MCWorlds
  Configs <- MCConfigs
  MaxStarts = 2
  MaxChanges = 1
INVARIANTS TypeOK LaunchedIsExact LaunchedIsFresh PassIsReliable BlockerIsReal
PROPERTY AdviceIsGood
CHECK_DEADLOCK FALSE
