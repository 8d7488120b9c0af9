SPECIFICATION PartsSpec
CONSTANTS
  SegBytes = 2
  OurCluster = "ours"
  OtherCluster = "other"
  Unwritten = "unwritten"
  MaxSegment = 3
  MaxClock = 2
  MaxBases = 2
  MaxLosses = 1
  KeepNewest = 1
  Modes = {"meta", "legacy"}
  MayRaceRecovery = FALSE
  LastSegment = 1
  Starts = {0, 1}
  Forks = {1, 2, 3}
INVARIANTS
  LossKept
  FinalizedRestorable
  HealthyIsRestorable
  NoFalseGap
  UsableSound
  NoFalseAlarm
CHECK_DEADLOCK FALSE
