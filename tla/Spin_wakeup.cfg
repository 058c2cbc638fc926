SPECIFICATION FairSpec
CONSTANTS
  Task = {t1, t2}
  PIT = PIT
  None = None
  Lock = {"sleep", "sheap", "gheap"}
  TaskPaths <- SleepAndHeap
  WakeupPaths <- Wakeup
  KsleepPaths <- Nothing
CHECK_DEADLOCK FALSE
PROPERTY WakeupFinishes
