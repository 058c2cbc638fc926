SPECIFICATION Spec
CONSTANTS
  Task = {t1, t2}
  PIT = PIT
  None = None
  Lock = {"sleep", "sheap", "gheap"}
  TaskPaths <- SleepAndHeap
  WakeupPaths <- Wakeup
  KsleepPaths <- Sleep
INVARIANTS MutualExclusion CriticalMasked InterruptsBack InnerLockFree
CHECK_DEADLOCK FALSE
