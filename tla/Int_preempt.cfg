SPECIFICATION Spec
CONSTANTS
  Task = {t1, t2}
  Nobody = Nobody
  Ist = Ist
  PIT_IRQ = 32
  COM_IRQ = 36
  DYNAMIC = 144
  Overflow = FALSE
CHECK_DEADLOCK FALSE
INVARIANT RunsItself
