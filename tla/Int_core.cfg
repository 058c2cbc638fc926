SPECIFICATION Spec
CONSTANTS
  Task = {t1, t2, t3}
  Nobody = Nobody
  Ist = Ist
  PIT_IRQ = 32
  COM_IRQ = 36
  DYNAMIC = 144
  Overflow = TRUE
SYMMETRY Perms
INVARIANTS EoiBalanced EoiProtocol
CHECK_DEADLOCK FALSE
