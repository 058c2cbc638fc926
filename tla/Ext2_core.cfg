SPECIFICATION Spec
CONSTANTS
  NBLOCKS = 4
  Meta = {1}
  NINODES = 3
  FIRST = 2
  BYTE = 2
  Direct = 2
  Name <- Names
  MaxEntries = 2
  Failing = {"inode", "ibitmap", "data"}
  MaxFaults = 1
  Clobbered = Clobbered
INVARIANTS BlocksExclusive CountsAgree SuperblockFlushed BlocksReclaimed SizeCovered
CHECK_DEADLOCK FALSE
