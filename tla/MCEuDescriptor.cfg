SPECIFICATION Spec
CONSTANTS
  Handle = {1, 2, 3}
  NULL = NULL
  SARMAG = 2
  HDR = 2
  EI_NIDENT = 2
  EHDR = 4
  FileSize = 16
  HdrAt <- MCHdrAt
  KindAt <- MCKindAt
  NamesAt = {0}
  IndexAt = {0}
  Cmds = {"READ", "READ_MMAP", "WRITE"}
  Offsets = {2}
  MaxRefs = 2
  MaxRoots = 1
  MaxDone = 1
INVARIANTS Survives Accounted Placed HeaderFresh
PROPERTY Lives
CHECK_DEADLOCK FALSE
