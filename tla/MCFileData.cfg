SPECIFICATION Spec
CONSTANTS
  Procs = {p1, p2}
  Inodes = {"i1", "i2"}
  Files = {"f1", "f2", "f3"}
  InodeOf <- Opened
  Data <- SmallData
  BSIZE = 2
  NDIRECT = 1
  NINDIRECT = 2
  LOGSIZE = 6
  MAXOPBLOCKS = 3
  NBLOCKS = 4
  UINT = 16
  Lens = {1, 15}
CHECK_DEADLOCK FALSE
SYMMETRY Symm
INVARIANTS BlocksOwned FitsLog
PROPERTIES IsFlatFile
