CONSTANTS
  Procs = {p1, p2}
  NHOME = 3
  NLOG = 3
  LOGSIZE = 3
  MAXOPBLOCKS = 1
  Data = {0, 1}
  Zero = 0
SPECIFICATION LiveSpec
INVARIANTS HeaderFits
PROPERTIES DiskSpec BeginOpWoken
