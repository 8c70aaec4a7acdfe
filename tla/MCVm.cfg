SPECIFICATION Spec
CONSTANTS
  Procs = {p1, p2}
  NPAGES = 15
  PGSIZE = 2
  NPT = 2
  NUPAGES = 8
  KTABS = 1
  UINT = 64
  Programs <- Small
  ArgBytes = {1, 3}
  Sbrks <- GrowsAndShrinks
  MaxOther = 2
CHECK_DEADLOCK FALSE
VIEW Shape
INVARIANTS OwnedOnce NothingLost MappedToSz
