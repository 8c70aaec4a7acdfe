SPECIFICATION Spec
CONSTANTS
  Procs = {p1, p2}
  InitProc = p1
  NOFILE = 3
  Files = {f1, f2, f3}
  Inodes = {i1}
  Pipes = {q1}
  None = None
SYMMETRY Symm
CHECK_DEADLOCK FALSE
INVARIANTS RefCounts ObjectsHeld
