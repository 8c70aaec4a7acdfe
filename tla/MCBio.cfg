SPECIFICATION Spec
CONSTANTS
  Procs = {p1, p2}
  Blocks = {l, i, m, d}
  Body = {l}
  Indirect = {i}
  Data = {0, 1}
  NBUF = 2
  NoBlock = NoBlock
  MaxPinned = 1
  Drivers = {"ide", "mem"}
  IoErrors = FALSE
SYMMETRY Symm
CHECK_DEADLOCK FALSE
INVARIANTS Coherent OneHolder NobodyForgotten NoCircularWait
