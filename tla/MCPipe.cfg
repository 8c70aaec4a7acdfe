SPECIFICATION LiveSpec
CONSTANTS
  Procs = {p1, p2}
  NoProc = NoProc
  Killable = {p1}
  PIPESIZE = 2
  UINT = 4
  Bytes = {0, 1}
  MaxWrite = 2
  MaxRead = 1
CHECK_DEADLOCK FALSE
INVARIANTS UsersHoldEnds
PROPERTIES IsByteStream ReadersReturn
