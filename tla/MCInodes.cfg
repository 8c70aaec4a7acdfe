SPECIFICATION LiveSpec
CONSTANTS
  Procs = {p1, p2}
  Nobody = Nobody
  Inums = {1, 2, 3, 4, 5}
  ROOT = 1
  Names <- MCNames
  Calls <- MixedCalls
  MaxCalls = 2
  InitType <- TreeType
  InitDir <- TreeDir
CHECK_DEADLOCK FALSE
INVARIANTS RefsCounted   
PROPERTIES CallsReturn
