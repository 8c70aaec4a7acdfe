SPECIFICATION LiveSpec
CONSTANTS
  NPROC = 3
  NCPU = 1
  MaxPid = 3
  TICKMOD = 2
  KillPids = {2}
  SleepArgs = {1}
INVARIANTS KstackOwned WaiterNotForgotten SleeperNotOverdue
PROPERTIES KilledDies
