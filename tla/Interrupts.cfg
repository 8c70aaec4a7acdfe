SPECIFICATION Spec
CONSTANTS
  CPUs = {0, 1}
  N = 3
INVARIANTS NoPanic SyscallInterruptible
