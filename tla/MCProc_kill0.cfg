\* kill(0), what user/kill.c does for an argument that is not a number.
CONSTANTS
  NPROC = 3
  NCPU = 2
  MaxPid = 4
  KillPids = {0}
SPECIFICATION Spec
INVARIANTS KilledByName
CHECK_DEADLOCK FALSE
