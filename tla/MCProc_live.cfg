CONSTANTS
  NPROC = 3
  NCPU = 2
  MaxPid = 4
  KillPids = {3}
SPECIFICATION LiveSpec
PROPERTIES OrphansReaped
CHECK_DEADLOCK FALSE
