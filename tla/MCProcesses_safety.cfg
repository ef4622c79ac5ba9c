\* A writer, a reader and a process that holds both ends, as a shell does while
\* it sets up a pipeline, and counters that wrap after four bytes; four slots,
\* two CPUs, and kill() of the shell's first child; two processes on two CPUs under
\* the spin locks.
SPECIFICATION Spec
CONSTANTS
  Proc = {p1, p2, p3}
  Readers = {p1, p2}
  Writers = {p2, p3}
  Killable = {p2}
  Byte = {x, y}
  Nil = Nil
  PIPESIZE = 2
  WRAP = 4
  MaxN = 2
  NPROC = 4
  NCPU = 2
  MaxPid = 5
  KillPids = {3}
  SpinProcs = 2
  SpinCPUs = 2
SYMMETRY Sym
INVARIANTS TypeOK NoLostWakeup NoUseAfterFree ProcessTree SlotsClean
INVARIANTS LocksExact OneCpu NeverStuck
PROPERTIES FifoSpec
CHECK_DEADLOCK FALSE
