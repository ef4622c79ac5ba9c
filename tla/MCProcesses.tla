---------------------------- MODULE MCProcesses ----------------------------
(* A pipe, the process table and the spin locks in one run.  They run apart:   *)
(* `sys' says which of them a behaviour is about, and the variables that only  *)
(* the others have are 0.                                                      *)
EXTENDS Integers, Sequences, TLC
CONSTANTS
  Proc, Readers, Writers, Killable, Byte, Nil, PIPESIZE, WRAP, MaxN,   \* of Pipe
  NPROC, NCPU, MaxPid, KillPids,                                        \* of Proc
  SpinProcs, SpinCPUs                                                   \* of Spinlock
VARIABLES
  sys, killed, pc,
  lock, data, nread, nwrite, readopen, writeopen, freed, rfd, wfd, n, i, taken, stranded,
  state, pid, parent, chan, plock, oncpu, wait_lock, nextpid, np, shell, named,
  cpu, todo

Pi == INSTANCE Pipe WITH None <- Nil
Pr == INSTANCE Proc
Sp == INSTANCE Spinlock WITH NPROC <- SpinProcs, NCPU <- SpinCPUs
ASSUME ProcessesAssumption == Pi!PipeAssumption /\ Pr!ProcAssumption /\ Sp!SpinlockAssumption

pipeOnly == <<data, nread, nwrite, readopen, writeopen, freed, rfd, wfd, n, i, taken, stranded>>
pipe == <<lock, pipeOnly>>
tableOnly == <<pid, parent, chan, plock, oncpu, wait_lock, nextpid, np, shell, named>>
table == <<state, tableOnly>>
vars == <<sys, killed, pc, lock, state, pipeOnly, tableOnly, cpu, todo>>

NoPipe ==
  /\ data = 0 /\ nread = 0 /\ nwrite = 0 /\ readopen = 0 /\ writeopen = 0
  /\ freed = 0 /\ rfd = 0 /\ wfd = 0 /\ n = 0 /\ i = 0 /\ taken = 0 /\ stranded = 0
NoTable ==
  /\ pid = 0 /\ parent = 0 /\ chan = 0 /\ plock = 0 /\ oncpu = 0
  /\ wait_lock = 0 /\ nextpid = 0 /\ np = 0 /\ shell = 0 /\ named = 0
NoSpin == cpu = 0 /\ todo = 0
Init ==
  \/ sys = "pipe" /\ Pi!Init /\ state = 0 /\ NoTable /\ NoSpin
  \/ sys = "proc" /\ Pr!Init /\ lock = 0 /\ NoPipe /\ NoSpin
  \/ sys = "spin" /\ Sp!Init /\ killed = 0 /\ pc = 0 /\ NoPipe /\ NoTable
PipeStep == sys = "pipe" /\ Pi!Next /\ UNCHANGED <<sys, table, cpu, todo>>
ProcStep == sys = "proc" /\ Pr!Next /\ UNCHANGED <<sys, pipe, cpu, todo>>
SpinStep == sys = "spin" /\ Sp!Next /\ UNCHANGED <<sys, killed, pc, pipeOnly, tableOnly>>
Next == PipeStep \/ ProcStep \/ SpinStep
Spec == Init /\ [][Next]_vars

\* Bytes are interchangeable.
Sym == Permutations(Byte)

(* The pipe.                                                                  *)

\* Nobody sleeps on a pipe that has what it waits for.
NoLostWakeup == sys = "pipe" => Pi!NoLostWakeup

\* The pipe is touched under its lock, and never after it has been freed.
NoUseAfterFree == sys = "pipe" => Pi!NoUseAfterFree /\ Pi!LockHeld

\* Every step is one of a bounded queue or looks like nothing, and a reader sees the
\* end only when nobody can write any more and nothing is left.
FifoSpec ==
  /\ sys = "pipe" => Pi!Fifo!FInit
  /\ [][sys = "pipe" => (Pi!Fifo!FNext \/ UNCHANGED Pi!Fifo!fvars) /\ Pi!ReadEndsClosed]_vars

(* The process table.                                                         *)

\* No two processes have a pid in common, each has a parent that can wait for it, a
\* zombie too, and a parent that sleeps in wait has no zombie that woke nobody.
ProcessTree ==
  sys = "proc" => Pr!UniquePid /\ Pr!ParentCanWait /\ Pr!ZombieHasParent /\ Pr!NoLostExit

\* A slot is handed on when nobody runs on its stack, and without the kill that was
\* meant for its last process.
SlotsClean == sys = "proc" => Pr!StackNotReused /\ Pr!KilledByName

(* The spin locks.                                                            *)

\* A lock is held by the CPU that says so, and what a CPU counts and remembers of its
\* interrupts is what the process on it did.
LocksExact == sys = "spin" => Sp!LocksExact /\ Sp!NoffExact /\ Sp!IntrExact

\* A process runs on one CPU at a time.
OneCpu == sys = "spin" => Sp!OneCpu

\* No panic of acquire, release, sched or pop_off is reached, and no two wait for
\* each other.
NeverStuck == sys = "spin" => Sp!NoPanic /\ Sp!NoDeadlock

\* The types of all of them.
TypeOK == (sys = "spin" => Sp!TypeOK) /\ (sys = "pipe" => Pi!TypeOK) /\ (sys = "proc" => Pr!TypeOK)
=============================================================================
