-------------------------------- MODULE Proc --------------------------------
(***************************************************************************)
(* The process table of kernel/proc.c: fork, exit, wait, kill, sleep/wakeup  *)
(* on wait's channel, and the switch between a process and the scheduler,    *)
(* on several CPUs, with user/init.c as the program of the first process.    *)
(*                                                                          *)
(* wait_lock and each p->lock are explicit where they are held over more     *)
(* than one step: p->lock from the moment a process gives up the CPU in      *)
(* sched() until the scheduler has left its stack, and from allocproc until  *)
(* fork has filled in the child.  A critical section that ends in the step   *)
(* it begins only tests that the lock is free.                              *)
(***************************************************************************)
EXTENDS Integers, FiniteSets

CONSTANTS
  NPROC,     \* slots of the process table
  NCPU,      \* CPUs
  MaxPid,    \* bound: the last pid that allocpid hands out
  KillPids   \* the arguments programs give to kill()

ASSUME ProcAssumption ==
  /\ NPROC \in Nat \ {0} /\ NCPU \in Nat \ {0} /\ MaxPid \in Nat \ {0}
  /\ KillPids \subseteq Nat

Slot == 1..NPROC
initproc == 1
None == 0       \* no slot: a null struct proc pointer, a free lock

VARIABLES
  state, pid, parent, killed, chan,  \* struct proc
  plock,      \* holder of p->lock: None or the slot of the holding process
  oncpu,      \* slots whose kernel stack is in use by a CPU
  wait_lock,  \* holder of wait_lock, or None
  nextpid,
  pc,         \* where the thread of each slot is
  np,         \* the local np of fork()
  shell,      \* init's local pid: the shell it waits for, 0 when there is none
  named       \* the pids that were given to kill()

table == <<state, pid, parent, killed, chan>>
vars == <<table, plock, oncpu, wait_lock, nextpid, pc, np, shell, named>>

States == {"UNUSED", "USED", "SLEEPING", "RUNNABLE", "RUNNING", "ZOMBIE"}
PC == {"none", "user", "f_copy", "f_parent", "f_run",
       "w_lock", "w_scan", "w_block", "w_asleep",
       "x_lock", "x_reparent", "x_wake", "x_zombie", "dead", "panic"}

TypeOK ==
  /\ state \in [Slot -> States]
  /\ pid \in [Slot -> 0..MaxPid] /\ \A p \in Slot : state[p] = "UNUSED" <=> pid[p] = 0
  /\ parent \in [Slot -> Slot \cup {None}]
  /\ killed \in [Slot -> BOOLEAN]
  /\ chan \in [Slot -> Slot \cup {None}]
  /\ plock \in [Slot -> Slot \cup {None}]
  /\ oncpu \subseteq Slot /\ Cardinality(oncpu) <= NCPU
  /\ wait_lock \in Slot \cup {None}
  /\ nextpid \in 1..(MaxPid + 1)
  /\ pc \in [Slot -> PC]
  /\ np \in [Slot -> Slot \cup {None}]
  /\ shell \in 0..MaxPid
  /\ named \subseteq KillPids

\* userinit: slot 1 holds pid 1, ready to run init.
Init ==
  /\ state = [p \in Slot |-> IF p = initproc THEN "RUNNABLE" ELSE "UNUSED"]
  /\ pid = [p \in Slot |-> IF p = initproc THEN 1 ELSE 0]
  /\ parent = [p \in Slot |-> None]
  /\ killed = [p \in Slot |-> FALSE]
  /\ chan = [p \in Slot |-> None]
  /\ plock = [p \in Slot |-> None]
  /\ oncpu = {}
  /\ wait_lock = None
  /\ nextpid = 2
  /\ pc = [p \in Slot |-> IF p = initproc THEN "user" ELSE "none"]
  /\ np = [p \in Slot |-> None]
  /\ shell = 0
  /\ named = {}

\* The thread of p is executing: it may take a step of its own.
Running(p) == p \in oncpu /\ state[p] = "RUNNING"
At(p, l) == Running(p) /\ pc[p] = l
Goto(p, l) == pc' = [pc EXCEPT ![p] = l]
Free(l) == l = None

Children(p) == {q \in Slot : parent[q] = p}
Zombies(p) == {q \in Children(p) : state[q] = "ZOMBIE"}

-----------------------------------------------------------------------------
(* scheduler(), sched() and yield().                                        *)

\* A CPU picks p; sched() returns in p's thread, which clears p->chan if it
\* slept, and releases the lock the scheduler took for it.
Run(p) ==
  /\ state[p] = "RUNNABLE" /\ Free(plock[p])
  /\ Cardinality(oncpu) < NCPU
  /\ state' = [state EXCEPT ![p] = "RUNNING"]
  /\ oncpu' = oncpu \cup {p}
  /\ chan' = [chan EXCEPT ![p] = None]
  /\ pc' = [pc EXCEPT ![p] = IF @ = "w_asleep" THEN "w_lock" ELSE @]
  /\ UNCHANGED <<pid, parent, killed, plock, wait_lock, nextpid, np, shell, named>>

\* Back in the scheduler: the stack of p is free, and only now its lock.
SwitchOut(p) ==
  /\ p \in oncpu /\ plock[p] = p /\ state[p] # "RUNNING"
  /\ oncpu' = oncpu \ {p}
  /\ plock' = [plock EXCEPT ![p] = None]
  /\ UNCHANGED <<table, wait_lock, nextpid, pc, np, shell, named>>

\* A timer interrupt in user mode.  One that arrives in the kernel, with no
\* lock held, only delays the process, as any interleaving may; while it
\* spins for a lock interrupts are off.
Yield(p) ==
  /\ At(p, "user")
  /\ Free(plock[p])
  /\ state' = [state EXCEPT ![p] = "RUNNABLE"]
  /\ plock' = [plock EXCEPT ![p] = p]
  /\ UNCHANGED <<pid, parent, killed, chan, oncpu, wait_lock, nextpid, pc, np, shell, named>>

\* wakeup(c) by p, for the channels of wait(): only the process in slot c
\* ever sleeps on the address of slot c.
CanWakeup(p, c) == c \in Slot \ {p} => Free(plock[c])
Awake(f, p, c) ==
  [q \in Slot |-> IF q = c /\ q # p /\ f[q] = "SLEEPING" /\ chan[q] = c
                  THEN "RUNNABLE" ELSE f[q]]

-----------------------------------------------------------------------------
(* fork().                                                                  *)
\* Mutants: leaves the pid in the free slot; leaves the flag.
FreeProcKeepsPid(q) ==
  /\ state' = [state EXCEPT ![q] = "UNUSED"]
  /\ parent' = [parent EXCEPT ![q] = None]
  /\ killed' = [killed EXCEPT ![q] = FALSE]
  /\ chan' = [chan EXCEPT ![q] = None]
  /\ UNCHANGED pid
FreeProcKeepsKilled(q) ==
  /\ state' = [state EXCEPT ![q] = "UNUSED"]
  /\ pid' = [pid EXCEPT ![q] = 0]
  /\ parent' = [parent EXCEPT ![q] = None]
  /\ chan' = [chan EXCEPT ![q] = None]
  /\ UNCHANGED killed

FreeProc(q) ==
  /\ state' = [state EXCEPT ![q] = "UNUSED"]
  /\ pid' = [pid EXCEPT ![q] = 0]
  /\ parent' = [parent EXCEPT ![q] = None]
  /\ killed' = [killed EXCEPT ![q] = FALSE]
  /\ chan' = [chan EXCEPT ![q] = None]

\* A process enters the kernel only if it has not been killed (usertrap);
\* init forks when it has no shell.
MayCall(p) == At(p, "user") /\ ~killed[p]

\* Mutant: the pid counter is not advanced.
ForkAllocSamePid(p, q) ==
  /\ MayCall(p)
  /\ p = initproc => shell = 0
  /\ state[q] = "UNUSED" /\ Free(plock[q])
  /\ nextpid <= MaxPid
  /\ state' = [state EXCEPT ![q] = "USED"]
  /\ pid' = [pid EXCEPT ![q] = nextpid]
  /\ plock' = [plock EXCEPT ![q] = p]
  /\ np' = [np EXCEPT ![p] = q]
  /\ Goto(p, "f_copy")
  /\ UNCHANGED <<parent, killed, chan, oncpu, wait_lock, nextpid, shell, named>>

\* allocproc: killed is not among the fields it sets.
ForkAlloc(p, q) ==
  /\ MayCall(p)
  /\ p = initproc => shell = 0
  /\ state[q] = "UNUSED" /\ Free(plock[q])
  /\ nextpid <= MaxPid
  /\ state' = [state EXCEPT ![q] = "USED"]
  /\ pid' = [pid EXCEPT ![q] = nextpid]
  /\ nextpid' = nextpid + 1
  /\ plock' = [plock EXCEPT ![q] = p]
  /\ np' = [np EXCEPT ![p] = q]
  /\ Goto(p, "f_copy")
  /\ UNCHANGED <<parent, killed, chan, oncpu, wait_lock, shell, named>>

\* allocproc returns 0: no free slot, or no page for the trapframe or the
\* page table.  Only for init does that change anything: init.c exits, and
\* exit() panics.
ForkNone(p) ==
  /\ MayCall(p) /\ p = initproc /\ shell = 0
  /\ Goto(p, "panic")
  /\ UNCHANGED <<table, plock, oncpu, wait_lock, nextpid, np, shell, named>>

\* uvmcopy fails: the slot is freed again.
ForkFail(p) ==
  /\ At(p, "f_copy")
  /\ FreeProc(np[p])
  /\ plock' = [plock EXCEPT ![np[p]] = None]
  /\ np' = [np EXCEPT ![p] = None]
  /\ Goto(p, IF p = initproc THEN "panic" ELSE "user")
  /\ UNCHANGED <<oncpu, wait_lock, nextpid, shell, named>>

ForkCopy(p) ==
  /\ At(p, "f_copy")
  /\ plock' = [plock EXCEPT ![np[p]] = None]
  /\ Goto(p, "f_parent")
  /\ UNCHANGED <<table, oncpu, wait_lock, nextpid, np, shell, named>>

\* Mutant: the child runs although its parent field was not set.
ForkParentForgets(p) ==
  /\ At(p, "f_parent")
  /\ Free(wait_lock)
  /\ Goto(p, "f_run")
  /\ UNCHANGED <<table, plock, oncpu, wait_lock, nextpid, np, shell, named>>

ForkParent(p) ==
  /\ At(p, "f_parent")
  /\ Free(wait_lock)
  /\ parent' = [parent EXCEPT ![np[p]] = p]
  /\ Goto(p, "f_run")
  /\ UNCHANGED <<state, pid, killed, chan, plock, oncpu, wait_lock, nextpid, np, shell, named>>

ForkRun(p) ==
  /\ At(p, "f_run")
  /\ Free(plock[np[p]])
  /\ state' = [state EXCEPT ![np[p]] = "RUNNABLE"]
  /\ pc' = [pc EXCEPT ![p] = "user", ![np[p]] = "user"]
  /\ shell' = IF p = initproc THEN pid[np[p]] ELSE shell
  /\ np' = [np EXCEPT ![p] = None]
  /\ UNCHANGED <<pid, parent, killed, chan, plock, oncpu, wait_lock, nextpid, named>>

-----------------------------------------------------------------------------
(* wait() and wait2().  The parents of children and the state ZOMBIE change  *)
(* only under wait_lock, so the scan of the table is one step.              *)
WaitCall(p) ==
  /\ MayCall(p)
  /\ p = initproc => shell # 0
  /\ Goto(p, "w_lock")
  /\ UNCHANGED <<table, plock, oncpu, wait_lock, nextpid, np, shell, named>>

WaitLock(p) ==
  /\ At(p, "w_lock")
  /\ Free(wait_lock)
  /\ wait_lock' = p
  /\ Goto(p, "w_scan")
  /\ UNCHANGED <<table, plock, oncpu, nextpid, np, shell, named>>

FirstOf(S) == CHOOSE q \in S : \A r \in S : q <= r

\* Mutant: does not wait for the child's lock.
WaitReapNoLock(p) ==
  /\ At(p, "w_scan")
  /\ Zombies(p) # {}
  /\ LET q == FirstOf(Zombies(p)) IN
       /\ FreeProc(q)
       /\ shell' = IF p = initproc /\ pid[q] = shell THEN 0 ELSE shell
       /\ pc' = [pc EXCEPT ![p] = "user", ![q] = "none"]
  /\ wait_lock' = None
  /\ UNCHANGED <<plock, oncpu, nextpid, np, named>>

\* Free the first zombie found, once it has left its stack.
WaitReap(p) ==
  /\ At(p, "w_scan")
  /\ Zombies(p) # {}
  /\ LET q == FirstOf(Zombies(p)) IN
       /\ Free(plock[q])
       /\ FreeProc(q)
       /\ shell' = IF p = initproc /\ pid[q] = shell THEN 0 ELSE shell
       /\ pc' = [pc EXCEPT ![p] = "user", ![q] = "none"]
  /\ wait_lock' = None
  /\ UNCHANGED <<plock, oncpu, nextpid, np, named>>

\* copyout of the status or of the counter fails: the child stays a zombie.
WaitFault(p) ==
  /\ At(p, "w_scan")
  /\ p # initproc
  /\ Zombies(p) # {}
  /\ Free(plock[FirstOf(Zombies(p))])
  /\ wait_lock' = None
  /\ Goto(p, "user")
  /\ UNCHANGED <<table, plock, oncpu, nextpid, np, shell, named>>

\* No children, or killed: wait returns -1, which ends init.
WaitNone(p) ==
  /\ At(p, "w_scan")
  /\ Zombies(p) = {}
  /\ Children(p) = {} \/ killed[p]
  /\ wait_lock' = None
  /\ Goto(p, IF p = initproc THEN "panic" ELSE "user")
  /\ UNCHANGED <<table, plock, oncpu, nextpid, np, shell, named>>

WaitCheck(p) ==
  /\ At(p, "w_scan")
  /\ Zombies(p) = {}
  /\ Children(p) # {} /\ ~killed[p]
  /\ Goto(p, "w_block")
  /\ UNCHANGED <<table, plock, oncpu, wait_lock, nextpid, np, shell, named>>

\* sleep(p, &wait_lock): take p->lock, then give wait_lock up.
WaitSleep(p) ==
  /\ At(p, "w_block")
  /\ Free(plock[p])
  /\ plock' = [plock EXCEPT ![p] = p]
  /\ wait_lock' = None
  /\ chan' = [chan EXCEPT ![p] = p]
  /\ state' = [state EXCEPT ![p] = "SLEEPING"]
  /\ Goto(p, "w_asleep")
  /\ UNCHANGED <<pid, parent, killed, oncpu, nextpid, np, shell, named>>

-----------------------------------------------------------------------------
(* exit(): voluntary, or forced by usertrap on a killed process.            *)
ExitCall(p) ==
  /\ At(p, "user")
  /\ p = initproc => killed[p]
  /\ Goto(p, IF p = initproc THEN "panic" ELSE "x_lock")
  /\ UNCHANGED <<table, plock, oncpu, wait_lock, nextpid, np, shell, named>>

ExitLock(p) ==
  /\ At(p, "x_lock")
  /\ Free(wait_lock)
  /\ wait_lock' = p
  /\ Goto(p, "x_reparent")
  /\ UNCHANGED <<table, plock, oncpu, nextpid, np, shell, named>>

\* Mutant: hands over only the live children.
ExitReparentLive(p) ==
  /\ At(p, "x_reparent")
  /\ Children(p) # {} => CanWakeup(p, initproc)
  /\ parent' = [q \in Slot |-> IF parent[q] = p /\ state[q] # "ZOMBIE"
                               THEN initproc ELSE parent[q]]
  /\ state' = IF Children(p) # {} THEN Awake(state, p, initproc) ELSE state
  /\ Goto(p, "x_wake")
  /\ UNCHANGED <<pid, killed, chan, plock, oncpu, wait_lock, nextpid, np, shell, named>>

\* reparent(p), with its wakeup(initproc).
ExitReparent(p) ==
  /\ At(p, "x_reparent")
  /\ Children(p) # {} => CanWakeup(p, initproc)
  /\ parent' = [q \in Slot |-> IF parent[q] = p THEN initproc ELSE parent[q]]
  /\ state' = IF Children(p) # {} THEN Awake(state, p, initproc) ELSE state
  /\ Goto(p, "x_wake")
  /\ UNCHANGED <<pid, killed, chan, plock, oncpu, wait_lock, nextpid, np, shell, named>>

\* Mutants: does not wake the parent; releases wait_lock before the process is
\* a zombie.
ExitWakeQuietly(p) ==
  /\ At(p, "x_wake")
  /\ Goto(p, "x_zombie")
  /\ UNCHANGED <<table, plock, oncpu, wait_lock, nextpid, np, shell, named>>
ExitWakeEarly(p) ==
  /\ At(p, "x_wake")
  /\ CanWakeup(p, parent[p])
  /\ state' = Awake(state, p, parent[p])
  /\ wait_lock' = None
  /\ Goto(p, "x_zombie")
  /\ UNCHANGED <<pid, parent, killed, chan, plock, oncpu, nextpid, np, shell, named>>

ExitWake(p) ==
  /\ At(p, "x_wake")
  /\ CanWakeup(p, parent[p])
  /\ state' = Awake(state, p, parent[p])
  /\ Goto(p, "x_zombie")
  /\ UNCHANGED <<pid, parent, killed, chan, plock, oncpu, wait_lock, nextpid, np, shell, named>>

\* p->lock is taken before wait_lock is released, and kept into sched().
ExitZombie(p) ==
  /\ At(p, "x_zombie")
  /\ Free(plock[p])
  /\ plock' = [plock EXCEPT ![p] = p]
  /\ state' = [state EXCEPT ![p] = "ZOMBIE"]
  /\ wait_lock' = None
  /\ Goto(p, "dead")
  /\ UNCHANGED <<pid, parent, killed, chan, oncpu, nextpid, np, shell, named>>

-----------------------------------------------------------------------------
\* kill(x): the first slot whose pid is x, an UNUSED one if x is 0.
Kill(p, x) ==
  /\ MayCall(p) /\ p # initproc
  /\ \E q \in Slot :
       /\ pid[q] = x /\ Free(plock[q])
       /\ \A r \in 1..(q - 1) : pid[r] # x
       /\ killed' = [killed EXCEPT ![q] = TRUE]
       /\ state' = [state EXCEPT ![q] = IF @ = "SLEEPING" THEN "RUNNABLE" ELSE @]
  /\ named' = named \cup {x}
  /\ UNCHANGED <<pid, parent, chan, plock, oncpu, wait_lock, nextpid, pc, np, shell>>

-----------------------------------------------------------------------------
Schedule(p) == Run(p) \/ SwitchOut(p) \/ Yield(p)

Fork(p) ==
  \/ \E q \in Slot : ForkAlloc(p, q)
  \/ ForkNone(p)
  \/ ForkFail(p)
  \/ ForkCopy(p)
  \/ ForkParent(p)
  \/ ForkRun(p)

Wait(p) ==
  \/ WaitCall(p)
  \/ WaitLock(p)
  \/ WaitReap(p)
  \/ WaitFault(p)
  \/ WaitNone(p)
  \/ WaitCheck(p)
  \/ WaitSleep(p)

Exit(p) ==
  \/ ExitCall(p)
  \/ ExitLock(p)
  \/ ExitReparent(p)
  \/ ExitWake(p)
  \/ ExitZombie(p)

Next ==
  \E p \in Slot :
    Schedule(p) \/ Fork(p) \/ Wait(p) \/ Exit(p) \/ \E x \in KillPids : Kill(p, x)

Spec == Init /\ [][Next]_vars

(***************************************************************************)
(* Fairness: every CPU keeps scanning the table, a thread that runs keeps    *)
(* running, the spin lock starves nobody, and init executes its program.     *)
(* Nothing is assumed of what other programs do.                            *)
(***************************************************************************)
InKernel(p) == pc[p] \notin {"user", "none", "dead", "panic"}

Fairness ==
  \A p \in Slot :
    /\ SF_vars(Run(p))
    /\ WF_vars(SwitchOut(p))
    /\ SF_vars((InKernel(p) \/ p = initproc) /\ (Fork(p) \/ Wait(p) \/ Exit(p)))

LiveSpec == Spec /\ Fairness

-----------------------------------------------------------------------------
(* Properties.                                                              *)

\* Two processes never share a pid.
UniquePid ==
  \A p, q \in Slot : (p # q /\ state[p] # "UNUSED" /\ state[q] # "UNUSED") => pid[p] # pid[q]

\* A process never outlives its parent without being handed to init: the
\* parent of any process is one that can still call wait().
ParentCanWait ==
  \A p \in Slot : parent[p] # None => state[parent[p]] \notin {"UNUSED", "USED", "ZOMBIE"}

\* A zombie always has a parent to collect it.
ZombieHasParent == \A p \in Slot : state[p] = "ZOMBIE" => parent[p] # None

\* With wait_lock free, a process asleep in wait() has a child and no dead
\* one: exit() never sneaks in between wait's scan and its sleep.
NoLostExit ==
  Free(wait_lock) =>
    \A p \in Slot : (state[p] = "SLEEPING" /\ chan[p] = p) =>
       Children(p) # {} /\ Zombies(p) = {}

\* A slot is not freed, and not given to a new process, while a CPU is still
\* on its kernel stack.
StackNotReused == \A p \in oncpu : state[p] \notin {"UNUSED", "USED"}

\* Only the process that kill() names is killed.
KilledByName == \A p \in Slot : (state[p] # "UNUSED" /\ killed[p]) => pid[p] \in named

\* init collects every zombie handed to it, unless init itself has failed.
OrphansReaped ==
  \A p \in Slot :
    (state[p] = "ZOMBIE" /\ parent[p] = initproc)
       ~> (state[p] = "UNUSED" \/ pc[initproc] = "panic")
=============================================================================
