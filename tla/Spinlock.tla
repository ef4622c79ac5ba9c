------------------------------ MODULE Spinlock ------------------------------
(***************************************************************************)
(* Spin locks and interrupts (kernel/spinlock.c) where processes move        *)
(* between CPUs (sched(), yield(), sleep(), wakeup() and scheduler() of      *)
(* kernel/proc.c) and timer interrupts come at any time (kernel/trap.c).     *)
(*                                                                          *)
(* Processes call sys_sleep(), the smallest call that sleeps on what a       *)
(* handler wakes.  A thread is what is left of its code: a sequence of       *)
(* operations, in front of which an interrupt puts the handler's.  A step is  *)
(* one of them.                                                             *)
(***************************************************************************)
EXTENDS Integers, Sequences, FiniteSets

CONSTANTS NPROC, NCPU
SpinlockAssumption == NPROC \in Nat /\ NCPU \in Nat

Procs == 1..NPROC
CPUs == 1..NCPU    \* the clock is CPU 1's
tickslock == 0
Locks == 0..NPROC  \* tickslock, and p->lock
Nobody == 0

VARIABLES
  cpu,    \* struct cpu, with the thread on it (0 is its scheduler) and whether
          \* interrupts are on
  lock,   \* the CPU that each lock names
  state,  \* p->state
  todo    \* what each thread has to do: processes, then the schedulers

vars == <<cpu, lock, state, todo>>

Op(op, arg) == [op |-> op, arg |-> arg]
Acquire(l) == Op("acquire", l)
Release(l) == Op("release", l)
Sched == Op("sched", 0)

\* What a process does in the kernel.
\* Mutant: p->lock is given up before the CPU.
YieldEarly(p) == <<Acquire(p), Op("state", "RUNNABLE"), Release(p), Sched, Acquire(p), Release(p)>>
Yield(p) == <<Acquire(p), Op("state", "RUNNABLE"), Sched, Release(p)>>
\* Mutant: the lock is taken again before p->lock is given up.
SleepKeepsLock(p, lk) ==
  <<Acquire(p), Release(lk), Op("state", "SLEEPING"), Sched, Acquire(lk), Release(p)>>
Sleep(p, lk) ==
  <<Acquire(p), Release(lk), Op("state", "SLEEPING"), Sched, Release(p), Acquire(lk)>>
SysSleep == <<Op("on", 0), Acquire(tickslock), Op("test", 0), Release(tickslock), Op("off", 0), Op("sret", 0)>>

\* Each of a set of processes in the order of the table.
Each(S, code) ==
  LET C[q \in 0..NPROC] == IF q = 0 THEN <<>> ELSE IF q \in S THEN C[q - 1] \o code[q] ELSE C[q - 1]
  IN C[NPROC]
Wakeup(c) == Each(Procs \ {cpu[c].proc}, [q \in Procs |-> <<Acquire(q), Op("wake", q), Release(q)>>])
Scheduler == Each(Procs, [q \in Procs |-> <<Acquire(q), Op("pick", q), Op("gone", 0), Release(q)>>])
Clockintr(c) == IF c = 1 THEN <<Acquire(tickslock)>> \o Wakeup(c) \o <<Release(tickslock)>> ELSE <<>>
Timer(c) == Clockintr(c) \o <<Op("tick", 0), Op("sret", 0)>>

\* A process begins in forkret(), with the lock that its scheduler took.
Init ==
  /\ cpu = [c \in CPUs |-> [proc |-> Nobody, ctx |-> 0, noff |-> 0, intena |-> FALSE, intr |-> FALSE]]
  /\ lock = [l \in Locks |-> Nobody]
  /\ state = [p \in Procs |-> "RUNNABLE"]
  /\ todo = [t \in 1..NPROC + NCPU |->
               IF t \in Procs THEN <<Release(t), Op("forkret", 0), Op("sret", 0)>> ELSE <<>>]

Thread(c) == IF cpu[c].ctx = 0 THEN NPROC + c ELSE cpu[c].ctx
Code(c) == todo[Thread(c)]
At(c, op) == Code(c) # <<>> /\ Head(Code(c)).op = op
Arg(c) == Head(Code(c)).arg
Goes(c, code) == todo' = [todo EXCEPT ![Thread(c)] = code]
Proceeds(c) == Goes(c, Tail(Code(c)))
Begins(c, code) == Goes(c, code \o Tail(Code(c)))

-----------------------------------------------------------------------------
(* spinlock.c.  Where the code would panic it goes no further.              *)
\* Mutant: interrupts stay on.
PushOffLeavesOn(r) == [r EXCEPT !.noff = @ + 1, !.intena = IF r.noff = 0 THEN r.intr ELSE @]
PushOff(r) == [r EXCEPT !.intr = FALSE, !.noff = @ + 1, !.intena = IF r.noff = 0 THEN r.intr ELSE @]
PopOff(r) == [r EXCEPT !.noff = @ - 1, !.intr = r.noff = 1 /\ r.intena]

CannotAcquire(c, l) == lock[l] = c
CannotRelease(c, l) == lock[l] # c \/ cpu[c].intr \/ cpu[c].noff < 1
CannotSched(c, p) == lock[p] # c \/ cpu[c].noff # 1 \/ state[p] = "RUNNING" \/ cpu[c].intr

AcquireStep(c) ==
  /\ At(c, "acquire") /\ ~CannotAcquire(c, Arg(c))
  /\ cpu' = [cpu EXCEPT ![c] = PushOff(@)]
  /\ Begins(c, <<Op("spin", Arg(c))>>)
  /\ UNCHANGED <<lock, state>>
Spin(c) ==
  /\ At(c, "spin") /\ lock[Arg(c)] = Nobody
  /\ lock' = [lock EXCEPT ![Arg(c)] = c]
  /\ Proceeds(c)
  /\ UNCHANGED <<cpu, state>>
ReleaseStep(c) ==
  /\ At(c, "release") /\ ~CannotRelease(c, Arg(c))
  /\ lock' = [lock EXCEPT ![Arg(c)] = Nobody]
  /\ cpu' = [cpu EXCEPT ![c] = PopOff(@)]
  /\ Proceeds(c)
  /\ UNCHANGED state

-----------------------------------------------------------------------------
(* Processes and the scheduler.                                             *)
SetState(c) ==
  /\ At(c, "state")
  /\ state' = [state EXCEPT ![Thread(c)] = Arg(c)]
  /\ Proceeds(c)
  /\ UNCHANGED <<cpu, lock>>

\* intena stays with the thread, not with the CPU.
\* Mutant: it is not put back.
BackNot(r, intena) == r
Back(r, intena) == [r EXCEPT !.intena = intena]
SchedStep(c) ==
  /\ At(c, "sched") /\ ~CannotSched(c, cpu[c].proc)
  /\ cpu' = [cpu EXCEPT ![c].ctx = 0]
  /\ Begins(c, <<Op("back", cpu[c].intena)>>)
  /\ UNCHANGED <<lock, state>>
Resume(c) ==
  /\ At(c, "back")
  /\ cpu' = [cpu EXCEPT ![c] = Back(@, Arg(c))]
  /\ Proceeds(c)
  /\ UNCHANGED <<lock, state>>

Loop(c) ==
  /\ cpu[c].ctx = 0 /\ Code(c) = <<>>
  /\ cpu' = [cpu EXCEPT ![c].intr = TRUE]
  /\ Goes(c, Scheduler)
  /\ UNCHANGED <<lock, state>>
Pick(c) ==
  /\ At(c, "pick") /\ state[Arg(c)] = "RUNNABLE"
  /\ state' = [state EXCEPT ![Arg(c)] = "RUNNING"]
  /\ cpu' = [cpu EXCEPT ![c].proc = Arg(c), ![c].ctx = Arg(c)]
  /\ Proceeds(c)
  /\ UNCHANGED lock
\* Mutant: a process that is not runnable keeps its lock.
PassOverKeeps(c) ==
  /\ At(c, "pick") /\ state[Arg(c)] # "RUNNABLE"
  /\ Goes(c, Tail(Tail(Tail(Code(c)))))
  /\ UNCHANGED <<cpu, lock, state>>
PassOver(c) ==
  /\ At(c, "pick") /\ state[Arg(c)] # "RUNNABLE"
  /\ Goes(c, Tail(Tail(Code(c))))
  /\ UNCHANGED <<cpu, lock, state>>
Gone(c) ==
  /\ At(c, "gone")
  /\ cpu' = [cpu EXCEPT ![c].proc = Nobody]
  /\ Proceeds(c)
  /\ UNCHANGED <<lock, state>>
Wake(c) ==
  /\ At(c, "wake")
  /\ state' = [state EXCEPT ![Arg(c)] = IF @ = "SLEEPING" THEN "RUNNABLE" ELSE @]
  /\ Proceeds(c)
  /\ UNCHANGED <<cpu, lock>>

-----------------------------------------------------------------------------
(* Traps.  A process with nothing to do is in user space.                   *)
InUser(c) == cpu[c].ctx # 0 /\ Code(c) = <<>>

Syscall(c) ==
  /\ InUser(c)
  /\ cpu' = [cpu EXCEPT ![c].intr = FALSE]
  /\ Goes(c, SysSleep)
  /\ UNCHANGED <<lock, state>>
Interrupt(c) ==
  /\ cpu[c].intr
  /\ cpu' = [cpu EXCEPT ![c].intr = FALSE]
  /\ Goes(c, Timer(c) \o Code(c))
  /\ UNCHANGED <<lock, state>>
Tick(c) ==
  /\ At(c, "tick")
  /\ LET p == cpu[c].proc IN
       Begins(c, IF p # Nobody /\ state[p] = "RUNNING" THEN Yield(p) ELSE <<>>)
  /\ UNCHANGED <<cpu, lock, state>>
Sret(c) ==
  /\ At(c, "on") \/ At(c, "sret")
  /\ cpu' = [cpu EXCEPT ![c].intr = TRUE]
  /\ Proceeds(c)
  /\ UNCHANGED <<lock, state>>
IntrOff(c) ==
  /\ At(c, "off") \/ At(c, "forkret")
  /\ cpu' = [cpu EXCEPT ![c].intr = FALSE]
  /\ Proceeds(c)
  /\ UNCHANGED <<lock, state>>
Test(c) ==
  /\ At(c, "test")
  /\ \/ Proceeds(c)
     \/ Goes(c, Sleep(cpu[c].proc, tickslock) \o Code(c))
  /\ UNCHANGED <<cpu, lock, state>>

Next == \E c \in CPUs :
  \/ AcquireStep(c) \/ Spin(c) \/ ReleaseStep(c) \/ SetState(c)
  \/ SchedStep(c) \/ Resume(c) \/ Loop(c) \/ Pick(c) \/ PassOver(c) \/ Gone(c) \/ Wake(c)
  \/ Syscall(c) \/ Interrupt(c) \/ Tick(c) \/ Sret(c) \/ IntrOff(c) \/ Test(c)

Spec == Init /\ [][Next]_vars

-----------------------------------------------------------------------------
TypeOK ==
  /\ cpu \in [CPUs -> [proc : 0..NPROC, ctx : 0..NPROC, noff : 0..2, intena : BOOLEAN, intr : BOOLEAN]]
  /\ lock \in [Locks -> {Nobody} \cup CPUs]
  /\ state \in [Procs -> {"RUNNABLE", "RUNNING", "SLEEPING"}]

\* No panic of spinlock.c or sched() is reached: a lock is taken once, released
\* by the CPU that has it, and a process gives up its CPU with its own lock
\* alone.
NoPanic == \A c \in CPUs :
  /\ At(c, "acquire") => ~CannotAcquire(c, Arg(c))
  /\ At(c, "release") => ~CannotRelease(c, Arg(c))
  /\ At(c, "sched") => ~CannotSched(c, cpu[c].proc)

\* A lock names the CPU of the one thread that is going to release it, though
\* p->lock is taken by one thread and released by another, and processes change
\* their CPU in between.
Owes(t) == {l \in Locks : \E k \in DOMAIN todo[t] :
  /\ todo[t][k] = Release(l)
  /\ \A j \in 1..k - 1 : todo[t][j] \notin {Acquire(l), Op("spin", l)}}
LocksExact == \A c \in CPUs : {l \in Locks : lock[l] = c} = Owes(Thread(c))

\* noff counts the locks that the CPU has or waits for, and interrupts are off
\* while there is one: no handler can wait for a lock of the code it interrupts.
NoffExact == \A c \in CPUs :
  /\ cpu[c].noff = Cardinality({l \in Locks : lock[l] = c}) + (IF At(c, "spin") THEN 1 ELSE 0)
  /\ cpu[c].noff > 0 => ~cpu[c].intr

\* Without a lock, interrupts are on in a system call and in user space and off
\* in a handler, on whatever CPU the process began and has come to (proc.c:494-500).
InHandler(t) == LET sret == {k \in DOMAIN todo[t] : todo[t][k].op = "sret"} IN
  \E k \in sret : \A j \in 1..k - 1 : todo[t][j].op \notin {"on", "off", "sret", "forkret"}
IntrExact == \A c \in CPUs : cpu[c].ctx # 0 /\ cpu[c].noff = 0 =>
  /\ InHandler(Thread(c)) => ~cpu[c].intr
  /\ ~InHandler(Thread(c)) /\ ~At(c, "on") /\ ~At(c, "forkret") => cpu[c].intr

\* A process is on one CPU, although other schedulers look at it while it
\* leaves.
OneCpu == \A c, d \in CPUs : c # d /\ cpu[c].ctx # 0 => cpu[c].ctx # cpu[d].ctx

\* CPUs do not wait for each other's locks: p->lock comes after the others.
NoDeadlock == ~\E S \in SUBSET CPUs : S # {} /\ \A c \in S : At(c, "spin") /\ lock[Arg(c)] \in S
=============================================================================
