------------------------------ MODULE Syscall ------------------------------
(***************************************************************************)
(* Traps and system calls (kernel/trap.c, syscall.c, sysproc.c) as a process *)
(* sees them: when a killed process stops, how long sleep() lasts, and what  *)
(* the call counter and the trace flag of a slot say.  Proc has the locks of *)
(* fork(), exit(), wait() and kill(); here each is a step, except that a     *)
(* kill can fall between a test of the flag and the sleep that follows, of   *)
(* sleep() under tickslock and of wait() under wait_lock.                    *)
(***************************************************************************)
EXTENDS Integers, FiniteSets

CONSTANTS
  Slots,      \* the process table; slot 1 is init
  TickMod,    \* ticks is modulo TickMod
  Sleeps,     \* what sleep() is asked for; negative numbers are large, unsigned
  MaxForks,   \* bound
  MaxCalls,   \* bound: calls of a process other than init
  None

VARIABLES
  pc,       \* each slot: unused, user, trap (a timer or a fault), check, zombie,
            \* or where the process is in a call
  parent, killed,
  strace, counter,   \* fields that freeproc() and allocproc() leave alone
  ticks,
  ticks0, n,         \* sys_sleep()'s locals
  elapsed,  \* history: true number of ticks since a sleep() began, up to TickMod
  calls,    \* history: the calls this process has completed
  forks

flags == <<strace, counter>>
slept == <<ticks, ticks0, n, elapsed>>
history == <<calls, forks>>
vars == <<pc, parent, killed, flags, slept, history>>

Init ==
  /\ pc = [p \in Slots |-> IF p = 1 THEN "user" ELSE "unused"]
  /\ parent = [p \in Slots |-> None]
  /\ killed = [p \in Slots |-> FALSE]
  /\ strace = [p \in Slots |-> FALSE] /\ counter = [p \in Slots |-> 0]
  /\ ticks = 0
  /\ ticks0 = [p \in Slots |-> 0] /\ n = [p \in Slots |-> 0] /\ elapsed = [p \in Slots |-> 0]
  /\ calls = [p \in Slots |-> 0]
  /\ forks = 0

Go(p, q) == pc' = [pc EXCEPT ![p] = q]
Live(p) == pc[p] \notin {"unused", "zombie"}
Children(p) == {c \in Slots : parent[c] = p /\ pc[c] # "unused"}

\* The end of a known call in syscall(): the counter, whatever the result.
Done(p) ==
  /\ counter' = [counter EXCEPT ![p] = @ + 1]
  /\ calls' = [calls EXCEPT ![p] = @ + 1]

\* A process that waits has wait_lock from its test to its sleep.
WaitLockFree == \A q \in Slots : pc[q] # "wait tested"

\* exit(): children go to init, and init and the parent are woken.
Exit(p) ==
  LET woken == {q \in {1, parent[p]} \cap Slots : pc[q] = "wait asleep"} IN
    /\ WaitLockFree
    /\ pc' = [q \in Slots |-> IF q = p THEN "zombie" ELSE IF q \in woken THEN "wait" ELSE pc[q]]
    /\ parent' = [q \in Slots |-> IF parent[q] = p THEN 1 ELSE parent[q]]
    /\ UNCHANGED <<killed, flags, slept, history>>

-----------------------------------------------------------------------------
(* usertrap().                                                              *)
\* A system call: a process that is killed already exits first.
Enter(p, call) ==
  /\ pc[p] = "user" /\ ~killed[p] /\ calls[p] < IF p = 1 THEN 2 * MaxForks ELSE MaxCalls
  /\ Go(p, call)
  /\ UNCHANGED <<parent, killed, flags, slept, history>>
EnterKilled(p) ==
  /\ pc[p] = "user" /\ killed[p] /\ p # 1
  /\ Exit(p)
\* A device or the timer interrupts, and the process may have to yield.
Interrupt(p) ==
  /\ pc[p] = "user" /\ Go(p, "check")
  /\ UNCHANGED <<parent, killed, flags, slept, history>>
Fault(p) ==
  /\ pc[p] = "user" /\ p # 1
  /\ killed' = [killed EXCEPT ![p] = TRUE] /\ Go(p, "check")
  /\ UNCHANGED <<parent, flags, slept, history>>
\* The way back to user space.
\* Mutant: the flag is not looked at.
ReturnAnyway(p) ==
  /\ pc[p] = "check"
  /\ Go(p, "user")
  /\ UNCHANGED <<parent, killed, flags, slept, history>>
Return(p) ==
  /\ pc[p] = "check" /\ ~killed[p]
  /\ Go(p, "user")
  /\ UNCHANGED <<parent, killed, flags, slept, history>>
ReturnKilled(p) ==
  /\ pc[p] = "check" /\ killed[p] /\ p # 1
  /\ Exit(p)

-----------------------------------------------------------------------------
\* A call that only returns, failed or not.
Plain(p) ==
  /\ pc[p] = "plain" /\ Go(p, "check") /\ Done(p)
  /\ UNCHANGED <<parent, killed, strace, slept, forks>>
Unknown(p) ==
  /\ pc[p] = "unknown" /\ Go(p, "check")
  /\ UNCHANGED <<parent, killed, flags, slept, history>>
SysStrace(p) ==
  /\ pc[p] = "strace" /\ Go(p, "check") /\ Done(p)
  /\ strace' = [strace EXCEPT ![p] = TRUE]
  /\ UNCHANGED <<parent, killed, slept, forks>>
\* The call itself is counted after it.
SysBenchmarkReset(p) ==
  /\ pc[p] = "reset" /\ Go(p, "check")
  /\ counter' = [counter EXCEPT ![p] = 1]
  /\ calls' = [calls EXCEPT ![p] = @ + 1]
  /\ UNCHANGED <<parent, killed, strace, slept, forks>>
SysExit(p) == pc[p] = "exit" /\ Exit(p)

SysFork(p) ==
  /\ pc[p] = "fork" /\ Done(p)
  /\ \/ /\ WaitLockFree /\ forks < MaxForks /\ forks' = forks + 1
        /\ \E c \in Slots :
             /\ pc[c] = "unused" /\ \A d \in Slots : pc[d] = "unused" => c <= d
             /\ pc' = [pc EXCEPT ![p] = "check", ![c] = "user"]
             /\ parent' = [parent EXCEPT ![c] = p]
     \/ Go(p, "check") /\ UNCHANGED <<parent, forks>>   \* no slot or no memory
  /\ UNCHANGED <<killed, strace, slept>>

\* wait2(), with a copyout that may fail; freeproc().
Reap(p, c) ==
  /\ pc[p] = "wait" /\ WaitLockFree /\ c \in Children(p) /\ pc[c] = "zombie"
  /\ pc' = [pc EXCEPT ![p] = "check", ![c] = "unused"]
  /\ parent' = [parent EXCEPT ![c] = None]
  /\ killed' = [killed EXCEPT ![c] = FALSE]
  /\ counter' = [counter EXCEPT ![p] = @ + 1]
  /\ calls' = [calls EXCEPT ![p] = @ + 1, ![c] = 0]
  /\ UNCHANGED <<strace, slept, forks>>
WaitFails(p) ==
  /\ pc[p] = "wait" /\ WaitLockFree
  /\ (\E c \in Children(p) : pc[c] = "zombie") \/ Children(p) = {} \/ killed[p]
  /\ Go(p, "check") /\ Done(p)
  /\ UNCHANGED <<parent, killed, strace, slept, forks>>
WaitTest(p) ==
  /\ pc[p] = "wait" /\ WaitLockFree
  /\ ~killed[p] /\ Children(p) # {} /\ \A c \in Children(p) : pc[c] # "zombie"
  /\ Go(p, "wait tested")
  /\ UNCHANGED <<parent, killed, flags, slept, history>>
WaitAsleep(p) ==
  /\ pc[p] = "wait tested" /\ Go(p, "wait asleep")
  /\ UNCHANGED <<parent, killed, flags, slept, history>>

-----------------------------------------------------------------------------
(* sys_sleep(): n is converted to unsigned for the comparison.               *)
SysSleep(p, k) ==
  /\ pc[p] = "sleep" /\ Go(p, "sleep loop")
  /\ ticks0' = [ticks0 EXCEPT ![p] = ticks] /\ n' = [n EXCEPT ![p] = k % TickMod]
  /\ elapsed' = [elapsed EXCEPT ![p] = 0]
  /\ UNCHANGED <<parent, killed, flags, ticks, history>>
\* Mutant: compares the times, not their distance.
SleepDoneAt(p) == ticks >= (ticks0[p] + n[p]) % TickMod
SleepDone(p) == (ticks - ticks0[p]) % TickMod >= n[p]
SleepEnd(p) ==
  /\ pc[p] = "sleep loop" /\ (SleepDone(p) \/ killed[p])
  /\ Go(p, "check") /\ Done(p)
  /\ n' = [n EXCEPT ![p] = 0] /\ ticks0' = [ticks0 EXCEPT ![p] = 0] /\ elapsed' = [elapsed EXCEPT ![p] = 0]
  /\ UNCHANGED <<parent, killed, strace, ticks, forks>>
\* The flag has been read; tickslock is held, so that no tick is missed.
SleepTest(p) ==
  /\ pc[p] = "sleep loop" /\ ~SleepDone(p) /\ ~killed[p]
  /\ Go(p, "tested")
  /\ UNCHANGED <<parent, killed, flags, slept, history>>
SleepAsleep(p) ==
  /\ pc[p] = "tested" /\ Go(p, "asleep")
  /\ UNCHANGED <<parent, killed, flags, slept, history>>

\* clockintr().
\* Mutant: nobody is woken.
TickWakesNone(q) == q
TickWakes(q) == IF q = "asleep" THEN "sleep loop" ELSE q
\* Bound: a sleeper whose time has come gets a CPU before the clock has turned, but
\* for one that asked for the whole turn and has a single tick for it.
Short(p) == n[p] < TickMod - 1
InTime(p) ==
  pc[p] = "sleep loop" /\ Short(p) /\ SleepDone(p) => (ticks - ticks0[p]) % TickMod < TickMod - 1
Tick ==
  /\ \A p \in Slots : pc[p] # "tested" /\ InTime(p)
  /\ ticks' = (ticks + 1) % TickMod
  /\ pc' = [p \in Slots |-> TickWakes(pc[p])]
  /\ elapsed' = [p \in Slots |-> IF pc[p] \in {"sleep loop", "asleep"} /\ elapsed[p] < TickMod
                                THEN elapsed[p] + 1 ELSE elapsed[p]]
  /\ UNCHANGED <<parent, killed, flags, ticks0, n, history>>

\* kill() of p by somebody; init is not killed.
Kill(p) ==
  /\ Live(p) /\ p # 1 /\ ~killed[p]
  /\ killed' = [killed EXCEPT ![p] = TRUE]
  /\ pc' = [pc EXCEPT ![p] = CASE @ = "asleep" -> "sleep loop" [] @ = "wait asleep" -> "wait" [] OTHER -> @]
  /\ UNCHANGED <<parent, flags, slept, history>>

KernelStep(p) ==
  \/ Return(p) \/ ReturnKilled(p) \/ Plain(p) \/ Unknown(p) \/ SysStrace(p) \/ SysBenchmarkReset(p)
  \/ SysExit(p) \/ SysFork(p) \/ (\E c \in Slots : Reap(p, c)) \/ WaitFails(p) \/ WaitTest(p) \/ WaitAsleep(p)
  \/ (\E k \in Sleeps : SysSleep(p, k)) \/ SleepEnd(p) \/ SleepTest(p) \/ SleepAsleep(p)
\* init forks and waits (user/init.c).
Calls == {"plain", "unknown", "strace", "reset", "fork", "wait", "sleep", "exit"}
UserStep(p) ==
  \/ \E call \in IF p = 1 THEN {"fork", "wait"} ELSE Calls : Enter(p, call)
  \/ EnterKilled(p) \/ Fault(p)
Next ==
  \/ \E p \in Slots : KernelStep(p) \/ UserStep(p) \/ Interrupt(p) \/ Kill(p)
  \/ Tick

\* A process in the kernel goes on, timers interrupt user code, the clock runs.
Fairness ==
  /\ \A p \in Slots : WF_vars(KernelStep(p)) /\ WF_vars(Interrupt(p) \/ UserStep(p))
  /\ WF_vars(Tick)
Spec == Init /\ [][Next]_vars /\ Fairness

-----------------------------------------------------------------------------
TypeOK ==
  /\ ticks \in 0..TickMod - 1
  /\ \A p \in Slots : counter[p] \in Nat /\ calls[p] \in Nat /\ n[p] \in 0..TickMod - 1

\* sleep(n) lasts n ticks at least, also when ticks wraps (sysproc.c:78), unless
\* the process is killed.
SleptLongEnough == \A p \in Slots :
  pc[p] = "sleep loop" /\ pc'[p] = "check" /\ ~killed[p] => elapsed[p] >= n[p]
SleepLongEnough == [][SleptLongEnough]_vars

\* A killed process stops, wherever it is when it is killed, unless it has
\* already decided to wait for a child (trap.c:56-77, sysproc.c:79, proc.c:602).
KilledStops == \A p \in Slots : killed[p] ~> (~killed[p] \/ pc[p] \in {"zombie", "wait asleep"})

\* sleep() ends, unless it was asked for all but one tick of a turn of the clock:
\* whoever is late for that tick sleeps for another turn.
InSleep(p) == pc[p] \in {"sleep loop", "tested", "asleep"}
SleepEnds == \A p \in Slots : (InSleep(p) /\ Short(p)) ~> ~InSleep(p)
=============================================================================
