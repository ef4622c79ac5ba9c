--------------------------- MODULE ProcessesProofs ---------------------------
(***************************************************************************)
(* The invariant of the process table, for any number of slots and of CPUs   *)
(* and any pids, and the theorems of PipeProofs and SpinProofs, as properties *)
(* of MCProcesses, in which a pipe, the process table and the spin locks run  *)
(* apart.  A step of one of them leaves the others alone, so the invariant of *)
(* each is kept.                                                              *)
(***************************************************************************)
EXTENDS MCProcesses, FiniteSetTheorems, TLAPS

PiP == INSTANCE PipeProofs WITH None <- Nil
SpP == INSTANCE SpinProofs WITH NPROC <- SpinProcs, NCPU <- SpinCPUs

-----------------------------------------------------------------------------
(* The invariant of the process table.                                      *)

ForkPC == {"f_copy", "f_parent", "f_run"}
HoldPC == {"w_scan", "w_block", "x_reparent", "x_wake", "x_zombie"}
ExitPC == {"x_lock", "x_reparent", "x_wake", "x_zombie"}

\* The state of a slot and the place of its thread agree.
Threads ==
  \A p \in Pr!Slot :
    /\ state[p] \in {"UNUSED", "USED"} <=> pc[p] = "none"
    /\ state[p] = "ZOMBIE" <=> pc[p] = "dead"
    /\ state[p] = "SLEEPING" => pc[p] = "w_asleep" /\ chan[p] = p
    /\ state[p] = "RUNNABLE" => pc[p] \in {"user", "w_asleep"}
    /\ state[p] = "RUNNING" => pc[p] # "w_asleep"

\* A stack is in use while its process runs and until the scheduler has left it,
\* and until then p->lock is held.
Stacks ==
  \A p \in Pr!Slot :
    /\ p \in oncpu <=> state[p] = "RUNNING" \/ plock[p] = p
    /\ plock[p] = p => state[p] \in {"RUNNABLE", "SLEEPING", "ZOMBIE"}

\* A slot that fork fills in is the caller's alone.
Forks ==
  /\ \A p \in Pr!Slot : np[p] # Pr!None <=> pc[p] \in ForkPC
  /\ \A p \in Pr!Slot : np[p] # Pr!None => state[np[p]] = "USED"
  /\ \A p, q \in Pr!Slot : np[p] # Pr!None /\ np[p] = np[q] => p = q
  /\ \A p \in Pr!Slot : pc[p] = "f_copy" => plock[np[p]] = p
  /\ \A p \in Pr!Slot : pc[p] \in {"f_copy", "f_parent"} => parent[np[p]] = Pr!None
  /\ \A p \in Pr!Slot : pc[p] = "f_run" => parent[np[p]] = p

Pids == Pr!UniquePid /\ \A p \in Pr!Slot : pid[p] < nextpid

Tree ==
  /\ Pr!ParentCanWait
  /\ \A p \in Pr!Slot : state[p] \notin {"UNUSED", "USED"} /\ p # Pr!initproc => parent[p] # Pr!None
  /\ \A p \in Pr!Slot : state[p] = "UNUSED" => parent[p] = Pr!None
  /\ state[Pr!initproc] \notin {"UNUSED", "USED", "ZOMBIE"} /\ parent[Pr!initproc] = Pr!None

Holder == \A p \in Pr!Slot : pc[p] \in HoldPC <=> wait_lock = p

\* Whoever sleeps in wait, or is about to, has a child and no dead one.
Waits ==
  \A p \in Pr!Slot :
    state[p] = "SLEEPING" \/ pc[p] = "w_block" => Pr!Children(p) # {} /\ Pr!Zombies(p) = {}

\* Whoever exits has handed its children over, then woken its parent.
Exits ==
  \A p \in Pr!Slot :
    /\ pc[p] \in ExitPC => p # Pr!initproc
    /\ pc[p] \in {"x_wake", "x_zombie"} => Pr!Children(p) = {}
    /\ pc[p] = "x_zombie" => state[parent[p]] # "SLEEPING"

Kills == 0 \notin named => \A p \in Pr!Slot : killed[p] => pid[p] \in named

ProcInv ==
  Pr!TypeOK /\ Threads /\ Stacks /\ Forks /\ Pids /\ Tree /\ Holder /\ Waits /\ Exits /\ Kills

LEMMA ProcSizes ==
  /\ NPROC \in Nat \ {0} /\ NCPU \in Nat \ {0} /\ MaxPid \in Nat \ {0}
  /\ KillPids \subseteq Nat
BY ProcessesAssumption DEF Pr!ProcAssumption

LEMMA SlotFacts ==
  Pr!Slot \subseteq Nat \ {0} /\ Pr!initproc \in Pr!Slot /\ Pr!None \notin Pr!Slot /\ IsFiniteSet(Pr!Slot)
<1>1. IsFiniteSet(Pr!Slot)
  BY ProcSizes, FS_Interval DEF Pr!Slot
<1> QED
  BY <1>1, ProcSizes DEF Pr!Slot, Pr!initproc, Pr!None

\* The instance counts as the library does.
LEMMA SameCardinality == ASSUME NEW S PROVE Pr!Cardinality(S) = Cardinality(S)
BY DEF Pr!Cardinality, Cardinality

\* The scan of the table finds the zombie with the lowest slot.
LEMMA FirstIsMember ==
  ASSUME NEW S \in SUBSET Pr!Slot, S # {}
  PROVE  Pr!FirstOf(S) \in S
<1>1. S \in SUBSET Nat
  BY SlotFacts
<1>2. \E q \in S : \A r \in S : q <= r
  BY <1>1, SpP!Least
<1> QED
  BY <1>2 DEF Pr!FirstOf

\* One more stack, or one fewer, in use.
LEMMA StacksInUse ==
  ASSUME oncpu \subseteq Pr!Slot, Pr!Cardinality(oncpu) <= NCPU, NEW p \in Pr!Slot
  PROVE  /\ Pr!Cardinality(oncpu) < NCPU => Pr!Cardinality(oncpu \cup {p}) <= NCPU
         /\ Pr!Cardinality(oncpu \ {p}) <= NCPU
<1>1. IsFiniteSet(oncpu)
  BY SlotFacts, FS_Subset
<1>2. Cardinality(oncpu) \in Nat
  BY <1>1, FS_CardinalityType
<1>3. /\ Cardinality(oncpu \cup {p}) <= Cardinality(oncpu) + 1
      /\ Cardinality(oncpu \ {p}) <= Cardinality(oncpu)
  <2>1. /\ Cardinality(oncpu \cup {p}) =
             IF p \in oncpu THEN Cardinality(oncpu) ELSE Cardinality(oncpu) + 1
        /\ Cardinality(oncpu \ {p}) = IF p \in oncpu THEN Cardinality(oncpu) - 1 ELSE Cardinality(oncpu)
    BY <1>1, FS_AddElement, FS_RemoveElement
  <2> QED
    BY <1>2, <2>1
<1>4. Cardinality(oncpu \cup {p}) \in Nat /\ Cardinality(oncpu \ {p}) \in Nat
  BY <1>1, FS_AddElement, FS_RemoveElement, FS_CardinalityType
<1>5. NCPU \in Nat
  BY ProcSizes
<1>6. /\ Cardinality(oncpu) <= NCPU
      /\ Pr!Cardinality(oncpu \cup {p}) = Cardinality(oncpu \cup {p})
      /\ Pr!Cardinality(oncpu \ {p}) = Cardinality(oncpu \ {p})
      /\ Pr!Cardinality(oncpu) = Cardinality(oncpu)
  BY SameCardinality
<1> QED
  BY <1>2, <1>3, <1>4, <1>5, <1>6

\* The slot that fork fills in.
LEMMA FilledSlot ==
  ASSUME ProcInv, NEW p \in Pr!Slot, pc[p] \in ForkPC
  PROVE  np[p] \in Pr!Slot \ {p} /\ state[np[p]] = "USED" /\ pc[np[p]] = "none"
BY DEF ProcInv, Pr!TypeOK, Forks, Threads, ForkPC

LEMMA ProcInit == Pr!Init => ProcInv
<1> SUFFICES ASSUME Pr!Init PROVE ProcInv
  OBVIOUS
<1> USE ProcSizes, SlotFacts DEF Pr!Init
<1>1. Pr!TypeOK
  <2>1. Pr!Cardinality(oncpu) <= NCPU
    BY FS_EmptySet, SameCardinality
  <2> QED
    BY <2>1 DEF Pr!TypeOK, Pr!States, Pr!PC, Pr!None
<1>2. Threads /\ Stacks /\ Kills
  BY DEF Threads, Stacks, Kills
<1>3. Forks /\ Holder
  BY DEF Forks, Holder, ForkPC, HoldPC, Pr!None
<1>4. Pids
  BY DEF Pids, Pr!UniquePid
<1>5. Tree
  BY DEF Tree, Pr!ParentCanWait, Pr!None
<1>6. Waits /\ Exits
  BY DEF Waits, Exits, ExitPC
<1> QED
  BY <1>1, <1>2, <1>3, <1>4, <1>5, <1>6 DEF ProcInv

LEMMA RunInv == ASSUME ProcInv, NEW p \in Pr!Slot, Pr!Run(p) PROVE ProcInv'
<1> USE SlotFacts, ProcSizes DEF ProcInv, Pr!TypeOK, Pr!Run, Pr!Free
<1>1. Pr!TypeOK'
  BY StacksInUse DEF Pr!PC, Pr!States
<1>2. Threads'
  BY DEF Threads
<1>3. Stacks'
  BY DEF Stacks
<1>4. Forks'
  BY DEF Forks, ForkPC, Threads, Stacks, Tree
<1>5. Pids'
  BY DEF Pids, Pr!UniquePid
<1>6. Tree'
  BY DEF Tree, Pr!ParentCanWait, Threads, Forks, Exits, ExitPC
<1>7. Holder'
  BY DEF Holder, HoldPC, Threads
<1>8. Waits'
  BY DEF Waits, Pr!Children, Pr!Zombies, Holder, HoldPC, Threads, Tree, Forks, Exits
<1>9. Exits'
  BY DEF Exits, ExitPC, Pr!Children, Pr!Zombies, Holder, HoldPC, Threads, Tree, Pr!ParentCanWait,
     Forks
<1>10. Kills'
  BY DEF Kills
<1> QED
  BY <1>1, <1>2, <1>3, <1>4, <1>5, <1>6, <1>7, <1>8, <1>9, <1>10

LEMMA SwitchOutInv == ASSUME ProcInv, NEW p \in Pr!Slot, Pr!SwitchOut(p) PROVE ProcInv'
<1> USE SlotFacts, ProcSizes DEF ProcInv, Pr!TypeOK, Pr!SwitchOut, Pr!table
<1>1. Pr!TypeOK'
  BY StacksInUse DEF Pr!PC, Pr!States
<1>2. Threads'
  BY DEF Threads
<1>3. Stacks'
  BY DEF Stacks
<1>4. Forks'
  BY DEF Forks, ForkPC, Threads, Stacks, Tree
<1>5. Pids'
  BY DEF Pids, Pr!UniquePid
<1>6. Tree'
  BY DEF Tree, Pr!ParentCanWait, Threads, Forks, Exits, ExitPC
<1>7. Holder'
  BY DEF Holder, HoldPC, Threads
<1>8. Waits'
  BY DEF Waits, Pr!Children, Pr!Zombies, Holder, HoldPC, Threads, Tree, Forks, Exits
<1>9. Exits'
  BY DEF Exits, ExitPC, Pr!Children, Pr!Zombies, Holder, HoldPC, Threads, Tree, Pr!ParentCanWait,
     Forks
<1>10. Kills'
  BY DEF Kills
<1> QED
  BY <1>1, <1>2, <1>3, <1>4, <1>5, <1>6, <1>7, <1>8, <1>9, <1>10

LEMMA YieldInv == ASSUME ProcInv, NEW p \in Pr!Slot, Pr!Yield(p) PROVE ProcInv'
<1> USE SlotFacts, ProcSizes DEF ProcInv, Pr!TypeOK, Pr!Yield, Pr!At, Pr!Free, Pr!Running
<1>1. Pr!TypeOK'
  BY DEF Pr!PC, Pr!States
<1>2. Threads'
  BY DEF Threads
<1>3. Stacks'
  BY DEF Stacks
<1>4. Forks'
  BY DEF Forks, ForkPC, Threads, Stacks, Tree
<1>5. Pids'
  BY DEF Pids, Pr!UniquePid
<1>6. Tree'
  BY DEF Tree, Pr!ParentCanWait, Threads, Forks, Exits, ExitPC
<1>7. Holder'
  BY DEF Holder, HoldPC, Threads
<1>8. Waits'
  BY DEF Waits, Pr!Children, Pr!Zombies, Holder, HoldPC, Threads, Tree, Forks, Exits
<1>9. Exits'
  BY DEF Exits, ExitPC, Pr!Children, Pr!Zombies, Holder, HoldPC, Threads, Tree, Pr!ParentCanWait,
     Forks
<1>10. Kills'
  BY DEF Kills
<1> QED
  BY <1>1, <1>2, <1>3, <1>4, <1>5, <1>6, <1>7, <1>8, <1>9, <1>10

LEMMA ForkAllocInv ==
  ASSUME ProcInv, NEW p \in Pr!Slot, NEW q \in Pr!Slot, Pr!ForkAlloc(p, q) PROVE ProcInv'
<1> USE SlotFacts, ProcSizes DEF ProcInv, Pr!TypeOK, Pr!ForkAlloc, Pr!MayCall, Pr!Goto, Pr!Free,
        Pr!At, Pr!Running
<1>1. Pr!TypeOK'
  BY DEF Pr!PC, Pr!States
<1>2. Threads'
  BY DEF Threads
<1>3. Stacks'
  BY DEF Stacks
<1>4. Forks'
  BY DEF Forks, ForkPC, Threads, Stacks, Tree
<1>5. Pids'
  BY DEF Pids, Pr!UniquePid
<1>6. Tree'
  BY DEF Tree, Pr!ParentCanWait, Threads, Forks, Exits, ExitPC
<1>7. Holder'
  BY DEF Holder, HoldPC, Threads
<1>8. Waits'
  BY DEF Waits, Pr!Children, Pr!Zombies, Holder, HoldPC, Threads, Tree, Forks, Exits
<1>9. Exits'
  BY DEF Exits, ExitPC, Pr!Children, Pr!Zombies, Holder, HoldPC, Threads, Tree, Pr!ParentCanWait,
     Forks
<1>10. Kills'
  BY DEF Kills
<1> QED
  BY <1>1, <1>2, <1>3, <1>4, <1>5, <1>6, <1>7, <1>8, <1>9, <1>10

LEMMA ForkNoneInv == ASSUME ProcInv, NEW p \in Pr!Slot, Pr!ForkNone(p) PROVE ProcInv'
<1> USE SlotFacts, ProcSizes DEF ProcInv, Pr!TypeOK, Pr!ForkNone, Pr!MayCall, Pr!Goto, Pr!table,
        Pr!At, Pr!Running
<1>1. Pr!TypeOK'
  BY DEF Pr!PC, Pr!States
<1>2. Threads'
  BY DEF Threads
<1>3. Stacks'
  BY DEF Stacks
<1>4. Forks'
  BY DEF Forks, ForkPC, Threads, Stacks, Tree
<1>5. Pids'
  BY DEF Pids, Pr!UniquePid
<1>6. Tree'
  BY DEF Tree, Pr!ParentCanWait, Threads, Forks, Exits, ExitPC
<1>7. Holder'
  BY DEF Holder, HoldPC, Threads
<1>8. Waits'
  BY DEF Waits, Pr!Children, Pr!Zombies, Holder, HoldPC, Threads, Tree, Forks, Exits
<1>9. Exits'
  BY DEF Exits, ExitPC, Pr!Children, Pr!Zombies, Holder, HoldPC, Threads, Tree, Pr!ParentCanWait,
     Forks
<1>10. Kills'
  BY DEF Kills
<1> QED
  BY <1>1, <1>2, <1>3, <1>4, <1>5, <1>6, <1>7, <1>8, <1>9, <1>10

LEMMA ForkFailInv == ASSUME ProcInv, NEW p \in Pr!Slot, Pr!ForkFail(p) PROVE ProcInv'
<1> USE SlotFacts, ProcSizes DEF ProcInv, Pr!TypeOK, Pr!ForkFail, Pr!At, Pr!Goto, Pr!FreeProc,
        Pr!Running
<1>0. np[p] \in Pr!Slot \ {p} /\ state[np[p]] = "USED" /\ pc[np[p]] = "none"
  <2>1. pc[p] \in ForkPC
    BY DEF ForkPC
  <2> QED
    BY <2>1, FilledSlot
<1>1. Pr!TypeOK'
  BY <1>0 DEF Pr!PC, Pr!States
<1>2. Threads'
  BY <1>0 DEF Threads
<1>3. Stacks'
  BY <1>0 DEF Stacks
<1>4. Forks'
  BY <1>0 DEF Forks, ForkPC, Threads, Stacks, Tree
<1>5. Pids'
  BY <1>0 DEF Pids, Pr!UniquePid
<1>6. Tree'
  BY <1>0 DEF Tree, Pr!ParentCanWait, Threads, Forks, Exits, ExitPC
<1>7. Holder'
  BY <1>0 DEF Holder, HoldPC, Threads
<1>8. Waits'
  BY <1>0 DEF Waits, Pr!Children, Pr!Zombies, Holder, HoldPC, Threads, Tree, Forks, Exits
<1>9. Exits'
  BY <1>0 DEF Exits, ExitPC, Pr!Children, Pr!Zombies, Holder, HoldPC, Threads, Tree,
     Pr!ParentCanWait, Forks
<1>10. Kills'
  BY <1>0 DEF Kills
<1> QED
  BY <1>1, <1>2, <1>3, <1>4, <1>5, <1>6, <1>7, <1>8, <1>9, <1>10

LEMMA ForkCopyInv == ASSUME ProcInv, NEW p \in Pr!Slot, Pr!ForkCopy(p) PROVE ProcInv'
<1> USE SlotFacts, ProcSizes DEF ProcInv, Pr!TypeOK, Pr!ForkCopy, Pr!At, Pr!Goto, Pr!table,
        Pr!Running
<1>0. np[p] \in Pr!Slot \ {p} /\ state[np[p]] = "USED" /\ pc[np[p]] = "none"
  <2>1. pc[p] \in ForkPC
    BY DEF ForkPC
  <2> QED
    BY <2>1, FilledSlot
<1>1. Pr!TypeOK'
  BY <1>0 DEF Pr!PC, Pr!States
<1>2. Threads'
  BY <1>0 DEF Threads
<1>3. Stacks'
  BY <1>0 DEF Stacks
<1>4. Forks'
  BY <1>0 DEF Forks, ForkPC, Threads, Stacks, Tree
<1>5. Pids'
  BY <1>0 DEF Pids, Pr!UniquePid
<1>6. Tree'
  BY <1>0 DEF Tree, Pr!ParentCanWait, Threads, Forks, Exits, ExitPC
<1>7. Holder'
  BY <1>0 DEF Holder, HoldPC, Threads
<1>8. Waits'
  BY <1>0 DEF Waits, Pr!Children, Pr!Zombies, Holder, HoldPC, Threads, Tree, Forks, Exits
<1>9. Exits'
  BY <1>0 DEF Exits, ExitPC, Pr!Children, Pr!Zombies, Holder, HoldPC, Threads, Tree,
     Pr!ParentCanWait, Forks
<1>10. Kills'
  BY <1>0 DEF Kills
<1> QED
  BY <1>1, <1>2, <1>3, <1>4, <1>5, <1>6, <1>7, <1>8, <1>9, <1>10

LEMMA ForkParentInv == ASSUME ProcInv, NEW p \in Pr!Slot, Pr!ForkParent(p) PROVE ProcInv'
<1> USE SlotFacts, ProcSizes DEF ProcInv, Pr!TypeOK, Pr!ForkParent, Pr!At, Pr!Goto, Pr!Free,
        Pr!Running
<1>0. np[p] \in Pr!Slot \ {p} /\ state[np[p]] = "USED" /\ pc[np[p]] = "none"
  <2>1. pc[p] \in ForkPC
    BY DEF ForkPC
  <2> QED
    BY <2>1, FilledSlot
<1>1. Pr!TypeOK'
  BY <1>0 DEF Pr!PC, Pr!States
<1>2. Threads'
  BY <1>0 DEF Threads
<1>3. Stacks'
  BY <1>0 DEF Stacks
<1>4. Forks'
  BY <1>0 DEF Forks, ForkPC, Threads, Stacks, Tree
<1>5. Pids'
  BY <1>0 DEF Pids, Pr!UniquePid
<1>6. Tree'
  BY <1>0 DEF Tree, Pr!ParentCanWait, Threads, Forks, Exits, ExitPC
<1>7. Holder'
  BY <1>0 DEF Holder, HoldPC, Threads
<1>8. Waits'
  BY <1>0 DEF Waits, Pr!Children, Pr!Zombies, Holder, HoldPC, Threads, Tree, Forks, Exits
<1>9. Exits'
  BY <1>0 DEF Exits, ExitPC, Pr!Children, Pr!Zombies, Holder, HoldPC, Threads, Tree,
     Pr!ParentCanWait, Forks
<1>10. Kills'
  BY <1>0 DEF Kills
<1> QED
  BY <1>1, <1>2, <1>3, <1>4, <1>5, <1>6, <1>7, <1>8, <1>9, <1>10

LEMMA ForkRunInv == ASSUME ProcInv, NEW p \in Pr!Slot, Pr!ForkRun(p) PROVE ProcInv'
<1> USE SlotFacts, ProcSizes DEF ProcInv, Pr!TypeOK, Pr!ForkRun, Pr!At, Pr!Free, Pr!Running
<1>0. np[p] \in Pr!Slot \ {p} /\ state[np[p]] = "USED" /\ pc[np[p]] = "none"
  <2>1. pc[p] \in ForkPC
    BY DEF ForkPC
  <2> QED
    BY <2>1, FilledSlot
<1>1. Pr!TypeOK'
  BY <1>0 DEF Pr!PC, Pr!States
<1>2. Threads'
  BY <1>0 DEF Threads
<1>3. Stacks'
  BY <1>0 DEF Stacks
<1>4. Forks'
  BY <1>0 DEF Forks, ForkPC, Threads, Stacks, Tree
<1>5. Pids'
  BY <1>0 DEF Pids, Pr!UniquePid
<1>6. Tree'
  BY <1>0 DEF Tree, Pr!ParentCanWait, Threads, Forks, Exits, ExitPC
<1>7. Holder'
  BY <1>0 DEF Holder, HoldPC, Threads
<1>8. Waits'
  BY <1>0 DEF Waits, Pr!Children, Pr!Zombies, Holder, HoldPC, Threads, Tree, Forks, Exits
<1>9. Exits'
  <2>1. \A q \in Pr!Slot : pc'[q] \in ExitPC => pc'[q] = pc[q] /\ q # np[p] /\ q # p
    BY <1>0 DEF ExitPC
  <2>2. \A q \in Pr!Slot : Pr!Children(q)' = Pr!Children(q)
    BY DEF Pr!Children
  <2>3. \A q \in Pr!Slot : state'[q] = "SLEEPING" => state[q] = "SLEEPING"
    BY <1>0
  <2>4. ASSUME NEW q \in Pr!Slot, pc[q] = "x_zombie" PROVE parent[q] \in Pr!Slot
    BY <2>4 DEF Exits, ExitPC, Tree, Threads
  <2> QED
    BY <2>1, <2>2, <2>3, <2>4 DEF Exits, ExitPC
<1>10. Kills'
  BY <1>0 DEF Kills
<1> QED
  BY <1>1, <1>2, <1>3, <1>4, <1>5, <1>6, <1>7, <1>8, <1>9, <1>10

LEMMA WaitCallInv == ASSUME ProcInv, NEW p \in Pr!Slot, Pr!WaitCall(p) PROVE ProcInv'
<1> USE SlotFacts, ProcSizes DEF ProcInv, Pr!TypeOK, Pr!WaitCall, Pr!MayCall, Pr!Goto, Pr!table,
        Pr!At, Pr!Running
<1>1. Pr!TypeOK'
  BY DEF Pr!PC, Pr!States
<1>2. Threads'
  BY DEF Threads
<1>3. Stacks'
  BY DEF Stacks
<1>4. Forks'
  BY DEF Forks, ForkPC, Threads, Stacks, Tree
<1>5. Pids'
  BY DEF Pids, Pr!UniquePid
<1>6. Tree'
  BY DEF Tree, Pr!ParentCanWait, Threads, Forks, Exits, ExitPC
<1>7. Holder'
  BY DEF Holder, HoldPC, Threads
<1>8. Waits'
  BY DEF Waits, Pr!Children, Pr!Zombies, Holder, HoldPC, Threads, Tree, Forks, Exits
<1>9. Exits'
  BY DEF Exits, ExitPC, Pr!Children, Pr!Zombies, Holder, HoldPC, Threads, Tree, Pr!ParentCanWait,
     Forks
<1>10. Kills'
  BY DEF Kills
<1> QED
  BY <1>1, <1>2, <1>3, <1>4, <1>5, <1>6, <1>7, <1>8, <1>9, <1>10

LEMMA WaitLockInv == ASSUME ProcInv, NEW p \in Pr!Slot, Pr!WaitLock(p) PROVE ProcInv'
<1> USE SlotFacts, ProcSizes DEF ProcInv, Pr!TypeOK, Pr!WaitLock, Pr!At, Pr!Goto, Pr!Free,
        Pr!table, Pr!Running
<1>1. Pr!TypeOK'
  BY DEF Pr!PC, Pr!States
<1>2. Threads'
  BY DEF Threads
<1>3. Stacks'
  BY DEF Stacks
<1>4. Forks'
  BY DEF Forks, ForkPC, Threads, Stacks, Tree
<1>5. Pids'
  BY DEF Pids, Pr!UniquePid
<1>6. Tree'
  BY DEF Tree, Pr!ParentCanWait, Threads, Forks, Exits, ExitPC
<1>7. Holder'
  BY DEF Holder, HoldPC, Threads
<1>8. Waits'
  BY DEF Waits, Pr!Children, Pr!Zombies, Holder, HoldPC, Threads, Tree, Forks, Exits
<1>9. Exits'
  BY DEF Exits, ExitPC, Pr!Children, Pr!Zombies, Holder, HoldPC, Threads, Tree, Pr!ParentCanWait,
     Forks
<1>10. Kills'
  BY DEF Kills
<1> QED
  BY <1>1, <1>2, <1>3, <1>4, <1>5, <1>6, <1>7, <1>8, <1>9, <1>10

LEMMA WaitReapInv == ASSUME ProcInv, NEW p \in Pr!Slot, Pr!WaitReap(p) PROVE ProcInv'
<1> USE SlotFacts, ProcSizes DEF ProcInv, Pr!TypeOK, Pr!WaitReap, Pr!At, Pr!Free, Pr!FreeProc,
        Pr!Zombies, Pr!Running, Pr!Children
<1>1. Pr!TypeOK'
  BY FirstIsMember DEF Pr!PC, Pr!States
<1>2. Threads'
  BY FirstIsMember DEF Threads
<1>3. Stacks'
  BY FirstIsMember DEF Stacks
<1>4. Forks'
  BY FirstIsMember DEF Forks, ForkPC, Threads, Stacks, Tree
<1>5. Pids'
  BY FirstIsMember DEF Pids, Pr!UniquePid
<1>6. Tree'
  BY FirstIsMember DEF Tree, Pr!ParentCanWait, Threads, Forks, Exits, ExitPC
<1>7. Holder'
  BY FirstIsMember DEF Holder, HoldPC, Threads
<1>8. Waits'
  BY FirstIsMember DEF Waits, Holder, HoldPC, Threads, Tree, Forks, Exits
<1>9. Exits'
  BY FirstIsMember DEF Exits, ExitPC, Holder, HoldPC, Threads, Tree, Pr!ParentCanWait, Forks
<1>10. Kills'
  BY FirstIsMember DEF Kills
<1> QED
  BY <1>1, <1>2, <1>3, <1>4, <1>5, <1>6, <1>7, <1>8, <1>9, <1>10

LEMMA WaitFaultInv == ASSUME ProcInv, NEW p \in Pr!Slot, Pr!WaitFault(p) PROVE ProcInv'
<1> USE SlotFacts, ProcSizes DEF ProcInv, Pr!TypeOK, Pr!WaitFault, Pr!At, Pr!Goto, Pr!Free,
        Pr!Zombies, Pr!table, Pr!Running, Pr!Children
<1>1. Pr!TypeOK'
  BY FirstIsMember DEF Pr!PC, Pr!States
<1>2. Threads'
  BY FirstIsMember DEF Threads
<1>3. Stacks'
  BY FirstIsMember DEF Stacks
<1>4. Forks'
  BY FirstIsMember DEF Forks, ForkPC, Threads, Stacks, Tree
<1>5. Pids'
  BY FirstIsMember DEF Pids, Pr!UniquePid
<1>6. Tree'
  BY FirstIsMember DEF Tree, Pr!ParentCanWait, Threads, Forks, Exits, ExitPC
<1>7. Holder'
  BY FirstIsMember DEF Holder, HoldPC, Threads
<1>8. Waits'
  BY FirstIsMember DEF Waits, Holder, HoldPC, Threads, Tree, Forks, Exits
<1>9. Exits'
  BY FirstIsMember DEF Exits, ExitPC, Holder, HoldPC, Threads, Tree, Pr!ParentCanWait, Forks
<1>10. Kills'
  BY FirstIsMember DEF Kills
<1> QED
  BY <1>1, <1>2, <1>3, <1>4, <1>5, <1>6, <1>7, <1>8, <1>9, <1>10

LEMMA WaitNoneInv == ASSUME ProcInv, NEW p \in Pr!Slot, Pr!WaitNone(p) PROVE ProcInv'
<1> USE SlotFacts, ProcSizes DEF ProcInv, Pr!TypeOK, Pr!WaitNone, Pr!At, Pr!Goto, Pr!Children,
        Pr!Zombies, Pr!table, Pr!Running
<1>1. Pr!TypeOK'
  BY DEF Pr!PC, Pr!States
<1>2. Threads'
  BY DEF Threads
<1>3. Stacks'
  BY DEF Stacks
<1>4. Forks'
  BY DEF Forks, ForkPC, Threads, Stacks, Tree
<1>5. Pids'
  BY DEF Pids, Pr!UniquePid
<1>6. Tree'
  BY DEF Tree, Pr!ParentCanWait, Threads, Forks, Exits, ExitPC
<1>7. Holder'
  BY DEF Holder, HoldPC, Threads
<1>8. Waits'
  BY DEF Waits, Holder, HoldPC, Threads, Tree, Forks, Exits
<1>9. Exits'
  BY DEF Exits, ExitPC, Holder, HoldPC, Threads, Tree, Pr!ParentCanWait, Forks
<1>10. Kills'
  BY DEF Kills
<1> QED
  BY <1>1, <1>2, <1>3, <1>4, <1>5, <1>6, <1>7, <1>8, <1>9, <1>10

LEMMA WaitCheckInv == ASSUME ProcInv, NEW p \in Pr!Slot, Pr!WaitCheck(p) PROVE ProcInv'
<1> USE SlotFacts, ProcSizes DEF ProcInv, Pr!TypeOK, Pr!WaitCheck, Pr!At, Pr!Goto, Pr!Children,
        Pr!Zombies, Pr!table, Pr!Running
<1>1. Pr!TypeOK'
  BY DEF Pr!PC, Pr!States
<1>2. Threads'
  BY DEF Threads
<1>3. Stacks'
  BY DEF Stacks
<1>4. Forks'
  BY DEF Forks, ForkPC, Threads, Stacks, Tree
<1>5. Pids'
  BY DEF Pids, Pr!UniquePid
<1>6. Tree'
  BY DEF Tree, Pr!ParentCanWait, Threads, Forks, Exits, ExitPC
<1>7. Holder'
  BY DEF Holder, HoldPC, Threads
<1>8. Waits'
  BY DEF Waits, Holder, HoldPC, Threads, Tree, Forks, Exits
<1>9. Exits'
  BY DEF Exits, ExitPC, Holder, HoldPC, Threads, Tree, Pr!ParentCanWait, Forks
<1>10. Kills'
  BY DEF Kills
<1> QED
  BY <1>1, <1>2, <1>3, <1>4, <1>5, <1>6, <1>7, <1>8, <1>9, <1>10

LEMMA WaitSleepInv == ASSUME ProcInv, NEW p \in Pr!Slot, Pr!WaitSleep(p) PROVE ProcInv'
<1> USE SlotFacts, ProcSizes DEF ProcInv, Pr!TypeOK, Pr!WaitSleep, Pr!At, Pr!Goto, Pr!Free,
        Pr!Running
<1>1. Pr!TypeOK'
  BY DEF Pr!PC, Pr!States
<1>2. Threads'
  BY DEF Threads
<1>3. Stacks'
  BY DEF Stacks
<1>4. Forks'
  BY DEF Forks, ForkPC, Threads, Stacks, Tree
<1>5. Pids'
  BY DEF Pids, Pr!UniquePid
<1>6. Tree'
  BY DEF Tree, Pr!ParentCanWait, Threads, Forks, Exits, ExitPC
<1>7. Holder'
  BY DEF Holder, HoldPC, Threads
<1>8. Waits'
  BY DEF Waits, Pr!Children, Pr!Zombies, Holder, HoldPC, Threads, Tree, Forks, Exits
<1>9. Exits'
  BY DEF Exits, ExitPC, Pr!Children, Pr!Zombies, Holder, HoldPC, Threads, Tree, Pr!ParentCanWait,
     Forks
<1>10. Kills'
  BY DEF Kills
<1> QED
  BY <1>1, <1>2, <1>3, <1>4, <1>5, <1>6, <1>7, <1>8, <1>9, <1>10

LEMMA ExitCallInv == ASSUME ProcInv, NEW p \in Pr!Slot, Pr!ExitCall(p) PROVE ProcInv'
<1> USE SlotFacts, ProcSizes DEF ProcInv, Pr!TypeOK, Pr!ExitCall, Pr!At, Pr!Goto, Pr!table,
        Pr!Running
<1>1. Pr!TypeOK'
  BY DEF Pr!PC, Pr!States
<1>2. Threads'
  BY DEF Threads
<1>3. Stacks'
  BY DEF Stacks
<1>4. Forks'
  BY DEF Forks, ForkPC, Threads, Stacks, Tree
<1>5. Pids'
  BY DEF Pids, Pr!UniquePid
<1>6. Tree'
  BY DEF Tree, Pr!ParentCanWait, Threads, Forks, Exits, ExitPC
<1>7. Holder'
  BY DEF Holder, HoldPC, Threads
<1>8. Waits'
  BY DEF Waits, Pr!Children, Pr!Zombies, Holder, HoldPC, Threads, Tree, Forks, Exits
<1>9. Exits'
  BY DEF Exits, ExitPC, Pr!Children, Pr!Zombies, Holder, HoldPC, Threads, Tree, Pr!ParentCanWait,
     Forks
<1>10. Kills'
  BY DEF Kills
<1> QED
  BY <1>1, <1>2, <1>3, <1>4, <1>5, <1>6, <1>7, <1>8, <1>9, <1>10

LEMMA ExitLockInv == ASSUME ProcInv, NEW p \in Pr!Slot, Pr!ExitLock(p) PROVE ProcInv'
<1> USE SlotFacts, ProcSizes DEF ProcInv, Pr!TypeOK, Pr!ExitLock, Pr!At, Pr!Goto, Pr!Free,
        Pr!table, Pr!Running
<1>1. Pr!TypeOK'
  BY DEF Pr!PC, Pr!States
<1>2. Threads'
  BY DEF Threads
<1>3. Stacks'
  BY DEF Stacks
<1>4. Forks'
  BY DEF Forks, ForkPC, Threads, Stacks, Tree
<1>5. Pids'
  BY DEF Pids, Pr!UniquePid
<1>6. Tree'
  BY DEF Tree, Pr!ParentCanWait, Threads, Forks, Exits, ExitPC
<1>7. Holder'
  BY DEF Holder, HoldPC, Threads
<1>8. Waits'
  BY DEF Waits, Pr!Children, Pr!Zombies, Holder, HoldPC, Threads, Tree, Forks, Exits
<1>9. Exits'
  BY DEF Exits, ExitPC, Pr!Children, Pr!Zombies, Holder, HoldPC, Threads, Tree, Pr!ParentCanWait,
     Forks
<1>10. Kills'
  BY DEF Kills
<1> QED
  BY <1>1, <1>2, <1>3, <1>4, <1>5, <1>6, <1>7, <1>8, <1>9, <1>10

LEMMA ExitReparentInv == ASSUME ProcInv, NEW p \in Pr!Slot, Pr!ExitReparent(p) PROVE ProcInv'
<1> USE SlotFacts, ProcSizes DEF ProcInv, Pr!TypeOK, Pr!ExitReparent, Pr!At, Pr!Goto, Pr!Awake,
        Pr!CanWakeup, Pr!Children, Pr!Running
<1>1. Pr!TypeOK'
  BY DEF Pr!PC, Pr!States
<1>2. Threads'
  BY DEF Threads
<1>3. Stacks'
  BY DEF Stacks
<1>4. Forks'
  BY DEF Forks, ForkPC, Threads, Stacks, Tree
<1>5. Pids'
  BY DEF Pids, Pr!UniquePid
<1>6. Tree'
  BY DEF Tree, Pr!ParentCanWait, Threads, Forks, Exits, ExitPC
<1>7. Holder'
  BY DEF Holder, HoldPC, Threads
<1>8. Waits'
  BY DEF Waits, Pr!Zombies, Holder, HoldPC, Threads, Tree, Forks, Exits
<1>9. Exits'
  BY DEF Exits, ExitPC, Pr!Zombies, Holder, HoldPC, Threads, Tree, Pr!ParentCanWait, Forks
<1>10. Kills'
  BY DEF Kills
<1> QED
  BY <1>1, <1>2, <1>3, <1>4, <1>5, <1>6, <1>7, <1>8, <1>9, <1>10

LEMMA ExitWakeInv == ASSUME ProcInv, NEW p \in Pr!Slot, Pr!ExitWake(p) PROVE ProcInv'
<1> USE SlotFacts, ProcSizes DEF ProcInv, Pr!TypeOK, Pr!ExitWake, Pr!At, Pr!Goto, Pr!Awake,
        Pr!CanWakeup, Pr!Running
<1>1. Pr!TypeOK'
  BY DEF Pr!PC, Pr!States
<1>2. Threads'
  BY DEF Threads
<1>3. Stacks'
  BY DEF Stacks
<1>4. Forks'
  BY DEF Forks, ForkPC, Threads, Stacks, Tree
<1>5. Pids'
  BY DEF Pids, Pr!UniquePid
<1>6. Tree'
  BY DEF Tree, Pr!ParentCanWait, Threads, Forks, Exits, ExitPC
<1>7. Holder'
  BY DEF Holder, HoldPC, Threads
<1>8. Waits'
  BY DEF Waits, Pr!Children, Pr!Zombies, Holder, HoldPC, Threads, Tree, Forks, Exits
<1>9. Exits'
  <2>1. parent[p] \in Pr!Slot \ {p} /\ Pr!Children(p) = {} /\ p # Pr!initproc
    BY DEF Exits, Tree, Pr!ParentCanWait, Threads, Pr!Children, ExitPC
  <2>2. state'[parent[p]] # "SLEEPING"
    BY <2>1 DEF Threads
  <2>3. \A q \in Pr!Slot : pc[q] \in {"x_wake", "x_zombie"} => q = p
    BY DEF Holder, HoldPC
  <2> QED
    BY <2>1, <2>2, <2>3 DEF Exits, ExitPC, Pr!Children
<1>10. Kills'
  BY DEF Kills
<1> QED
  BY <1>1, <1>2, <1>3, <1>4, <1>5, <1>6, <1>7, <1>8, <1>9, <1>10

LEMMA ExitZombieInv == ASSUME ProcInv, NEW p \in Pr!Slot, Pr!ExitZombie(p) PROVE ProcInv'
<1> USE SlotFacts, ProcSizes DEF ProcInv, Pr!TypeOK, Pr!ExitZombie, Pr!At, Pr!Goto, Pr!Free,
        Pr!Running
<1>1. Pr!TypeOK'
  BY DEF Pr!PC, Pr!States
<1>2. Threads'
  BY DEF Threads
<1>3. Stacks'
  BY DEF Stacks
<1>4. Forks'
  BY DEF Forks, ForkPC, Threads, Stacks, Tree
<1>5. Pids'
  BY DEF Pids, Pr!UniquePid
<1>6. Tree'
  <2>1. p # Pr!initproc /\ Pr!Children(p) = {}
    BY DEF Exits, ExitPC
  <2>2. \A q \in Pr!Slot : parent[q] # p
    BY <2>1 DEF Pr!Children
  <2> QED
    BY <2>1, <2>2 DEF Tree, Pr!ParentCanWait
<1>7. Holder'
  BY DEF Holder, HoldPC, Threads
<1>8. Waits'
  BY DEF Waits, Pr!Children, Pr!Zombies, Holder, HoldPC, Threads, Tree, Forks, Exits
<1>9. Exits'
  BY DEF Exits, ExitPC, Pr!Children, Pr!Zombies, Holder, HoldPC, Threads, Tree, Pr!ParentCanWait,
     Forks
<1>10. Kills'
  BY DEF Kills
<1> QED
  BY <1>1, <1>2, <1>3, <1>4, <1>5, <1>6, <1>7, <1>8, <1>9, <1>10

LEMMA KillInv == ASSUME ProcInv, NEW p \in Pr!Slot, NEW x \in KillPids, Pr!Kill(p, x) PROVE ProcInv'
<1> USE SlotFacts, ProcSizes DEF ProcInv, Pr!TypeOK, Pr!Kill, Pr!MayCall, Pr!Free, Pr!At, Pr!Running
<1>1. Pr!TypeOK'
  BY DEF Pr!PC, Pr!States
<1>2. Threads'
  BY DEF Threads
<1>3. Stacks'
  BY DEF Stacks
<1>4. Forks'
  BY DEF Forks, ForkPC, Threads, Stacks, Tree
<1>5. Pids'
  BY DEF Pids, Pr!UniquePid
<1>6. Tree'
  BY DEF Tree, Pr!ParentCanWait, Threads, Forks, Exits, ExitPC
<1>7. Holder'
  BY DEF Holder, HoldPC, Threads
<1>8. Waits'
  BY DEF Waits, Pr!Children, Pr!Zombies, Holder, HoldPC, Threads, Tree, Forks, Exits
<1>9. Exits'
  BY DEF Exits, ExitPC, Pr!Children, Pr!Zombies, Holder, HoldPC, Threads, Tree, Pr!ParentCanWait,
     Forks
<1>10. Kills'
  BY DEF Kills
<1> QED
  BY <1>1, <1>2, <1>3, <1>4, <1>5, <1>6, <1>7, <1>8, <1>9, <1>10

LEMMA ProcNext == ASSUME ProcInv, Pr!Next \/ UNCHANGED Pr!vars PROVE ProcInv'
<1>1. CASE UNCHANGED Pr!vars
  <2>1. Pr!TypeOK' /\ Threads' /\ Stacks' /\ Forks' /\ Pids' /\ Kills'
    BY <1>1 DEF ProcInv, Pr!vars, Pr!table, Pr!TypeOK, Threads, Stacks, Forks, Pids, Pr!UniquePid,
       Kills
  <2>2. Tree' /\ Holder' /\ Waits' /\ Exits'
    BY <1>1 DEF ProcInv, Pr!vars, Pr!table, Tree, Pr!ParentCanWait, Holder, Waits, Exits,
       Pr!Children, Pr!Zombies
  <2> QED
    BY <2>1, <2>2 DEF ProcInv
<1>2. ASSUME NEW p \in Pr!Slot, Pr!Schedule(p) PROVE ProcInv'
  BY <1>2, RunInv, SwitchOutInv, YieldInv DEF Pr!Schedule
<1>3. ASSUME NEW p \in Pr!Slot, Pr!Fork(p) PROVE ProcInv'
  BY <1>3, ForkAllocInv, ForkNoneInv, ForkFailInv, ForkCopyInv, ForkParentInv, ForkRunInv DEF
     Pr!Fork
<1>4. ASSUME NEW p \in Pr!Slot, Pr!Wait(p) PROVE ProcInv'
  BY <1>4, WaitCallInv, WaitLockInv, WaitReapInv, WaitFaultInv, WaitNoneInv, WaitCheckInv,
     WaitSleepInv DEF Pr!Wait
<1>5. ASSUME NEW p \in Pr!Slot, Pr!Exit(p) PROVE ProcInv'
  BY <1>5, ExitCallInv, ExitLockInv, ExitReparentInv, ExitWakeInv, ExitZombieInv DEF Pr!Exit
<1>6. ASSUME NEW p \in Pr!Slot, NEW x \in KillPids, Pr!Kill(p, x) PROVE ProcInv'
  BY <1>6, KillInv
<1> QED
  BY <1>1, <1>2, <1>3, <1>4, <1>5, <1>6 DEF Pr!Next

\* What the invariant says of the tree of processes and of the slots.
LEMMA ProcSafe ==
  ASSUME ProcInv
  PROVE  /\ Pr!UniquePid /\ Pr!ParentCanWait /\ Pr!ZombieHasParent /\ Pr!NoLostExit
         /\ Pr!StackNotReused
         /\ 0 \in named \/ Pr!KilledByName
<1>1. Pr!UniquePid /\ Pr!ParentCanWait
  BY DEF ProcInv, Pids, Tree
<1>2. Pr!ZombieHasParent
  BY DEF ProcInv, Tree, Pr!ZombieHasParent
<1>3. Pr!NoLostExit
  BY DEF ProcInv, Waits, Pr!NoLostExit
<1>4. Pr!StackNotReused
  BY DEF ProcInv, Pr!TypeOK, Stacks, Pr!StackNotReused
<1>5. 0 \in named \/ Pr!KilledByName
  BY DEF ProcInv, Kills, Pr!KilledByName
<1> QED
  BY <1>1, <1>2, <1>3, <1>4, <1>5

-----------------------------------------------------------------------------
(* The modules with the theorems define what the components define.         *)

LEMMA SameAssumptions ==
  /\ PiP!PipeAssumption /\ SpP!SpinlockAssumption
  /\ SpinProcs \in Nat /\ SpinCPUs \in Nat
BY ProcessesAssumption
DEF Pi!PipeAssumption, PiP!PipeAssumption, Sp!SpinlockAssumption, SpP!SpinlockAssumption

LEMMA SamePipeInit ==
  Pi!Init <=> PiP!Init
BY DEF Pi!Init, PiP!Init

LEMMA SamePipeNext ==
  Pi!Next <=> PiP!Next
BY DEF Pi!Acquire, Pi!ClosePC, Pi!CloseRead, Pi!CloseWrite, Pi!Empty, Pi!FileClose, Pi!Full,
   Pi!Goto, Pi!Kill, Pi!Next, Pi!PipeClose, Pi!PipeRead, Pi!PipeWrite, Pi!ReadAbort,
   Pi!ReadByte, Pi!ReadCall, Pi!ReadCheck, Pi!ReadEnter, Pi!ReadFault, Pi!ReadReturn,
   Pi!ReadSleep, Pi!Return, Pi!TakeByte, Pi!WakeReaders, Pi!WakeWriters, Pi!WriteAbort,
   Pi!WriteByte, Pi!WriteCall, Pi!WriteCheck, Pi!WriteFull, Pi!WriteReturn, Pi!ends, Pi!ring,
   PiP!Acquire, PiP!ClosePC, PiP!CloseRead, PiP!CloseWrite, PiP!Empty, PiP!FileClose, PiP!Full,
   PiP!Goto, PiP!Kill, PiP!Next, PiP!PipeClose, PiP!PipeRead, PiP!PipeWrite, PiP!ReadAbort,
   PiP!ReadByte, PiP!ReadCall, PiP!ReadCheck, PiP!ReadEnter, PiP!ReadFault, PiP!ReadReturn,
   PiP!ReadSleep, PiP!Return, PiP!TakeByte, PiP!WakeReaders, PiP!WakeWriters, PiP!WriteAbort,
   PiP!WriteByte, PiP!WriteCall, PiP!WriteCheck, PiP!WriteFull, PiP!WriteReturn, PiP!ends,
   PiP!ring

LEMMA SamePipeSafe ==
  (Pi!NoLostWakeup <=> PiP!NoLostWakeup) /\ (Pi!NoUseAfterFree <=> PiP!NoUseAfterFree)
BY DEF Pi!Empty, Pi!Full, Pi!NoLostWakeup, Pi!NoUseAfterFree, PiP!Empty, PiP!Full,
   PiP!NoLostWakeup, PiP!NoUseAfterFree

LEMMA SameLockHeld ==
  (Pi!LockHeld <=> PiP!LockHeld) /\ (Pi!ReadEndsClosed <=> PiP!ReadEndsClosed)
BY DEF Pi!Empty, Pi!LockHeld, Pi!Locked, Pi!ReadEndsClosed, PiP!Empty, PiP!LockHeld, PiP!Locked,
   PiP!ReadEndsClosed

LEMMA SameFifo ==
  /\ Pi!Fifo!FInit <=> PiP!Fifo!FInit
  /\ Pi!Fifo!FNext <=> PiP!Fifo!FNext
  /\ UNCHANGED Pi!Fifo!fvars <=> UNCHANGED PiP!Fifo!fvars
BY DEF Pi!Fifo!FInit, Pi!Fifo!FNext, Pi!Fifo!FPut, Pi!Fifo!FTake, Pi!Fifo!FCloseRead,
   Pi!Fifo!FCloseWrite, Pi!Fifo!fvars, Pi!Queue, PiP!Fifo!FInit, PiP!Fifo!FNext, PiP!Fifo!FPut,
   PiP!Fifo!FTake, PiP!Fifo!FCloseRead, PiP!Fifo!FCloseWrite, PiP!Fifo!fvars, PiP!Queue

LEMMA SameSpinInit ==
  Sp!Init <=> SpP!Init
BY DEF Sp!CPUs, Sp!Init, Sp!Locks, Sp!Nobody, Sp!Op, Sp!Procs, Sp!Release, SpP!CPUs, SpP!Init,
   SpP!Locks, SpP!Nobody, SpP!Op, SpP!Procs, SpP!Release

LEMMA SameAcquireStep ==
  ASSUME NEW c PROVE Sp!AcquireStep(c) <=> SpP!AcquireStep(c)
BY DEF Sp!AcquireStep, Sp!Arg, Sp!At, Sp!Begins, Sp!CannotAcquire, Sp!Code, Sp!Goes, Sp!Op,
   Sp!PushOff, Sp!Thread, SpP!AcquireStep, SpP!Arg, SpP!At, SpP!Begins, SpP!CannotAcquire,
   SpP!Code, SpP!Goes, SpP!Op, SpP!PushOff, SpP!Thread

LEMMA SameSpin ==
  ASSUME NEW c PROVE Sp!Spin(c) <=> SpP!Spin(c)
BY DEF Sp!Arg, Sp!At, Sp!Code, Sp!Goes, Sp!Nobody, Sp!Proceeds, Sp!Spin, Sp!Thread, SpP!Arg,
   SpP!At, SpP!Code, SpP!Goes, SpP!Nobody, SpP!Proceeds, SpP!Spin, SpP!Thread

LEMMA SameReleaseStep ==
  ASSUME NEW c PROVE Sp!ReleaseStep(c) <=> SpP!ReleaseStep(c)
BY DEF Sp!Arg, Sp!At, Sp!CannotRelease, Sp!Code, Sp!Goes, Sp!Nobody, Sp!PopOff, Sp!Proceeds,
   Sp!ReleaseStep, Sp!Thread, SpP!Arg, SpP!At, SpP!CannotRelease, SpP!Code, SpP!Goes,
   SpP!Nobody, SpP!PopOff, SpP!Proceeds, SpP!ReleaseStep, SpP!Thread

LEMMA SameSetState ==
  ASSUME NEW c PROVE Sp!SetState(c) <=> SpP!SetState(c)
BY DEF Sp!Arg, Sp!At, Sp!Code, Sp!Goes, Sp!Proceeds, Sp!SetState, Sp!Thread, SpP!Arg, SpP!At,
   SpP!Code, SpP!Goes, SpP!Proceeds, SpP!SetState, SpP!Thread

LEMMA SameSchedStep ==
  ASSUME NEW c PROVE Sp!SchedStep(c) <=> SpP!SchedStep(c)
BY DEF Sp!At, Sp!Begins, Sp!CannotSched, Sp!Code, Sp!Goes, Sp!Op, Sp!SchedStep, Sp!Thread,
   SpP!At, SpP!Begins, SpP!CannotSched, SpP!Code, SpP!Goes, SpP!Op, SpP!SchedStep, SpP!Thread

LEMMA SameResume ==
  ASSUME NEW c PROVE Sp!Resume(c) <=> SpP!Resume(c)
BY DEF Sp!Arg, Sp!At, Sp!Back, Sp!Code, Sp!Goes, Sp!Proceeds, Sp!Resume, Sp!Thread, SpP!Arg,
   SpP!At, SpP!Back, SpP!Code, SpP!Goes, SpP!Proceeds, SpP!Resume, SpP!Thread

LEMMA SameLoop ==
  ASSUME NEW c PROVE Sp!Loop(c) <=> SpP!Loop(c)
BY DEF Sp!Acquire, Sp!Code, Sp!Each, Sp!Goes, Sp!Loop, Sp!Op, Sp!Procs, Sp!Release,
   Sp!Scheduler, Sp!Thread, SpP!Acquire, SpP!Code, SpP!Each, SpP!Goes, SpP!Loop, SpP!Op,
   SpP!Procs, SpP!Release, SpP!Scheduler, SpP!Thread

LEMMA SamePick ==
  ASSUME NEW c PROVE Sp!Pick(c) <=> SpP!Pick(c)
BY DEF Sp!Arg, Sp!At, Sp!Code, Sp!Goes, Sp!Pick, Sp!Proceeds, Sp!Thread, SpP!Arg, SpP!At,
   SpP!Code, SpP!Goes, SpP!Pick, SpP!Proceeds, SpP!Thread

LEMMA SamePassOver ==
  ASSUME NEW c PROVE Sp!PassOver(c) <=> SpP!PassOver(c)
BY DEF Sp!Arg, Sp!At, Sp!Code, Sp!Goes, Sp!PassOver, Sp!Thread, SpP!Arg, SpP!At, SpP!Code,
   SpP!Goes, SpP!PassOver, SpP!Thread

LEMMA SameGone ==
  ASSUME NEW c PROVE Sp!Gone(c) <=> SpP!Gone(c)
BY DEF Sp!At, Sp!Code, Sp!Goes, Sp!Gone, Sp!Nobody, Sp!Proceeds, Sp!Thread, SpP!At, SpP!Code,
   SpP!Goes, SpP!Gone, SpP!Nobody, SpP!Proceeds, SpP!Thread

LEMMA SameWake ==
  ASSUME NEW c PROVE Sp!Wake(c) <=> SpP!Wake(c)
BY DEF Sp!Arg, Sp!At, Sp!Code, Sp!Goes, Sp!Proceeds, Sp!Thread, Sp!Wake, SpP!Arg, SpP!At,
   SpP!Code, SpP!Goes, SpP!Proceeds, SpP!Thread, SpP!Wake

LEMMA SameSyscall ==
  ASSUME NEW c PROVE Sp!Syscall(c) <=> SpP!Syscall(c)
BY DEF Sp!Acquire, Sp!Code, Sp!Goes, Sp!InUser, Sp!Op, Sp!Release, Sp!SysSleep, Sp!Syscall,
   Sp!Thread, Sp!tickslock, SpP!Acquire, SpP!Code, SpP!Goes, SpP!InUser, SpP!Op, SpP!Release,
   SpP!SysSleep, SpP!Syscall, SpP!Thread, SpP!tickslock

LEMMA SameInterrupt ==
  ASSUME NEW c PROVE Sp!Interrupt(c) <=> SpP!Interrupt(c)
BY DEF Sp!Acquire, Sp!Clockintr, Sp!Code, Sp!Each, Sp!Goes, Sp!Interrupt, Sp!Op, Sp!Procs,
   Sp!Release, Sp!Thread, Sp!Timer, Sp!Wakeup, Sp!tickslock, SpP!Acquire, SpP!Clockintr,
   SpP!Code, SpP!Each, SpP!Goes, SpP!Interrupt, SpP!Op, SpP!Procs, SpP!Release, SpP!Thread,
   SpP!Timer, SpP!Wakeup, SpP!tickslock

LEMMA SameTick ==
  ASSUME NEW c PROVE Sp!Tick(c) <=> SpP!Tick(c)
BY DEF Sp!Acquire, Sp!At, Sp!Begins, Sp!Code, Sp!Goes, Sp!Nobody, Sp!Op, Sp!Release, Sp!Sched,
   Sp!Thread, Sp!Tick, Sp!Yield, SpP!Acquire, SpP!At, SpP!Begins, SpP!Code, SpP!Goes,
   SpP!Nobody, SpP!Op, SpP!Release, SpP!Sched, SpP!Thread, SpP!Tick, SpP!Yield

LEMMA SameSret ==
  ASSUME NEW c PROVE Sp!Sret(c) <=> SpP!Sret(c)
BY DEF Sp!At, Sp!Code, Sp!Goes, Sp!Proceeds, Sp!Sret, Sp!Thread, SpP!At, SpP!Code, SpP!Goes,
   SpP!Proceeds, SpP!Sret, SpP!Thread

LEMMA SameIntrOff ==
  ASSUME NEW c PROVE Sp!IntrOff(c) <=> SpP!IntrOff(c)
BY DEF Sp!At, Sp!Code, Sp!Goes, Sp!IntrOff, Sp!Proceeds, Sp!Thread, SpP!At, SpP!Code, SpP!Goes,
   SpP!IntrOff, SpP!Proceeds, SpP!Thread

LEMMA SameTest ==
  ASSUME NEW c PROVE Sp!Test(c) <=> SpP!Test(c)
BY DEF Sp!Acquire, Sp!At, Sp!Code, Sp!Goes, Sp!Op, Sp!Proceeds, Sp!Release, Sp!Sched, Sp!Sleep,
   Sp!Test, Sp!Thread, Sp!tickslock, SpP!Acquire, SpP!At, SpP!Code, SpP!Goes, SpP!Op,
   SpP!Proceeds, SpP!Release, SpP!Sched, SpP!Sleep, SpP!Test, SpP!Thread, SpP!tickslock

LEMMA SameSpinNext ==
  Sp!Next <=> SpP!Next
BY SameAcquireStep, SameSpin, SameReleaseStep, SameSetState, SameSchedStep, SameResume,
   SameLoop, SamePick, SamePassOver, SameGone, SameWake, SameSyscall, SameInterrupt, SameTick,
   SameSret, SameIntrOff, SameTest DEF Sp!Next, SpP!Next, Sp!CPUs, SpP!CPUs

LEMMA SameSpinSafe ==
  /\ Sp!TypeOK <=> SpP!TypeOK
  /\ Sp!OneCpu <=> SpP!OneCpu
  /\ Sp!NoPanic <=> SpP!NoPanic
  /\ Sp!NoDeadlock <=> SpP!NoDeadlock
BY DEF Sp!Arg, Sp!At, Sp!CPUs, Sp!CannotAcquire, Sp!CannotRelease, Sp!CannotSched, Sp!Code,
   Sp!Locks, Sp!NoDeadlock, Sp!NoPanic, Sp!Nobody, Sp!OneCpu, Sp!Procs, Sp!Thread, Sp!TypeOK,
   SpP!Arg, SpP!At, SpP!CPUs, SpP!CannotAcquire, SpP!CannotRelease, SpP!CannotSched, SpP!Code,
   SpP!Locks, SpP!NoDeadlock, SpP!NoPanic, SpP!Nobody, SpP!OneCpu, SpP!Procs, SpP!Thread,
   SpP!TypeOK

LEMMA SameSpinExact ==
  /\ Sp!LocksExact <=> SpP!LocksExact
  /\ Sp!NoffExact <=> SpP!NoffExact
  /\ Sp!IntrExact <=> SpP!IntrExact
BY DEF Sp!Acquire, Sp!At, Sp!CPUs, Sp!Code, Sp!InHandler, Sp!IntrExact, Sp!Locks, Sp!LocksExact,
   Sp!NoffExact, Sp!Op, Sp!Owes, Sp!Release, Sp!Thread, Sp!Cardinality, SpP!Acquire, SpP!At,
   SpP!CPUs, SpP!Code, SpP!InHandler, SpP!IntrExact, SpP!Locks, SpP!LocksExact, SpP!NoffExact,
   SpP!Op, SpP!Owes, SpP!Release, SpP!Thread, SpP!Cardinality

LEMMA SameTypes ==
  Pi!TypeOK <=> PiP!TypeOK
BY DEF Pi!ClosePC, Pi!ReadPC, Pi!TypeOK, Pi!WritePC, PiP!ClosePC, PiP!ReadPC, PiP!TypeOK,
   PiP!WritePC

-----------------------------------------------------------------------------
(* The parts together.                                                      *)

PartsInv ==
  /\ sys = "pipe" => PiP!Inv /\ PiP!RingBound
  /\ sys = "proc" => ProcInv
  /\ sys = "spin" => SpP!Inv

LEMMA PartsInit == ASSUME Init PROVE PartsInv
<1>1. CASE sys = "spin"
  <2>1. SpP!Init /\ SpinProcs \in Nat /\ SpinCPUs \in Nat
    BY <1>1, SameAssumptions, SameSpinInit DEF Init
  <2>2. SpP!Inv
    BY <2>1, SpP!InitInv
  <2> QED
    BY <1>1, <2>2 DEF PartsInv
<1>2. CASE sys # "spin"
  BY <1>2, SameAssumptions, SamePipeInit, PiP!InitInv, PiP!FifoInit, ProcInit
  DEF Init, PartsInv
<1> QED
  BY <1>1, <1>2

\* A step of one part, or of none.
LEMMA PartsNext == ASSUME PartsInv, [Next]_vars PROVE PartsInv'
<1>1. CASE PipeStep
  <2>1. PiP!Inv' /\ PiP!RingBound'
    BY <1>1, SameAssumptions, SamePipeNext, PiP!InvNext, PiP!FifoStep DEF PipeStep, PartsInv
  <2> QED
    BY <1>1, <2>1 DEF PipeStep, PartsInv
<1>2. CASE ProcStep
  <2>1. ProcInv'
    BY <1>2, ProcNext DEF ProcStep, PartsInv
  <2> QED
    BY <1>2, <2>1 DEF ProcStep, PartsInv
<1>3. CASE SpinStep
  <2>1. SpP!Inv /\ SpP!Next /\ SpinProcs \in Nat /\ SpinCPUs \in Nat
    BY <1>3, SameAssumptions, SameSpinNext DEF SpinStep, PartsInv
  <2>2. SpP!Inv'
    BY <2>1, SpP!NextInv
  <2> QED
    BY <1>3, <2>2 DEF SpinStep, PartsInv
<1>4. CASE UNCHANGED vars
  <2>1. sys = "pipe" => PiP!Inv' /\ PiP!RingBound'
    <3>1. UNCHANGED PiP!vars
      BY <1>4 DEF vars, pipeOnly, PiP!vars, PiP!ring, PiP!ends
    <3> QED
      BY <3>1, SameAssumptions, PiP!InvNext, PiP!FifoStep DEF PartsInv
  <2>2. sys = "proc" => ProcInv'
    <3>1. UNCHANGED Pr!vars
      BY <1>4 DEF vars, tableOnly, Pr!vars, Pr!table
    <3> QED
      BY <3>1, ProcNext DEF PartsInv
  <2>3. sys = "spin" => SpP!Inv'
    <3>1. UNCHANGED SpP!vars
      BY <1>4 DEF vars, SpP!vars
    <3> QED
      BY <3>1, SpP!StillInv DEF PartsInv
  <2> QED
    BY <1>4, <2>1, <2>2, <2>3 DEF PartsInv, vars
<1> QED
  BY <1>1, <1>2, <1>3, <1>4 DEF Next

LEMMA Inductive == Spec => []PartsInv
BY PartsInit, PartsNext, PTL DEF Spec

\* The sleep and wakeup calls of pipe.c match, for any readers and writers.
THEOREM WakeupsMatch == Spec => []NoLostWakeup
<1>1. PartsInv => NoLostWakeup
  BY SameAssumptions, SamePipeSafe, PiP!InvSafe DEF PartsInv, NoLostWakeup
<1> QED
  BY <1>1, Inductive, PTL

\* A pipe is touched under its lock, and not after kfree(pi).
THEOREM PipeMemorySafe == Spec => []NoUseAfterFree
<1>1. PartsInv => NoUseAfterFree
  BY SameAssumptions, SamePipeSafe, SameLockHeld, PiP!InvSafe DEF PartsInv, NoUseAfterFree, PiP!Inv
<1> QED
  BY <1>1, Inductive, PTL

\* The ring of pipe.c implements the bounded queue, and read() returns 0 only at its
\* end.
THEOREM PipeIsFifo == Spec => FifoSpec
<1> DEFINE Put == (sys = "pipe" => (Pi!Fifo!FNext \/ UNCHANGED Pi!Fifo!fvars) /\ Pi!ReadEndsClosed)
<1>1. Init => (sys = "pipe" => Pi!Fifo!FInit)
  BY SameAssumptions, SamePipeInit, SameFifo, PiP!FifoInit DEF Init
<1>2. PartsInv /\ [Next]_vars => [Put]_vars
  <2> SUFFICES ASSUME PartsInv, Next, sys = "pipe" PROVE Put
    OBVIOUS
  <2>1. PipeStep
    BY DEF Next, ProcStep, SpinStep
  <2>2. PiP!Inv /\ PiP!RingBound /\ PiP!Next
    BY <2>1, SamePipeNext DEF PartsInv, PipeStep
  <2>3. (PiP!Fifo!FNext \/ UNCHANGED PiP!Fifo!fvars) /\ PiP!ReadEndsClosed
    BY <2>2, SameAssumptions, PiP!FifoStep, PiP!EofStep
  <2> QED
    BY <2>3, SameFifo, SameLockHeld
<1> QED
  BY <1>1, <1>2, Inductive, PTL DEF Spec, FifoSpec

\* fork(), exit() and wait() keep the tree of processes whole.
THEOREM TreeSafe == Spec => []ProcessTree
<1>1. PartsInv => ProcessTree
  BY ProcSafe DEF PartsInv, ProcessTree
<1> QED
  BY <1>1, Inductive, PTL

\* No slot is handed on while a CPU is on its stack, and slots are clean when they are
\* handed on as long as no program has called kill(0), which marks a free slot.
THEOREM SlotsSafe ==
  Spec => [](/\ sys = "proc" => Pr!StackNotReused
             /\ (sys = "proc" /\ 0 \in named) \/ SlotsClean)
<1>1. PartsInv => /\ sys = "proc" => Pr!StackNotReused
                  /\ (sys = "proc" /\ 0 \in named) \/ SlotsClean
  BY ProcSafe DEF PartsInv, SlotsClean
<1> QED
  BY <1>1, Inductive, PTL

\* A lock names the CPU of the thread that releases it, noff counts the locks of a CPU,
\* and interrupts are what the code of the process on it last made them.
THEOREM SpinLocks == Spec => []LocksExact
<1>1. PartsInv => LocksExact
  BY SameAssumptions, SameSpinExact, SpP!InvSafe DEF PartsInv, LocksExact
<1> QED
  BY <1>1, Inductive, PTL

\* No process runs on two CPUs (scheduler(), sched()).
THEOREM OneCpuEach == Spec => []OneCpu
<1>1. PartsInv => OneCpu
  BY SameAssumptions, SameSpinSafe, SpP!InvSafe DEF PartsInv, OneCpu
<1> QED
  BY <1>1, Inductive, PTL

\* acquire(), release() and sched() do not panic, and CPUs do not wait for each other.
THEOREM SpinNeverStuck == Spec => []NeverStuck
<1>1. PartsInv => NeverStuck
  BY SameAssumptions, SameSpinSafe, SpP!InvSafe DEF PartsInv, NeverStuck
<1> QED
  BY <1>1, Inductive, PTL

\* Pipes, process table, CPUs and locks keep their types.
THEOREM PartsTypes == Spec => []TypeOK
<1>1. PartsInv => TypeOK
  BY SameAssumptions, SameSpinSafe, SameTypes, SpP!InvSafe DEF PartsInv, TypeOK, PiP!Inv, ProcInv
<1> QED
  BY <1>1, Inductive, PTL
=============================================================================
