----------------------------- MODULE SpinProofs -----------------------------
(***************************************************************************)
(* Theorems about Spinlock, for any number of processes and CPUs.           *)
(*                                                                          *)
(* What a thread has to do is a sequence whose length depends on the number  *)
(* of processes.  The invariant says of each place of such a sequence what    *)
(* the rest of it, from there on, still releases and does to interrupts.      *)
(***************************************************************************)
EXTENDS Spinlock, FiniteSetTheorems, SequenceTheorems, TLAPS

Threads == 1..NPROC + NCPU
Flags == {"on", "off", "sret", "forkret"}
Args == Locks \cup BOOLEAN \cup {"RUNNABLE", "SLEEPING"}
Names ==
  {"acquire", "spin", "release", "state", "sched", "back", "pick", "gone", "wake", "tick", "test",
   "on", "off", "sret", "forkret"}
Ops == [op : Names, arg : Args]

\* The locks that the code s releases from its place k on, before it takes them.
OwesAt(s, k) == {l \in Locks : \E j \in k..Len(s) :
  /\ s[j] = Release(l)
  /\ \A i \in k..j - 1 : s[i] \notin {Acquire(l), Op("spin", l)}}

\* The first operation on interrupts from there on is f.
FlagAt(s, k, f) == \E j \in k..Len(s) : s[j].op = f /\ \A i \in k..j - 1 : s[i].op \notin Flags

HasOp(s, k, op) == k \in 1..Len(s) /\ s[k].op = op

\* What is taken is released; p->lock comes after tickslock; a thread spins for the lock
\* that comes next.
LockOK(s, k) ==
  /\ \E q \in Locks : OwesAt(s, k) \subseteq {tickslock, q}
  /\ s[k].op \in {"acquire", "spin"} =>
       s[k].arg \in OwesAt(s, k + 1) /\ OwesAt(s, k) \subseteq {tickslock}
  /\ s[k].op = "release" => s[k].arg \in Locks \ OwesAt(s, k + 1)
  /\ ~HasOp(s, k + 1, "spin")

\* A handler is on top of code that runs with interrupts on.
FlagOK(t, s, k) ==
  /\ s[k].op \in Flags => OwesAt(s, k) = {}
  /\ s[k].op = "on" => FlagAt(s, k + 1, "off")
  /\ s[k].op \in {"off", "forkret"} => FlagAt(s, k + 1, "sret")
  /\ s[k].op = "sret" /\ t \in Procs => ~FlagAt(s, k + 1, "sret") /\ ~FlagAt(s, k + 1, "on")
  /\ FlagAt(s, k, "on") => s[k].op = "on"
  /\ FlagAt(s, k, "forkret") => s[k].op \in {"forkret", "release"}

\* A process gives up its CPU with its own lock alone; the scheduler takes that lock
\* for it and gives it back.
ProcOK(t, s, k) ==
  /\ s[k].op = "state" =>
       /\ t \in Procs /\ OwesAt(s, k) = {t}
       /\ HasOp(s, k + 1, "sched") /\ s[k].arg \in {"RUNNABLE", "SLEEPING"}
  /\ HasOp(s, k + 1, "sched") => s[k].op = "state"
  /\ s[k].op = "sched" => t \in Procs /\ OwesAt(s, k) = {t}
  /\ s[k].op = "back" =>
       /\ t \in Procs /\ OwesAt(s, k) = {t}
       /\ s[k].arg = ~FlagAt(s, k, "sret")
  /\ s[k].op = "test" => t \in Procs /\ OwesAt(s, k) = {tickslock} /\ FlagAt(s, k, "off")
  /\ s[k].op = "tick" => OwesAt(s, k) = {} /\ FlagAt(s, k, "sret")
  /\ s[k].op = "wake" => s[k].arg \in Procs
  /\ s[k].op = "pick" =>
       /\ t \notin Procs /\ s[k].arg \in Procs /\ OwesAt(s, k) = {s[k].arg}
       /\ k + 2 <= Len(s) /\ s[k + 1] = Op("gone", 0) /\ s[k + 2] = Release(s[k].arg)
  /\ s[k].op = "gone" => t \notin Procs /\ OwesAt(s, k) # {} /\ HasOp(s, k + 1, "release")

OpOK(t, s, k) == LockOK(s, k) /\ FlagOK(t, s, k) /\ ProcOK(t, s, k)
Good(t, s) == \A k \in 1..Len(s) : OpOK(t, s, k)

Cpus == [proc : 0..NPROC, ctx : 0..NPROC, noff : 0..2, intena : BOOLEAN, intr : BOOLEAN]
Typed ==
  /\ cpu \in [CPUs -> Cpus]
  /\ lock \in [Locks -> {Nobody} \cup CPUs]
  /\ state \in [Procs -> {"RUNNABLE", "RUNNING", "SLEEPING"}]
  /\ todo \in [Threads -> Seq(Ops)]

CodeOK == \A t \in Threads : Good(t, todo[t])

\* The code of a process that is not on a CPU: it comes back with its lock held.
Parked(p) ==
  /\ HasOp(todo[p], 1, "back") \/ (HasOp(todo[p], 1, "release") /\ HasOp(todo[p], 2, "forkret"))
  /\ OwesAt(todo[p], 1) = {p}
OffCpu == \A p \in Procs : (\A c \in CPUs : cpu[c].ctx # p) => state[p] # "RUNNING" /\ Parked(p)

\* A CPU r runs the code s with the set L of locks, where st is the state of the processes.
LocksFit(s, L) == L = OwesAt(s, 1)
NoffFit(r, s) ==
  /\ r.noff = Cardinality(OwesAt(s, 1)) + (IF HasOp(s, 1, "spin") THEN 1 ELSE 0)
  /\ r.noff > 0 => ~r.intr
StateFit(r, s, st) ==
  /\ r.ctx # 0 => r.proc = r.ctx /\ (HasOp(s, 1, "sched") <=> st[r.ctx] # "RUNNING")
  /\ r.ctx = 0 /\ r.proc # 0 => HasOp(s, 1, "gone")
\* Whether interrupts are on, or will be when the last lock is released.
Saved(r) == IF r.noff = 0 THEN r.intr ELSE r.intena
IntrFit(r, s) == r.ctx # 0 /\ ~HasOp(s, 1, "back") =>
  /\ FlagAt(s, 1, "sret") \/ FlagAt(s, 1, "on") => ~Saved(r)
  /\ (\A f \in Flags \ {"off"} : ~FlagAt(s, 1, f)) => Saved(r)
Runs(r, s, L, st) == LocksFit(s, L) /\ NoffFit(r, s) /\ StateFit(r, s, st) /\ IntrFit(r, s)

HeldBy(c) == {l \in Locks : lock[l] = c}
Running == \A c \in CPUs : Runs(cpu[c], Code(c), HeldBy(c), state)

\* The scheduler left its CPU to a process, with the lock of this process.
Left == \A c \in CPUs : cpu[c].ctx # 0 =>
  HasOp(todo[NPROC + c], 1, "gone") /\ OwesAt(todo[NPROC + c], 1) = {cpu[c].ctx}

Inv == Typed /\ CodeOK /\ Running /\ Left /\ OffCpu /\ OneCpu

-----------------------------------------------------------------------------
(* Sequences of operations, one operation at a time.                        *)

LEMMA Cons ==
  ASSUME NEW o \in Ops, NEW r \in Seq(Ops), NEW u, u = <<o>> \o r
  PROVE  /\ u \in Seq(Ops) /\ u # <<>> /\ Head(u) = o /\ Tail(u) = r
         /\ Len(r) \in Nat /\ Len(u) = Len(r) + 1 /\ u[1] = o
         /\ \A k \in 1..Len(r) : u[k + 1] = r[k]
<1>1. <<o>> \in Seq(Ops) /\ Len(<<o>>) = 1 /\ <<o>>[1] = o
  OBVIOUS
<1>2. Len(r) \in Nat
  BY LenProperties
<1>3. /\ u \in Seq(Ops) /\ Len(u) = Len(r) + 1
      /\ \A i \in 1..Len(r) + 1 : u[i] = IF i <= 1 THEN <<o>>[i] ELSE r[i - 1]
  BY <1>1, <1>2, ConcatProperties
<1>4. u[1] = o /\ \A k \in 1..Len(r) : u[k + 1] = r[k]
  BY <1>1, <1>2, <1>3
<1>5. u # <<>>
  BY <1>2, <1>3
<1>6. Head(u) = o
  BY <1>3, <1>4, <1>5
<1>7. Tail(u) = r
  <2>1. /\ Tail(u) \in Seq(Ops) /\ Len(Tail(u)) = Len(u) - 1
        /\ \A i \in 1..Len(Tail(u)) : Tail(u)[i] = u[i + 1]
    BY <1>3, <1>5, HeadTailProperties
  <2>2. Len(Tail(u)) = Len(r) /\ \A i \in 1..Len(Tail(u)) : Tail(u)[i] = r[i]
    BY <1>2, <1>3, <1>4, <2>1
  <2> QED
    BY <2>1, <2>2, SeqEqual
<1> QED
  BY <1>2, <1>3, <1>4, <1>5, <1>6, <1>7

LEMMA Uncons ==
  ASSUME NEW s \in Seq(Ops), s # <<>>
  PROVE  Head(s) \in Ops /\ Tail(s) \in Seq(Ops) /\ s = <<Head(s)>> \o Tail(s) /\ s[1] = Head(s)
<1>1. /\ Head(s) \in Ops /\ Tail(s) \in Seq(Ops) /\ Len(Tail(s)) = Len(s) - 1
      /\ \A i \in 1..Len(Tail(s)) : Tail(s)[i] = s[i + 1]
  BY HeadTailProperties
<1>2. Len(s) \in Nat /\ Len(s) # 0
  BY EmptySeq
<1>3. s[1] = Head(s)
  OBVIOUS
<1> DEFINE u == <<Head(s)>> \o Tail(s)
<1>4. /\ u \in Seq(Ops) /\ Len(u) = Len(Tail(s)) + 1 /\ u[1] = Head(s)
      /\ \A k \in 1..Len(Tail(s)) : u[k + 1] = Tail(s)[k]
  BY <1>1, Cons
<1> HIDE DEF u
<1>5. Len(u) = Len(s) /\ \A i \in 1..Len(u) : u[i] = s[i]
  <2>1. Len(u) = Len(s)
    BY <1>1, <1>2, <1>4
  <2>2. ASSUME NEW i \in 1..Len(u) PROVE u[i] = s[i]
    <3>1. CASE i = 1
      BY <3>1, <1>3, <1>4
    <3>2. CASE i # 1
      <4>1. i - 1 \in 1..Len(Tail(s))
        BY <3>2, <1>1, <1>2, <2>1
      <4>2. u[(i - 1) + 1] = Tail(s)[i - 1] /\ Tail(s)[i - 1] = s[(i - 1) + 1]
        BY <4>1, <1>1, <1>4
      <4>3. (i - 1) + 1 = i
        OBVIOUS
      <4> QED
        BY <4>2, <4>3
    <3> QED
      BY <3>1, <3>2
  <2> QED
    BY <2>1, <2>2
<1>6. u = s
  BY <1>4, <1>5, SeqEqual
<1> QED
  BY <1>1, <1>3, <1>6 DEF u

\* Short pieces of code in front of the rest.
LEMMA Piece ==
  ASSUME NEW r \in Seq(Ops), NEW o \in Ops, NEW v \in Seq(Ops)
  PROVE  (<<o>> \o v) \o r = <<o>> \o (v \o r)
<1>1. <<o>> \in Seq(Ops)
  OBVIOUS
<1> QED
  BY <1>1, ConcatAssociative

LEMMA TwoPieces ==
  ASSUME NEW r \in Seq(Ops), NEW x \in Ops, NEW y \in Ops
  PROVE  <<x, y>> \o r = <<x>> \o (<<y>> \o r)
<1>1. <<x>> \o <<y>> = <<x, y>>
  <2> DEFINE u == <<x>> \o <<y>>
  <2>1. <<x>> \in Seq(Ops) /\ <<y>> \in Seq(Ops) /\ Len(<<x>>) = 1 /\ Len(<<y>>) = 1
    OBVIOUS
  <2>2. u \in Seq(Ops) /\ Len(u) = 2 /\ \A i \in 1..2 : u[i] = IF i <= 1 THEN <<x>>[i] ELSE <<y>>[i - 1]
    BY <2>1, ConcatProperties
  <2> HIDE DEF u
  <2>3. \A i \in 1..2 : u[i] = <<x, y>>[i]
    BY <2>2
  <2>4. <<x, y>> \in Seq(Ops) /\ Len(<<x, y>>) = 2
    OBVIOUS
  <2> QED
    BY <2>2, <2>3, <2>4, SeqEqual DEF u
<1>2. <<y>> \in Seq(Ops)
  OBVIOUS
<1>3. (<<x>> \o <<y>>) \o r = <<x>> \o (<<y>> \o r)
  BY <1>2, Piece
<1> QED
  BY <1>1, <1>3, Zenon

LEMMA ThreePieces ==
  ASSUME NEW r \in Seq(Ops), NEW x \in Ops, NEW y \in Ops, NEW z \in Ops
  PROVE  <<x, y, z>> \o r = <<x>> \o (<<y>> \o (<<z>> \o r))
<1>1. <<x, y, z>> = <<x>> \o <<y, z>>
  OBVIOUS
<1>2. <<y, z>> \in Seq(Ops)
  OBVIOUS
<1>3. (<<x>> \o <<y, z>>) \o r = <<x>> \o (<<y, z>> \o r)
  BY <1>2, Piece
<1>4. <<y, z>> \o r = <<y>> \o (<<z>> \o r)
  BY TwoPieces
<1> QED
  BY <1>1, <1>3, <1>4, Zenon

\* One more operation in front changes nothing of what follows.
LEMMA ConsOwes ==
  ASSUME NEW o \in Ops, NEW r \in Seq(Ops), NEW u, u = <<o>> \o r, NEW k \in 1..Len(r) + 1
  PROVE  OwesAt(u, k + 1) = OwesAt(r, k)
<1>1. Len(r) \in Nat /\ Len(u) = Len(r) + 1 /\ \A i \in 1..Len(r) : u[i + 1] = r[i]
  BY Cons
<1>2. ASSUME NEW l \in Locks, l \in OwesAt(u, k + 1) PROVE l \in OwesAt(r, k)
  <2>1. PICK j \in k + 1..Len(u) : u[j] = Release(l) /\ \A i \in k + 1..j - 1 : u[i] \notin {Acquire(l), Op("spin", l)}
    BY <1>2 DEF OwesAt
  <2>2. j - 1 \in k..Len(r) /\ j - 1 \in 1..Len(r)
    BY <1>1, <2>1
  <2>3. r[j - 1] = u[(j - 1) + 1] /\ (j - 1) + 1 = j
    BY <1>1, <2>2
  <2>4. ASSUME NEW i \in k..(j - 1) - 1 PROVE r[i] \notin {Acquire(l), Op("spin", l)}
    <3>1. i + 1 \in k + 1..j - 1 /\ i \in 1..Len(r)
      BY <1>1, <2>1, <2>2
    <3> QED
      BY <3>1, <1>1, <2>1
  <2> QED
    BY <2>1, <2>2, <2>3, <2>4 DEF OwesAt
<1>3. ASSUME NEW l \in Locks, l \in OwesAt(r, k) PROVE l \in OwesAt(u, k + 1)
  <2>1. PICK j \in k..Len(r) : r[j] = Release(l) /\ \A i \in k..j - 1 : r[i] \notin {Acquire(l), Op("spin", l)}
    BY <1>3 DEF OwesAt
  <2>2. j + 1 \in k + 1..Len(u) /\ j \in 1..Len(r)
    BY <1>1, <2>1
  <2>3. u[j + 1] = Release(l)
    BY <1>1, <2>1, <2>2
  <2>4. ASSUME NEW i \in k + 1..(j + 1) - 1 PROVE u[i] \notin {Acquire(l), Op("spin", l)}
    <3>1. i - 1 \in k..j - 1 /\ i - 1 \in 1..Len(r) /\ (i - 1) + 1 = i
      BY <1>1, <2>1, <2>2
    <3>2. u[(i - 1) + 1] = r[i - 1]
      BY <3>1, <1>1
    <3> QED
      BY <3>1, <3>2, <2>1
  <2> QED
    BY <2>2, <2>3, <2>4 DEF OwesAt
<1> QED
  BY <1>2, <1>3 DEF OwesAt

LEMMA ConsFlag ==
  ASSUME NEW o \in Ops, NEW r \in Seq(Ops), NEW u, u = <<o>> \o r, NEW k \in 1..Len(r) + 1, NEW f
  PROVE  FlagAt(u, k + 1, f) <=> FlagAt(r, k, f)
<1>1. Len(r) \in Nat /\ Len(u) = Len(r) + 1 /\ \A i \in 1..Len(r) : u[i + 1] = r[i]
  BY Cons
<1>2. ASSUME FlagAt(u, k + 1, f) PROVE FlagAt(r, k, f)
  <2>1. PICK j \in k + 1..Len(u) : u[j].op = f /\ \A i \in k + 1..j - 1 : u[i].op \notin Flags
    BY <1>2 DEF FlagAt
  <2>2. j - 1 \in k..Len(r) /\ j - 1 \in 1..Len(r)
    BY <1>1, <2>1
  <2>3. r[j - 1] = u[(j - 1) + 1] /\ (j - 1) + 1 = j
    BY <1>1, <2>2
  <2>4. ASSUME NEW i \in k..(j - 1) - 1 PROVE r[i].op \notin Flags
    <3>1. i + 1 \in k + 1..j - 1 /\ i \in 1..Len(r)
      BY <1>1, <2>1, <2>2
    <3> QED
      BY <3>1, <1>1, <2>1
  <2> QED
    BY <2>1, <2>2, <2>3, <2>4 DEF FlagAt
<1>3. ASSUME FlagAt(r, k, f) PROVE FlagAt(u, k + 1, f)
  <2>1. PICK j \in k..Len(r) : r[j].op = f /\ \A i \in k..j - 1 : r[i].op \notin Flags
    BY <1>3 DEF FlagAt
  <2>2. j + 1 \in k + 1..Len(u) /\ j \in 1..Len(r)
    BY <1>1, <2>1
  <2>3. u[j + 1].op = f
    BY <1>1, <2>1, <2>2
  <2>4. ASSUME NEW i \in k + 1..(j + 1) - 1 PROVE u[i].op \notin Flags
    <3>1. i - 1 \in k..j - 1 /\ i - 1 \in 1..Len(r) /\ (i - 1) + 1 = i
      BY <1>1, <2>1, <2>2
    <3>2. u[(i - 1) + 1] = r[i - 1]
      BY <3>1, <1>1
    <3> QED
      BY <3>1, <3>2, <2>1
  <2> QED
    BY <2>2, <2>3, <2>4 DEF FlagAt
<1> QED
  BY <1>2, <1>3

\* What the first operation adds to what follows it.
Owed(o, O) ==
  IF o.op = "release" THEN O \cup {o.arg} ELSE IF o.op \in {"acquire", "spin"} THEN O \ {o.arg} ELSE O

LEMMA FirstOwes ==
  ASSUME NEW o \in Ops, NEW r \in Seq(Ops), NEW u, u = <<o>> \o r, o.op = "release" => o.arg \in Locks
  PROVE  OwesAt(u, 1) = Owed(o, OwesAt(r, 1))
<1>1. /\ Len(r) \in Nat /\ Len(u) = Len(r) + 1 /\ u[1] = o
  BY Cons
<1>2. OwesAt(u, 2) = OwesAt(r, 1)
  <2>1. 1 \in 1..Len(r) + 1 /\ 1 + 1 = 2
    BY <1>1
  <2>2. OwesAt(u, 1 + 1) = OwesAt(r, 1)
    BY <2>1, ConsOwes
  <2> QED
    BY <2>1, <2>2
<1>3. ASSUME NEW l \in Locks
      PROVE  l \in OwesAt(u, 1) <=> o = Release(l) \/ (o \notin {Acquire(l), Op("spin", l)} /\ l \in OwesAt(u, 2))
  <2>1. ASSUME l \in OwesAt(u, 1), o # Release(l)
        PROVE  o \notin {Acquire(l), Op("spin", l)} /\ l \in OwesAt(u, 2)
    <3>1. PICK j \in 1..Len(u) : u[j] = Release(l) /\ \A i \in 1..j - 1 : u[i] \notin {Acquire(l), Op("spin", l)}
      BY <2>1 DEF OwesAt
    <3>2. j \in 2..Len(u) /\ 1 \in 1..j - 1
      BY <3>1, <1>1, <2>1
    <3>3. \A i \in 2..j - 1 : u[i] \notin {Acquire(l), Op("spin", l)}
      BY <3>1
    <3> QED
      BY <1>1, <3>1, <3>2, <3>3 DEF OwesAt
  <2>2. ASSUME o = Release(l) PROVE l \in OwesAt(u, 1)
    <3>1. 1 \in 1..Len(u) /\ u[1] = Release(l) /\ \A i \in 1..1 - 1 : u[i] \notin {Acquire(l), Op("spin", l)}
      BY <2>2, <1>1
    <3> QED
      BY <3>1 DEF OwesAt
  <2>3. ASSUME o \notin {Acquire(l), Op("spin", l)}, l \in OwesAt(u, 2) PROVE l \in OwesAt(u, 1)
    <3>1. PICK j \in 2..Len(u) : u[j] = Release(l) /\ \A i \in 2..j - 1 : u[i] \notin {Acquire(l), Op("spin", l)}
      BY <2>3 DEF OwesAt
    <3>2. \A i \in 1..j - 1 : i = 1 \/ i \in 2..j - 1
      BY <3>1
    <3>3. \A i \in 1..j - 1 : u[i] \notin {Acquire(l), Op("spin", l)}
      BY <3>1, <3>2, <2>3, <1>1
    <3>4. j \in 1..Len(u)
      BY <3>1, <1>1
    <3> QED
      BY <3>1, <3>3, <3>4 DEF OwesAt
  <2> QED
    BY <2>1, <2>2, <2>3
<1>4. \A l \in Locks : /\ o = Release(l) <=> o.op = "release" /\ o.arg = l
                       /\ o = Acquire(l) <=> o.op = "acquire" /\ o.arg = l
                       /\ o = Op("spin", l) <=> o.op = "spin" /\ o.arg = l
  BY DEF Ops, Release, Acquire, Op
<1>5. OwesAt(u, 1) \subseteq Locks /\ OwesAt(u, 2) \subseteq Locks
  BY DEF OwesAt
<1>6. \A l \in Locks : l \in OwesAt(u, 1) <=> l \in Owed(o, OwesAt(u, 2))
  BY <1>3, <1>4 DEF Owed
<1>7. Owed(o, OwesAt(u, 2)) \subseteq Locks
  BY <1>5 DEF Owed
<1>8. OwesAt(u, 1) = Owed(o, OwesAt(u, 2))
  BY <1>5, <1>6, <1>7
<1> QED
  BY <1>2, <1>8

LEMMA FirstFlag ==
  ASSUME NEW o \in Ops, NEW r \in Seq(Ops), NEW u, u = <<o>> \o r, NEW f \in Flags
  PROVE  FlagAt(u, 1, f) <=> IF o.op \in Flags THEN o.op = f ELSE FlagAt(r, 1, f)
<1>1. /\ Len(r) \in Nat /\ Len(u) = Len(r) + 1 /\ u[1] = o
  BY Cons
<1>2. FlagAt(u, 2, f) <=> FlagAt(r, 1, f)
  <2>1. 1 \in 1..Len(r) + 1 /\ 1 + 1 = 2
    BY <1>1
  <2>2. FlagAt(u, 1 + 1, f) <=> FlagAt(r, 1, f)
    BY <2>1, ConsFlag
  <2> QED
    BY <2>1, <2>2
<1>3. ASSUME FlagAt(u, 1, f), o.op # f PROVE o.op \notin Flags /\ FlagAt(u, 2, f)
  <2>1. PICK j \in 1..Len(u) : u[j].op = f /\ \A i \in 1..j - 1 : u[i].op \notin Flags
    BY <1>3 DEF FlagAt
  <2>2. j \in 2..Len(u) /\ 1 \in 1..j - 1
    BY <2>1, <1>1, <1>3
  <2>3. \A i \in 2..j - 1 : u[i].op \notin Flags
    BY <2>1
  <2> QED
    BY <1>1, <2>1, <2>2, <2>3 DEF FlagAt
<1>4. ASSUME o.op = f PROVE FlagAt(u, 1, f)
  <2>1. 1 \in 1..Len(u) /\ u[1].op = f /\ \A i \in 1..1 - 1 : u[i].op \notin Flags
    BY <1>4, <1>1
  <2> QED
    BY <2>1 DEF FlagAt
<1>5. ASSUME o.op \notin Flags, FlagAt(u, 2, f) PROVE FlagAt(u, 1, f)
  <2>1. PICK j \in 2..Len(u) : u[j].op = f /\ \A i \in 2..j - 1 : u[i].op \notin Flags
    BY <1>5 DEF FlagAt
  <2>2. \A i \in 1..j - 1 : i = 1 \/ i \in 2..j - 1
    BY <2>1
  <2>3. \A i \in 1..j - 1 : u[i].op \notin Flags
    BY <2>1, <2>2, <1>5, <1>1
  <2>4. j \in 1..Len(u)
    BY <2>1, <1>1
  <2> QED
    BY <2>1, <2>3, <2>4 DEF FlagAt
<1> QED
  BY <1>2, <1>3, <1>4, <1>5

LEMMA NoCode ==
  /\ <<>> \in Seq(Ops) /\ OwesAt(<<>>, 1) = {} /\ \A f : ~FlagAt(<<>>, 1, f)
  /\ \A op : ~HasOp(<<>>, 1, op)
  /\ \A t : Good(t, <<>>)
<1>1. <<>> \in Seq(Ops) /\ Len(<<>>) = 0
  BY EmptySeq
<1> QED
  BY <1>1 DEF OwesAt, FlagAt, HasOp, Good

\* Of the flags one comes first.
LEMMA OneFlag ==
  ASSUME NEW s \in Seq(Ops), NEW f \in Flags, NEW g \in Flags, FlagAt(s, 1, f), FlagAt(s, 1, g)
  PROVE  f = g
<1>1. PICK j \in 1..Len(s) : s[j].op = f /\ \A i \in 1..j - 1 : s[i].op \notin Flags
  BY DEF FlagAt
<1>2. PICK k \in 1..Len(s) : s[k].op = g /\ \A i \in 1..k - 1 : s[i].op \notin Flags
  BY DEF FlagAt
<1>3. j \in Nat /\ k \in Nat /\ j >= 1 /\ k >= 1
  BY LenProperties
<1>4. ~(j < k) /\ ~(k < j)
  BY <1>1, <1>2, <1>3
<1> QED
  BY <1>1, <1>2, <1>3, <1>4

-----------------------------------------------------------------------------
(* What has to hold of an operation in front of code that is right.         *)

LockFits(o, r) ==
  /\ \E q \in Locks : Owed(o, OwesAt(r, 1)) \subseteq {tickslock, q}
  /\ o.op \in {"acquire", "spin"} =>
       o.arg \in OwesAt(r, 1) /\ Owed(o, OwesAt(r, 1)) \subseteq {tickslock}
  /\ o.op = "release" => o.arg \in Locks \ OwesAt(r, 1)
  /\ ~HasOp(r, 1, "spin")

FlagFits(t, o, r) ==
  /\ o.op \in Flags => OwesAt(r, 1) = {}
  /\ o.op = "on" => FlagAt(r, 1, "off")
  /\ o.op \in {"off", "forkret"} => FlagAt(r, 1, "sret")
  /\ o.op = "sret" /\ t \in Procs => ~FlagAt(r, 1, "sret") /\ ~FlagAt(r, 1, "on")
  /\ o.op \notin Flags => ~FlagAt(r, 1, "on")
  /\ o.op \notin Flags /\ FlagAt(r, 1, "forkret") => o.op = "release"

ProcFits(t, o, r) ==
  /\ o.op = "state" =>
       /\ t \in Procs /\ OwesAt(r, 1) = {t}
       /\ HasOp(r, 1, "sched") /\ o.arg \in {"RUNNABLE", "SLEEPING"}
  /\ HasOp(r, 1, "sched") => o.op = "state"
  /\ o.op = "sched" => t \in Procs /\ OwesAt(r, 1) = {t}
  /\ o.op = "back" =>
       /\ t \in Procs /\ OwesAt(r, 1) = {t}
       /\ o.arg = ~FlagAt(r, 1, "sret")
  /\ o.op = "test" => t \in Procs /\ OwesAt(r, 1) = {tickslock} /\ FlagAt(r, 1, "off")
  /\ o.op = "tick" => OwesAt(r, 1) = {} /\ FlagAt(r, 1, "sret")
  /\ o.op = "wake" => o.arg \in Procs
  /\ o.op = "pick" =>
       /\ t \notin Procs /\ o.arg \in Procs /\ OwesAt(r, 1) = {o.arg}
       /\ 2 <= Len(r) /\ r[1] = Op("gone", 0) /\ r[2] = Release(o.arg)
  /\ o.op = "gone" => t \notin Procs /\ OwesAt(r, 1) # {} /\ HasOp(r, 1, "release")

Fits(t, o, r) == LockFits(o, r) /\ FlagFits(t, o, r) /\ ProcFits(t, o, r)

LEMMA LaterOK ==
  ASSUME NEW t, NEW o \in Ops, NEW r \in Seq(Ops), NEW u, u = <<o>> \o r, NEW k \in 1..Len(r)
  PROVE  OpOK(t, u, k + 1) <=> OpOK(t, r, k)
<1>1. /\ Len(r) \in Nat /\ Len(u) = Len(r) + 1
      /\ \A i \in 1..Len(r) : u[i + 1] = r[i]
  BY Cons
<1>2. u[k + 1] = r[k]
  BY <1>1
<1>3. OwesAt(u, k + 1) = OwesAt(r, k) /\ OwesAt(u, (k + 1) + 1) = OwesAt(r, k + 1)
  <2>1. k \in 1..Len(r) + 1 /\ k + 1 \in 1..Len(r) + 1
    BY <1>1
  <2> QED
    BY <2>1, ConsOwes
<1>4. \A f : /\ FlagAt(u, k + 1, f) <=> FlagAt(r, k, f)
             /\ FlagAt(u, (k + 1) + 1, f) <=> FlagAt(r, k + 1, f)
  <2>1. k \in 1..Len(r) + 1 /\ k + 1 \in 1..Len(r) + 1
    BY <1>1
  <2> QED
    BY <2>1, ConsFlag
<1>5. \A op : HasOp(u, (k + 1) + 1, op) <=> HasOp(r, k + 1, op)
  BY <1>1 DEF HasOp
<1>6. /\ (k + 1) + 2 <= Len(u) <=> k + 2 <= Len(r)
      /\ k + 2 <= Len(r) => u[(k + 1) + 1] = r[k + 1] /\ u[(k + 1) + 2] = r[k + 2]
  <2>1. (k + 1) + 2 <= Len(u) <=> k + 2 <= Len(r)
    BY <1>1
  <2>2. ASSUME k + 2 <= Len(r) PROVE u[(k + 1) + 1] = r[k + 1] /\ u[(k + 1) + 2] = r[k + 2]
    <3>1. k + 1 \in 1..Len(r) /\ k + 2 \in 1..Len(r) /\ (k + 1) + 2 = (k + 2) + 1
      BY <2>2, <1>1
    <3> QED
      BY <3>1, <1>1
  <2> QED
    BY <2>1, <2>2
<1>7. LockOK(u, k + 1) <=> LockOK(r, k)
  BY <1>2, <1>3, <1>5, Zenon DEF LockOK
<1>8. FlagOK(t, u, k + 1) <=> FlagOK(t, r, k)
  BY <1>2, <1>3, <1>4, Zenon DEF FlagOK
<1>9. ProcOK(t, u, k + 1) <=> ProcOK(t, r, k)
  BY <1>2, <1>3, <1>4, <1>5, <1>6, ZenonT(60) DEF ProcOK
<1> QED
  BY <1>7, <1>8, <1>9 DEF OpOK

LEMMA FirstOK ==
  ASSUME NEW t, NEW o \in Ops, NEW r \in Seq(Ops), NEW u, u = <<o>> \o r
  PROVE  OpOK(t, u, 1) <=> Fits(t, o, r)
<1>1. /\ Len(r) \in Nat /\ Len(u) = Len(r) + 1 /\ u[1] = o
      /\ \A i \in 1..Len(r) : u[i + 1] = r[i]
  BY Cons
<1>2. OwesAt(u, 1 + 1) = OwesAt(r, 1) /\ \A f : FlagAt(u, 1 + 1, f) <=> FlagAt(r, 1, f)
  <2>1. 1 \in 1..Len(r) + 1
    BY <1>1
  <2> QED
    BY <2>1, ConsOwes, ConsFlag
<1>3. (o.op = "release" => o.arg \in Locks) => OwesAt(u, 1) = Owed(o, OwesAt(r, 1))
  BY FirstOwes
<1>4. \A f \in Flags : FlagAt(u, 1, f) <=> IF o.op \in Flags THEN o.op = f ELSE FlagAt(r, 1, f)
  BY FirstFlag
<1>5. \A op : HasOp(u, 1 + 1, op) <=> HasOp(r, 1, op)
  BY <1>1 DEF HasOp
<1>6. /\ 1 + 2 <= Len(u) <=> 2 <= Len(r)
      /\ 2 <= Len(r) => u[1 + 1] = r[1] /\ u[1 + 2] = r[2]
  <2>1. 1 + 2 <= Len(u) <=> 2 <= Len(r)
    BY <1>1
  <2>2. ASSUME 2 <= Len(r) PROVE u[1 + 1] = r[1] /\ u[1 + 2] = r[2]
    <3>1. 1 \in 1..Len(r) /\ 2 \in 1..Len(r) /\ 1 + 2 = 2 + 1
      BY <2>2, <1>1
    <3> QED
      BY <3>1, <1>1
  <2> QED
    BY <2>1, <2>2
<1>7. LockOK(u, 1) <=> LockFits(o, r)
  BY <1>1, <1>2, <1>3, <1>5 DEF LockOK, LockFits
<1> HIDE DEF Flags
<1>8. ASSUME LockFits(o, r) PROVE FlagOK(t, u, 1) <=> FlagFits(t, o, r)
  <2>1. o.op \in Flags => OwesAt(u, 1) = OwesAt(r, 1)
    BY <1>8, <1>3 DEF LockFits, Owed, Flags
  <2> QED
    BY <2>1, <1>1, <1>2, <1>4 DEF FlagOK, FlagFits, Flags
<1>9. ASSUME LockFits(o, r) PROVE ProcOK(t, u, 1) <=> ProcFits(t, o, r)
  <2>1. o.op \in {"state", "sched", "back", "test", "tick", "pick", "gone"} => OwesAt(u, 1) = OwesAt(r, 1)
    BY <1>8, <1>3 DEF LockFits, Owed
  <2>2. o.op \in {"state", "sched", "back", "test", "tick", "pick"} =>
          \A f \in Flags : FlagAt(u, 1, f) <=> FlagAt(r, 1, f)
    BY <1>4 DEF Flags
  <2>3. "sret" \in Flags /\ "off" \in Flags
    BY DEF Flags
  <2> QED
    BY <2>1, <2>2, <2>3, <1>1, <1>5, <1>6, SMTT(60) DEF ProcOK, ProcFits
<1> QED
  BY <1>7, <1>8, <1>9 DEF OpOK, Fits

LEMMA ConsGood ==
  ASSUME NEW t, NEW o \in Ops, NEW r \in Seq(Ops), NEW u, u = <<o>> \o r
  PROVE  Good(t, u) <=> Fits(t, o, r) /\ Good(t, r)
<1>1. Len(r) \in Nat /\ Len(u) = Len(r) + 1
  BY Cons
<1>2. ASSUME Good(t, u) PROVE Fits(t, o, r) /\ Good(t, r)
  <2>1. OpOK(t, u, 1)
    BY <1>1, <1>2 DEF Good
  <2>2. ASSUME NEW k \in 1..Len(r) PROVE OpOK(t, r, k)
    <3>1. k + 1 \in 1..Len(u)
      BY <1>1
    <3> QED
      BY <3>1, <1>2, LaterOK DEF Good
  <2> QED
    BY <2>1, <2>2, FirstOK DEF Good
<1>3. ASSUME Fits(t, o, r), Good(t, r), NEW k \in 1..Len(u) PROVE OpOK(t, u, k)
  <2>1. CASE k = 1
    BY <2>1, <1>3, FirstOK
  <2>2. CASE k # 1
    <3>1. k - 1 \in 1..Len(r) /\ (k - 1) + 1 = k
      BY <2>2, <1>1
    <3>2. OpOK(t, u, (k - 1) + 1) <=> OpOK(t, r, k - 1)
      BY <3>1, LaterOK
    <3> QED
      BY <3>1, <3>2, <1>3 DEF Good
  <2> QED
    BY <2>1, <2>2
<1> QED
  BY <1>2, <1>3 DEF Good

-----------------------------------------------------------------------------
(* Loops over the table of processes.                                       *)

\* A set of numbers has a least one.
LEMMA Least ==
  ASSUME NEW S \in SUBSET Nat, S # {}
  PROVE  \E q \in S : \A r \in S : q <= r
<1> DEFINE T == {0..q : q \in S}
<1>1. T # {} /\ T \subseteq FiniteSubsetsOf(Nat)
  <2>1. \A q \in S : IsFiniteSet(0..q) /\ 0..q \in SUBSET Nat
    BY FS_Interval
  <2> QED
    BY <2>1 DEF FiniteSubsetsOf
<1>2. IsWellFoundedOn(StrictSubsetOrdering(Nat), FiniteSubsetsOf(Nat))
  BY FS_StrictSubsetOrderingWellFounded
<1> HIDE DEF T
<1>3. PICK I \in T : \A J \in T : <<J, I>> \notin StrictSubsetOrdering(Nat)
  BY <1>1, <1>2, WFMin
<1>4. PICK q \in S : I = 0..q
  BY DEF T
<1>5. ASSUME NEW r \in S PROVE q <= r
  <2> SUFFICES ASSUME r < q PROVE FALSE
    OBVIOUS
  <2>1. 0..r \in T
    BY DEF T
  <2>2. 0..r \subseteq 0..q /\ 0..r # 0..q /\ 0..r \in SUBSET Nat /\ 0..q \in SUBSET Nat
    OBVIOUS
  <2>3. <<0..r, I>> \in StrictSubsetOrdering(Nat)
    BY <1>4, <2>2 DEF StrictSubsetOrdering
  <2> QED
    BY <1>3, <2>1, <2>3
<1> QED
  BY <1>5

\* A set of numbers with 0 and the successor of each of its members has them all.
LEMMA Climb ==
  ASSUME NEW n \in Nat, NEW S, 0 \in S, \A m \in Nat : m < n /\ m \in S => m + 1 \in S
  PROVE  \A m \in 0..n : m \in S
<1> DEFINE B == {m \in 0..n : m \notin S}
<1> SUFFICES ASSUME B # {} PROVE FALSE
  OBVIOUS
<1>1. B \in SUBSET Nat
  OBVIOUS
<1>2. PICK m \in B : \A k \in B : m <= k
  BY <1>1, Least
<1>3. m \in 0..n /\ m \notin S /\ m # 0
  BY <1>2
<1>4. m - 1 \in Nat /\ m - 1 < n /\ (m - 1) + 1 = m
  BY <1>3
<1>5. m - 1 \in S
  BY <1>2, <1>4
<1> QED
  BY <1>3, <1>4, <1>5

\* One turn of a loop.
Turn(S, code, f, q) == IF q = 0 THEN <<>> ELSE IF q \in S THEN f[q - 1] \o code[q] ELSE f[q - 1]

LEMMA LoopExists ==
  ASSUME NEW S, NEW code, NEW n \in Nat
  PROVE  \E f : f = [q \in 0..n |-> Turn(S, code, f, q)]
<1> DEFINE Defined == {m \in Nat : \E f : f = [q \in 0..m |-> Turn(S, code, f, q)]}
<1>1. 0 \in Defined
  <2> DEFINE f == [q \in 0..0 |-> <<>>]
  <2>1. \A q \in 0..0 : Turn(S, code, f, q) = <<>>
    BY DEF Turn
  <2>2. f = [q \in 0..0 |-> Turn(S, code, f, q)]
    BY <2>1
  <2> QED
    BY <2>2
<1>2. ASSUME NEW m \in Nat, m < n, m \in Defined PROVE m + 1 \in Defined
  <2>1. PICK f : f = [q \in 0..m |-> Turn(S, code, f, q)]
    BY <1>2
  <2> DEFINE g == [q \in 0..m + 1 |-> IF q <= m THEN f[q] ELSE Turn(S, code, f, q)]
  <2>2. ASSUME NEW q \in 0..m + 1 PROVE g[q] = Turn(S, code, g, q)
    <3>1. q = 0 \/ (q - 1 \in 0..m /\ q - 1 \in 0..m + 1 /\ q - 1 <= m)
      OBVIOUS
    <3>2. q # 0 => g[q - 1] = f[q - 1]
      BY <3>1
    <3> HIDE DEF g
    <3>3. Turn(S, code, g, q) = Turn(S, code, f, q)
      BY <3>2 DEF Turn
    <3>4. g[q] = Turn(S, code, f, q)
      <4>1. CASE q <= m
        <5>1. q \in 0..m
          BY <4>1
        <5>2. f[q] = Turn(S, code, f, q)
          BY <5>1, <2>1
        <5> QED
          BY <4>1, <5>2 DEF g
      <4>2. CASE ~(q <= m)
        BY <4>2 DEF g
      <4> QED
        BY <4>1, <4>2
    <3> QED
      BY <3>3, <3>4
  <2>3. g = [q \in 0..m + 1 |-> Turn(S, code, g, q)]
    <3>1. g = [q \in 0..m + 1 |-> g[q]]
      OBVIOUS
    <3> HIDE DEF g
    <3> QED
      BY <3>1, <2>2
  <2> HIDE DEF g
  <2> QED
    BY <2>3
<1> HIDE DEF Defined
<1>3. n \in 0..n /\ \A m \in 0..n : m \in Defined
  BY <1>1, <1>2, Climb
<1>4. n \in Defined
  BY <1>3
<1> QED
  BY <1>4 DEF Defined

\* What each turn keeps, the loop keeps.
LEMMA LoopKeeps ==
  ASSUME NPROC \in Nat, NEW S, NEW code, NEW K \in SUBSET Seq(Ops),
         \A q \in S : code[q] \in Seq(Ops) /\ \A r \in K : code[q] \o r \in K
  PROVE  Each(S, code) \in Seq(Ops) /\ \A r \in K : Each(S, code) \o r \in K
<1> DEFINE C == CHOOSE f : f = [q \in 0..NPROC |-> Turn(S, code, f, q)]
<1>1. Each(S, code) = C[NPROC]
  BY DEF Each, Turn
<1>2. C = [q \in 0..NPROC |-> Turn(S, code, C, q)]
  BY LoopExists
<1> HIDE DEF C
<1> DEFINE Kept == {m \in 0..NPROC : C[m] \in Seq(Ops) /\ \A r \in K : C[m] \o r \in K}
<1>3. 0 \in Kept
  <2>1. C[0] = <<>>
    BY <1>2 DEF Turn
  <2>2. <<>> \in Seq(Ops) /\ \A r \in K : <<>> \o r = r
    BY EmptySeq, ConcatEmptySeq
  <2>3. C[0] \in Seq(Ops) /\ \A r \in K : C[0] \o r \in K
    BY <2>1, <2>2, Zenon
  <2>4. 0 \in 0..NPROC
    OBVIOUS
  <2> QED
    BY <2>3, <2>4, Zenon
<1>4. ASSUME NEW m \in Nat, m < NPROC, m \in Kept PROVE m + 1 \in Kept
  <2>1. m + 1 \in 0..NPROC /\ m + 1 # 0 /\ (m + 1) - 1 = m
    BY <1>4
  <2>2. C[m + 1] = Turn(S, code, C, m + 1)
    BY <2>1, <1>2
  <2>3. C[m + 1] = IF m + 1 \in S THEN C[m] \o code[m + 1] ELSE C[m]
    BY <2>1, <2>2 DEF Turn
  <2>4. C[m] \in Seq(Ops) /\ \A r \in K : C[m] \o r \in K
    BY <1>4
  <2>5. CASE m + 1 \in S
    <3>1. C[m + 1] = C[m] \o code[m + 1]
      BY <2>3, <2>5
    <3>2. code[m + 1] \in Seq(Ops)
      BY <2>5
    <3>3. C[m + 1] \in Seq(Ops)
      BY <3>1, <3>2, <2>4, ConcatProperties
    <3>4. ASSUME NEW r \in K PROVE C[m + 1] \o r \in K
      <4>1. code[m + 1] \o r \in K
        BY <2>5
      <4>2. r \in Seq(Ops)
        OBVIOUS
      <4>3. (C[m] \o code[m + 1]) \o r = C[m] \o (code[m + 1] \o r)
        <5> DEFINE x == C[m]
        <5> DEFINE y == code[m + 1]
        <5>1. x \in Seq(Ops) /\ y \in Seq(Ops)
          BY <3>2, <2>4
        <5> HIDE DEF x, y
        <5>2. (x \o y) \o r = x \o (y \o r)
          BY <5>1, <4>2, ConcatAssociative
        <5> QED
          BY <5>2 DEF x, y
      <4> QED
        BY <4>1, <4>3, <3>1, <2>4, Zenon
    <3> QED
      BY <3>3, <3>4, <2>1
  <2>6. CASE m + 1 \notin S
    BY <2>6, <2>1, <2>3, <2>4
  <2> QED
    BY <2>5, <2>6
<1> HIDE DEF Kept
<1>5. \A m \in 0..NPROC : m \in Kept
  BY <1>3, <1>4, Climb
<1>6. NPROC \in Kept
  BY <1>5
<1> QED
  BY <1>1, <1>6 DEF Kept

-----------------------------------------------------------------------------
(* The code of the kernel.                                                  *)

\* u is r with o in front.
Pushed(t, o, r, u) ==
  /\ u \in Seq(Ops) /\ Good(t, u)
  /\ OwesAt(u, 1) = Owed(o, OwesAt(r, 1))
  /\ \A f \in Flags : FlagAt(u, 1, f) <=> IF o.op \in Flags THEN o.op = f ELSE FlagAt(r, 1, f)
  /\ \A op : HasOp(u, 1, op) <=> o.op = op
  /\ \A op : HasOp(u, 2, op) <=> HasOp(r, 1, op)
  /\ u[1] = o /\ Len(u) >= 1 /\ (Len(r) >= 1 => Len(u) >= 2 /\ u[2] = r[1])

LEMMA Push ==
  ASSUME NEW t, NEW o \in Ops, NEW r \in Seq(Ops), Good(t, r), Fits(t, o, r), NEW u, u = <<o>> \o r
  PROVE  Pushed(t, o, r, u)
<1>1. /\ Len(r) \in Nat /\ Len(u) = Len(r) + 1 /\ u[1] = o /\ u \in Seq(Ops)
      /\ \A i \in 1..Len(r) : u[i + 1] = r[i]
  BY Cons
<1>2. OwesAt(u, 1) = Owed(o, OwesAt(r, 1))
  BY FirstOwes DEF Fits, LockFits
<1>3. \A f \in Flags : FlagAt(u, 1, f) <=> IF o.op \in Flags THEN o.op = f ELSE FlagAt(r, 1, f)
  BY FirstFlag
<1>4. Len(r) >= 1 => Len(u) >= 2 /\ u[2] = r[1]
  <2> SUFFICES ASSUME Len(r) >= 1 PROVE Len(u) >= 2 /\ u[2] = r[1]
    OBVIOUS
  <2>1. 1 \in 1..Len(r) /\ 1 + 1 = 2
    BY <1>1
  <2>2. u[1 + 1] = r[1]
    BY <1>1, <2>1
  <2> QED
    BY <1>1, <2>1, <2>2
<1>5. \A op : HasOp(u, 1, op) <=> o.op = op
  BY <1>1 DEF HasOp
<1>6. \A op : HasOp(u, 2, op) <=> HasOp(r, 1, op)
  BY <1>1, <1>4 DEF HasOp
<1>7. Good(t, u)
  BY ConsGood
<1> QED
  BY <1>1, <1>2, <1>3, <1>4, <1>5, <1>6, <1>7 DEF Pushed

\* What an operation is.
LEMMA OpIs ==
  ASSUME NEW x \in Names, NEW a \in Args
  PROVE  Op(x, a) \in Ops /\ Op(x, a).op = x /\ Op(x, a).arg = a
BY DEF Ops, Op

LEMMA LockOps ==
  ASSUME NEW l \in Locks
  PROVE  /\ Acquire(l) \in Ops /\ Acquire(l).op = "acquire" /\ Acquire(l).arg = l
         /\ Release(l) \in Ops /\ Release(l).op = "release" /\ Release(l).arg = l
<1>1. l \in Args
  BY DEF Args
<1>2. "acquire" \in Names /\ "release" \in Names
  BY DEF Names
<1> QED
  BY <1>1, <1>2, OpIs DEF Acquire, Release

LEMMA OtherOps ==
  ASSUME NEW x \in Names
  PROVE  /\ \A l \in Locks : Op(x, l) \in Ops /\ Op(x, l).op = x /\ Op(x, l).arg = l
         /\ \A y \in {"RUNNABLE", "SLEEPING"} : Op(x, y) \in Ops /\ Op(x, y).op = x /\ Op(x, y).arg = y
         /\ \A y \in BOOLEAN : Op(x, y) \in Ops /\ Op(x, y).op = x /\ Op(x, y).arg = y
<1>1. \A a \in Args : Op(x, a) \in Ops /\ Op(x, a).op = x /\ Op(x, a).arg = a
  BY OpIs
<1> QED
  BY <1>1, Zenon DEF Args

LEMMA LockFacts ==
  ASSUME NPROC \in Nat
  PROVE  tickslock \in Locks /\ Procs \subseteq Locks /\ 0 \in Locks /\ tickslock \notin Procs /\ tickslock = 0
BY DEF Locks, Procs, tickslock

\* Code of a handler that has tickslock, at an acquire or a release.
Waking(t) == {r \in Seq(Ops) :
  /\ Good(t, r) /\ OwesAt(r, 1) = {tickslock} /\ FlagAt(r, 1, "sret")
  /\ HasOp(r, 1, "acquire") \/ HasOp(r, 1, "release")}

LEMMA WakeOne ==
  ASSUME NPROC \in Nat, NEW t, NEW q \in Procs, NEW r \in Waking(t)
  PROVE  <<Acquire(q), Op("wake", q), Release(q)>> \o r \in Waking(t)
<1> DEFINE u1 == <<Release(q)>> \o r
<1> DEFINE u2 == <<Op("wake", q)>> \o u1
<1> DEFINE u3 == <<Acquire(q)>> \o u2
<1>1. q \in Locks /\ tickslock \in Locks /\ q # tickslock
  BY LockFacts
<1>2. /\ r \in Seq(Ops) /\ Good(t, r) /\ OwesAt(r, 1) = {tickslock} /\ FlagAt(r, 1, "sret")
      /\ HasOp(r, 1, "acquire") \/ HasOp(r, 1, "release")
  BY DEF Waking
<1>3. ~FlagAt(r, 1, "on") /\ ~FlagAt(r, 1, "forkret") /\ ~HasOp(r, 1, "sched") /\ ~HasOp(r, 1, "spin")
  <2>1. "on" \in Flags /\ "sret" \in Flags /\ "forkret" \in Flags
    BY DEF Flags
  <2> QED
    BY <1>2, <2>1, OneFlag DEF HasOp
<1>4. /\ Acquire(q) \in Ops /\ Acquire(q).op = "acquire" /\ Acquire(q).arg = q
      /\ Release(q) \in Ops /\ Release(q).op = "release" /\ Release(q).arg = q
      /\ Op("wake", q) \in Ops /\ Op("wake", q).op = "wake" /\ Op("wake", q).arg = q
  <2>1. "wake" \in Names
    BY DEF Names
  <2> QED
    BY <1>1, <2>1, LockOps, OtherOps
<1>5. <<Acquire(q), Op("wake", q), Release(q)>> \o r = u3
  <2>1. r \in Seq(Ops) /\ Acquire(q) \in Ops /\ Op("wake", q) \in Ops /\ Release(q) \in Ops
    BY <1>2, <1>4
  <2> DEFINE x == Acquire(q)
  <2> DEFINE y == Op("wake", q)
  <2> DEFINE z == Release(q)
  <2>2. x \in Ops /\ y \in Ops /\ z \in Ops
    BY <2>1
  <2> HIDE DEF x, y, z
  <2>3. <<x, y, z>> \o r = <<x>> \o (<<y>> \o (<<z>> \o r))
    BY <2>1, <2>2, ThreePieces
  <2> QED
    BY <2>3, Zenon DEF x, y, z, u1, u2, u3
<1> HIDE DEF u1, u2, u3
<1>6. Pushed(t, Release(q), r, u1)
  <2>1. Fits(t, Release(q), r)
    BY <1>1, <1>2, <1>3, <1>4 DEF Fits, LockFits, FlagFits, ProcFits, Owed, Flags
  <2> QED
    BY <1>2, <1>4, <2>1, Push DEF u1
<1>7. /\ u1 \in Seq(Ops) /\ Good(t, u1) /\ OwesAt(u1, 1) = {tickslock, q}
      /\ FlagAt(u1, 1, "sret") /\ ~FlagAt(u1, 1, "on") /\ ~FlagAt(u1, 1, "forkret") /\ ~HasOp(u1, 1, "sched") /\ ~HasOp(u1, 1, "spin")
  BY <1>2, <1>3, <1>4, <1>6 DEF Pushed, Owed, Flags
<1>8. Pushed(t, Op("wake", q), u1, u2)
  <2>1. Fits(t, Op("wake", q), u1)
    BY <1>1, <1>4, <1>7 DEF Fits, LockFits, FlagFits, ProcFits, Owed, Flags
  <2> QED
    BY <1>4, <1>7, <2>1, Push DEF u2
<1>9. /\ u2 \in Seq(Ops) /\ Good(t, u2) /\ OwesAt(u2, 1) = {tickslock, q}
      /\ FlagAt(u2, 1, "sret") /\ ~FlagAt(u2, 1, "on") /\ ~FlagAt(u2, 1, "forkret") /\ ~HasOp(u2, 1, "sched") /\ ~HasOp(u2, 1, "spin")
  BY <1>4, <1>7, <1>8 DEF Pushed, Owed, Flags
<1>10. Pushed(t, Acquire(q), u2, u3)
  <2>1. Fits(t, Acquire(q), u2)
    BY <1>1, <1>4, <1>9 DEF Fits, LockFits, FlagFits, ProcFits, Owed, Flags
  <2> QED
    BY <1>4, <1>9, <2>1, Push DEF u3
<1>11. /\ u3 \in Seq(Ops) /\ Good(t, u3) /\ OwesAt(u3, 1) = {tickslock}
       /\ FlagAt(u3, 1, "sret") /\ HasOp(u3, 1, "acquire")
  BY <1>1, <1>4, <1>9, <1>10 DEF Pushed, Owed, Flags
<1> QED
  BY <1>5, <1>11 DEF Waking

\* wakeup(), called by a handler.
LEMMA WakeupCode ==
  ASSUME NPROC \in Nat, NEW t, NEW c, NEW r \in Waking(t)
  PROVE  Wakeup(c) \in Seq(Ops) /\ Wakeup(c) \o r \in Waking(t)
<1> DEFINE S == Procs \ {cpu[c].proc}
<1> DEFINE code == [q \in Procs |-> <<Acquire(q), Op("wake", q), Release(q)>>]
<1>1. Wakeup(c) = Each(S, code)
  BY DEF Wakeup
<1>2. Waking(t) \in SUBSET Seq(Ops)
  BY DEF Waking
<1>3. ASSUME NEW q \in S PROVE code[q] \in Seq(Ops) /\ \A v \in Waking(t) : code[q] \o v \in Waking(t)
  <2>1. q \in Procs /\ q \in Locks /\ "wake" \in Names
    BY LockFacts DEF Names
  <2>2. code[q] = <<Acquire(q), Op("wake", q), Release(q)>>
    BY <2>1
  <2>3. Acquire(q) \in Ops /\ Op("wake", q) \in Ops /\ Release(q) \in Ops
    BY <2>1, LockOps, OtherOps
  <2> HIDE DEF code
  <2>4. <<Acquire(q), Op("wake", q), Release(q)>> \in Seq(Ops)
    BY <2>3
  <2> QED
    BY <2>1, <2>2, <2>4, WakeOne
<1> HIDE DEF S, code
<1> QED
  BY <1>1, <1>2, <1>3, LoopKeeps

\* The scheduler between two processes.
Scanning(t) == {r \in Seq(Ops) :
  /\ Good(t, r) /\ OwesAt(r, 1) = {} /\ \A f \in Flags : ~FlagAt(r, 1, f)
  /\ \A op : HasOp(r, 1, op) => op = "acquire"}

LEMMA PickOne ==
  ASSUME NPROC \in Nat, NEW t, t \notin Procs, NEW q \in Procs, NEW r \in Scanning(t)
  PROVE  <<Acquire(q), Op("pick", q), Op("gone", 0), Release(q)>> \o r \in Scanning(t)
<1> DEFINE u1 == <<Release(q)>> \o r
<1> DEFINE u2 == <<Op("gone", 0)>> \o u1
<1> DEFINE u3 == <<Op("pick", q)>> \o u2
<1> DEFINE u4 == <<Acquire(q)>> \o u3
<1>1. q \in Locks /\ tickslock \in Locks /\ q # tickslock /\ 0 \in Locks
  BY LockFacts
<1>2. /\ r \in Seq(Ops) /\ Good(t, r) /\ OwesAt(r, 1) = {} /\ \A f \in Flags : ~FlagAt(r, 1, f)
      /\ ~HasOp(r, 1, "sched") /\ ~HasOp(r, 1, "spin")
  BY DEF Scanning
<1>3. /\ Acquire(q) \in Ops /\ Acquire(q).op = "acquire" /\ Acquire(q).arg = q
      /\ Release(q) \in Ops /\ Release(q).op = "release" /\ Release(q).arg = q
      /\ Op("pick", q) \in Ops /\ Op("pick", q).op = "pick" /\ Op("pick", q).arg = q
      /\ Op("gone", 0) \in Ops /\ Op("gone", 0).op = "gone"
  <2>1. "pick" \in Names /\ "gone" \in Names
    BY DEF Names
  <2> QED
    BY <1>1, <2>1, LockOps, OtherOps
<1>4. <<Acquire(q), Op("pick", q), Op("gone", 0), Release(q)>> \o r = u4
  <2>1. r \in Seq(Ops) /\ Acquire(q) \in Ops /\ Op("pick", q) \in Ops /\ Op("gone", 0) \in Ops /\ Release(q) \in Ops
    BY <1>2, <1>3
  <2>2. <<Op("pick", q), Op("gone", 0), Release(q)>> \in Seq(Ops)
    BY <2>1
  <2>3. <<Acquire(q), Op("pick", q), Op("gone", 0), Release(q)>>
          = <<Acquire(q)>> \o <<Op("pick", q), Op("gone", 0), Release(q)>>
    BY <2>1
  <2>4. (<<Acquire(q)>> \o <<Op("pick", q), Op("gone", 0), Release(q)>>) \o r
          = <<Acquire(q)>> \o (<<Op("pick", q), Op("gone", 0), Release(q)>> \o r)
    BY <2>1, <2>2, Piece
  <2>5. <<Op("pick", q), Op("gone", 0), Release(q)>> \o r = u3
    <3> DEFINE x == Op("pick", q)
    <3> DEFINE y == Op("gone", 0)
    <3> DEFINE z == Release(q)
    <3>1. x \in Ops /\ y \in Ops /\ z \in Ops
      BY <2>1
    <3> HIDE DEF x, y, z
    <3>2. <<x, y, z>> \o r = <<x>> \o (<<y>> \o (<<z>> \o r))
      BY <2>1, <3>1, ThreePieces
    <3> QED
      BY <3>2, Zenon DEF x, y, z, u1, u2, u3
  <2> QED
    BY <2>3, <2>4, <2>5, Zenon
<1> HIDE DEF u1, u2, u3, u4
<1>5. Pushed(t, Release(q), r, u1)
  <2>1. Fits(t, Release(q), r)
    BY <1>1, <1>2, <1>3 DEF Fits, LockFits, FlagFits, ProcFits, Owed, Flags
  <2> QED
    BY <1>2, <1>3, <2>1, Push DEF u1
<1>6. /\ u1 \in Seq(Ops) /\ Good(t, u1) /\ OwesAt(u1, 1) = {q} /\ \A f \in Flags : ~FlagAt(u1, 1, f)
      /\ HasOp(u1, 1, "release") /\ ~HasOp(u1, 1, "sched") /\ ~HasOp(u1, 1, "spin") /\ u1[1] = Release(q) /\ Len(u1) >= 1
  BY <1>2, <1>3, <1>5 DEF Pushed, Owed, Flags
<1>7. Pushed(t, Op("gone", 0), u1, u2)
  <2>1. Fits(t, Op("gone", 0), u1)
    BY <1>1, <1>3, <1>6 DEF Fits, LockFits, FlagFits, ProcFits, Owed, Flags
  <2> QED
    BY <1>3, <1>6, <2>1, Push DEF u2
<1>8. /\ u2 \in Seq(Ops) /\ Good(t, u2) /\ OwesAt(u2, 1) = {q} /\ \A f \in Flags : ~FlagAt(u2, 1, f)
      /\ ~HasOp(u2, 1, "sched") /\ ~HasOp(u2, 1, "spin") /\ u2[1] = Op("gone", 0) /\ u2[2] = Release(q) /\ 2 <= Len(u2)
  BY <1>3, <1>6, <1>7 DEF Pushed, Owed, Flags
<1>9. Pushed(t, Op("pick", q), u2, u3)
  <2>1. Fits(t, Op("pick", q), u2)
    BY <1>1, <1>3, <1>8 DEF Fits, LockFits, FlagFits, ProcFits, Owed, Flags
  <2> QED
    BY <1>3, <1>8, <2>1, Push DEF u3
<1>10. /\ u3 \in Seq(Ops) /\ Good(t, u3) /\ OwesAt(u3, 1) = {q} /\ \A f \in Flags : ~FlagAt(u3, 1, f)
       /\ ~HasOp(u3, 1, "sched") /\ ~HasOp(u3, 1, "spin")
  BY <1>3, <1>8, <1>9 DEF Pushed, Owed, Flags
<1>11. Pushed(t, Acquire(q), u3, u4)
  <2>1. Fits(t, Acquire(q), u3)
    BY <1>1, <1>3, <1>10 DEF Fits, LockFits, FlagFits, ProcFits, Owed, Flags
  <2> QED
    BY <1>3, <1>10, <2>1, Push DEF u4
<1>12. /\ u4 \in Seq(Ops) /\ Good(t, u4) /\ OwesAt(u4, 1) = {} /\ \A f \in Flags : ~FlagAt(u4, 1, f)
       /\ \A op : HasOp(u4, 1, op) => op = "acquire"
  BY <1>1, <1>3, <1>10, <1>11 DEF Pushed, Owed, Flags
<1> QED
  BY <1>4, <1>12 DEF Scanning

LEMMA SchedulerCode ==
  ASSUME NPROC \in Nat, NEW t, t \notin Procs
  PROVE  Scheduler \in Scanning(t)
<1> DEFINE code == [q \in Procs |-> <<Acquire(q), Op("pick", q), Op("gone", 0), Release(q)>>]
<1>1. Scheduler = Each(Procs, code)
  BY DEF Scheduler
<1>2. Scanning(t) \in SUBSET Seq(Ops)
  BY DEF Scanning
<1>3. ASSUME NEW q \in Procs PROVE code[q] \in Seq(Ops) /\ \A v \in Scanning(t) : code[q] \o v \in Scanning(t)
  <2>1. q \in Locks /\ 0 \in Locks /\ "pick" \in Names /\ "gone" \in Names
    BY LockFacts DEF Names
  <2>2. code[q] = <<Acquire(q), Op("pick", q), Op("gone", 0), Release(q)>>
    OBVIOUS
  <2>3. Acquire(q) \in Ops /\ Op("pick", q) \in Ops /\ Op("gone", 0) \in Ops /\ Release(q) \in Ops
    BY <2>1, LockOps, OtherOps
  <2> HIDE DEF code
  <2>4. <<Acquire(q), Op("pick", q), Op("gone", 0), Release(q)>> \in Seq(Ops)
    BY <2>3
  <2> QED
    BY <2>2, <2>4, PickOne
<1>4. <<>> \in Scanning(t)
  BY NoCode DEF Scanning
<1> HIDE DEF code
<1>5. Scheduler \in Seq(Ops) /\ Scheduler \o <<>> \in Scanning(t)
  BY <1>1, <1>2, <1>3, <1>4, LoopKeeps
<1>6. Scheduler \o <<>> = Scheduler
  BY <1>5, ConcatEmptySeq
<1> QED
  BY <1>5, <1>6

\* yield(), called by a handler.
LEMMA YieldCode ==
  ASSUME NPROC \in Nat, NEW t \in Procs, NEW r \in Seq(Ops), Good(t, r), OwesAt(r, 1) = {},
         FlagAt(r, 1, "sret"), ~HasOp(r, 1, "sched") /\ ~HasOp(r, 1, "spin")
  PROVE  LET u == Yield(t) \o r IN
           /\ u \in Seq(Ops) /\ Good(t, u) /\ OwesAt(u, 1) = {} /\ FlagAt(u, 1, "sret")
           /\ HasOp(u, 1, "acquire")
<1> DEFINE u1 == <<Release(t)>> \o r
<1> DEFINE u2 == <<Sched>> \o u1
<1> DEFINE u3 == <<Op("state", "RUNNABLE")>> \o u2
<1> DEFINE u4 == <<Acquire(t)>> \o u3
<1>1. t \in Locks /\ tickslock \in Locks /\ t # tickslock /\ t \in Procs
  BY LockFacts
<1>2. /\ r \in Seq(Ops) /\ Good(t, r) /\ OwesAt(r, 1) = {}
      /\ FlagAt(r, 1, "sret") /\ ~FlagAt(r, 1, "on") /\ ~FlagAt(r, 1, "off") /\ ~FlagAt(r, 1, "forkret")
      /\ ~HasOp(r, 1, "sched") /\ ~HasOp(r, 1, "spin")
  <2>1. "on" \in Flags /\ "off" \in Flags /\ "sret" \in Flags /\ "forkret" \in Flags
    BY DEF Flags
  <2> QED
    BY <2>1, OneFlag
<1>3. /\ Acquire(t) \in Ops /\ Acquire(t).op = "acquire" /\ Acquire(t).arg = t
      /\ Release(t) \in Ops /\ Release(t).op = "release" /\ Release(t).arg = t
      /\ Sched \in Ops /\ Sched.op = "sched"
      /\ Op("state", "RUNNABLE") \in Ops /\ Op("state", "RUNNABLE").op = "state" /\ Op("state", "RUNNABLE").arg = "RUNNABLE"
  <2>1. "state" \in Names /\ "sched" \in Names /\ 0 \in Locks
    BY LockFacts DEF Names
  <2>2. Sched \in Ops /\ Sched.op = "sched"
    BY <2>1, OtherOps DEF Sched
  <2> QED
    BY <1>1, <2>1, <2>2, LockOps, OtherOps
<1>4. Yield(t) \o r = u4
  <2>1. Acquire(t) \in Ops /\ Op("state", "RUNNABLE") \in Ops /\ Sched \in Ops /\ Release(t) \in Ops
    BY <1>3
  <2>2. <<Op("state", "RUNNABLE"), Sched, Release(t)>> \in Seq(Ops)
    BY <2>1
  <2>3. Yield(t) = <<Acquire(t)>> \o <<Op("state", "RUNNABLE"), Sched, Release(t)>>
    BY <2>1 DEF Yield
  <2>4. (<<Acquire(t)>> \o <<Op("state", "RUNNABLE"), Sched, Release(t)>>) \o r
          = <<Acquire(t)>> \o (<<Op("state", "RUNNABLE"), Sched, Release(t)>> \o r)
    BY <2>1, <2>2, Piece
  <2>5. <<Op("state", "RUNNABLE"), Sched, Release(t)>> \o r = u3
    <3> DEFINE x == Op("state", "RUNNABLE")
    <3> DEFINE y == Sched
    <3> DEFINE z == Release(t)
    <3>1. r \in Seq(Ops) /\ x \in Ops /\ y \in Ops /\ z \in Ops
      BY <1>2, <2>1
    <3> HIDE DEF x, y, z
    <3>2. <<x, y, z>> \o r = <<x>> \o (<<y>> \o (<<z>> \o r))
      BY <3>1, ThreePieces
    <3> QED
      BY <3>2, Zenon DEF x, y, z, u1, u2, u3
  <2> QED
    BY <2>3, <2>4, <2>5, Zenon
<1> HIDE DEF u1, u2, u3, u4
<1>6. Pushed(t, Release(t), r, u1)
  <2>1. Fits(t, Release(t), r)
    BY <1>1, <1>3, <1>2 DEF Fits, LockFits, FlagFits, ProcFits, Owed, Flags
  <2> QED
    BY <1>3, <1>2, <2>1, Push DEF u1
<1>7. /\ u1 \in Seq(Ops) /\ Good(t, u1) /\ OwesAt(u1, 1) = {t}
      /\ FlagAt(u1, 1, "sret") /\ ~FlagAt(u1, 1, "on") /\ ~FlagAt(u1, 1, "off") /\ ~FlagAt(u1, 1, "forkret")
      /\ HasOp(u1, 1, "release") /\ ~HasOp(u1, 1, "spin") /\ ~HasOp(u1, 1, "sched")
  BY <1>1, <1>3, <1>2, <1>6 DEF Pushed, Owed, Flags
<1>8. Pushed(t, Sched, u1, u2)
  <2>1. Fits(t, Sched, u1)
    BY <1>1, <1>3, <1>7 DEF Fits, LockFits, FlagFits, ProcFits, Owed, Flags
  <2> QED
    BY <1>3, <1>7, <2>1, Push DEF u2
<1>9. /\ u2 \in Seq(Ops) /\ Good(t, u2) /\ OwesAt(u2, 1) = {t}
      /\ FlagAt(u2, 1, "sret") /\ ~FlagAt(u2, 1, "on") /\ ~FlagAt(u2, 1, "off") /\ ~FlagAt(u2, 1, "forkret")
      /\ HasOp(u2, 1, "sched") /\ ~HasOp(u2, 1, "spin")
  BY <1>1, <1>3, <1>7, <1>8 DEF Pushed, Owed, Flags
<1>10. Pushed(t, Op("state", "RUNNABLE"), u2, u3)
  <2>1. Fits(t, Op("state", "RUNNABLE"), u2)
    BY <1>1, <1>3, <1>9 DEF Fits, LockFits, FlagFits, ProcFits, Owed, Flags
  <2> QED
    BY <1>3, <1>9, <2>1, Push DEF u3
<1>11. /\ u3 \in Seq(Ops) /\ Good(t, u3) /\ OwesAt(u3, 1) = {t}
      /\ FlagAt(u3, 1, "sret") /\ ~FlagAt(u3, 1, "on") /\ ~FlagAt(u3, 1, "off") /\ ~FlagAt(u3, 1, "forkret")
      /\ HasOp(u3, 1, "state") /\ ~HasOp(u3, 1, "spin") /\ ~HasOp(u3, 1, "sched")
  BY <1>1, <1>3, <1>9, <1>10 DEF Pushed, Owed, Flags
<1>12. Pushed(t, Acquire(t), u3, u4)
  <2>1. Fits(t, Acquire(t), u3)
    BY <1>1, <1>3, <1>11 DEF Fits, LockFits, FlagFits, ProcFits, Owed, Flags
  <2> QED
    BY <1>3, <1>11, <2>1, Push DEF u4
<1>13. /\ u4 \in Seq(Ops) /\ Good(t, u4) /\ OwesAt(u4, 1) = {}
      /\ FlagAt(u4, 1, "sret") /\ ~FlagAt(u4, 1, "on") /\ ~FlagAt(u4, 1, "off") /\ ~FlagAt(u4, 1, "forkret")
      /\ HasOp(u4, 1, "acquire") /\ ~HasOp(u4, 1, "spin") /\ ~HasOp(u4, 1, "sched")
  BY <1>1, <1>3, <1>11, <1>12 DEF Pushed, Owed, Flags
<1> QED
  BY <1>4, <1>13

\* sleep() in sys_sleep().
LEMMA SleepCode ==
  ASSUME NPROC \in Nat, NEW t \in Procs, NEW r \in Seq(Ops), Good(t, r), OwesAt(r, 1) = {tickslock},
         FlagAt(r, 1, "off"), ~HasOp(r, 1, "sched") /\ ~HasOp(r, 1, "spin")
  PROVE  LET u == Sleep(t, tickslock) \o r IN
           /\ u \in Seq(Ops) /\ Good(t, u) /\ OwesAt(u, 1) = {tickslock} /\ FlagAt(u, 1, "off")
           /\ HasOp(u, 1, "acquire")
<1> DEFINE u1 == <<Acquire(tickslock)>> \o r
<1> DEFINE u2 == <<Release(t)>> \o u1
<1> DEFINE u3 == <<Sched>> \o u2
<1> DEFINE u4 == <<Op("state", "SLEEPING")>> \o u3
<1> DEFINE u5 == <<Release(tickslock)>> \o u4
<1> DEFINE u6 == <<Acquire(t)>> \o u5
<1>1. t \in Locks /\ tickslock \in Locks /\ t # tickslock /\ t \in Procs
  BY LockFacts
<1>2. /\ r \in Seq(Ops) /\ Good(t, r) /\ OwesAt(r, 1) = {tickslock}
      /\ ~FlagAt(r, 1, "sret") /\ ~FlagAt(r, 1, "on") /\ FlagAt(r, 1, "off") /\ ~FlagAt(r, 1, "forkret")
      /\ ~HasOp(r, 1, "sched") /\ ~HasOp(r, 1, "spin")
  <2>1. "on" \in Flags /\ "off" \in Flags /\ "sret" \in Flags /\ "forkret" \in Flags
    BY DEF Flags
  <2> QED
    BY <2>1, OneFlag
<1>3. /\ Acquire(t) \in Ops /\ Acquire(t).op = "acquire" /\ Acquire(t).arg = t
      /\ Release(t) \in Ops /\ Release(t).op = "release" /\ Release(t).arg = t
      /\ Acquire(tickslock) \in Ops /\ Acquire(tickslock).op = "acquire" /\ Acquire(tickslock).arg = tickslock
      /\ Release(tickslock) \in Ops /\ Release(tickslock).op = "release" /\ Release(tickslock).arg = tickslock
      /\ Sched \in Ops /\ Sched.op = "sched"
      /\ Op("state", "SLEEPING") \in Ops /\ Op("state", "SLEEPING").op = "state" /\ Op("state", "SLEEPING").arg = "SLEEPING"
  <2>1. "state" \in Names /\ "sched" \in Names /\ 0 \in Locks
    BY LockFacts DEF Names
  <2>2. Sched \in Ops /\ Sched.op = "sched"
    BY <2>1, OtherOps DEF Sched
  <2> QED
    BY <1>1, <2>1, <2>2, LockOps, OtherOps
<1>4. Sleep(t, tickslock) \o r = u6
  <2>1. Acquire(t) \in Ops /\ Release(tickslock) \in Ops /\ Op("state", "SLEEPING") \in Ops /\ Sched \in Ops /\ Release(t) \in Ops /\ Acquire(tickslock) \in Ops
    BY <1>3
  <2>2. <<Acquire(t), Release(tickslock), Op("state", "SLEEPING")>> \in Seq(Ops) /\ <<Sched, Release(t), Acquire(tickslock)>> \in Seq(Ops)
    BY <2>1
  <2>3. Sleep(t, tickslock) = <<Acquire(t), Release(tickslock), Op("state", "SLEEPING")>> \o <<Sched, Release(t), Acquire(tickslock)>>
    BY <2>1 DEF Sleep
  <2>4. (<<Acquire(t), Release(tickslock), Op("state", "SLEEPING")>> \o <<Sched, Release(t), Acquire(tickslock)>>) \o r = <<Acquire(t), Release(tickslock), Op("state", "SLEEPING")>> \o (<<Sched, Release(t), Acquire(tickslock)>> \o r)
    BY <2>2, ConcatAssociative
  <2>5. <<Sched, Release(t), Acquire(tickslock)>> \o r = u3
    <3> DEFINE x == Sched
    <3> DEFINE y == Release(t)
    <3> DEFINE z == Acquire(tickslock)
    <3>1. r \in Seq(Ops) /\ x \in Ops /\ y \in Ops /\ z \in Ops
      BY <1>2, <2>1
    <3> HIDE DEF x, y, z
    <3>2. <<x, y, z>> \o r = <<x>> \o (<<y>> \o (<<z>> \o r))
      BY <3>1, ThreePieces
    <3> QED
      BY <3>2, Zenon DEF x, y, z, u1, u2, u3
  <2>6. u3 \in Seq(Ops)
    <3>1. <<Sched, Release(t), Acquire(tickslock)>> \o r \in Seq(Ops)
      BY <2>2, ConcatProperties
    <3> QED
      BY <2>5, <3>1, Zenon
  <2> HIDE DEF u1, u2, u3
  <2>7. <<Acquire(t), Release(tickslock), Op("state", "SLEEPING")>> \o u3 = u6
    <3> DEFINE x == Acquire(t)
    <3> DEFINE y == Release(tickslock)
    <3> DEFINE z == Op("state", "SLEEPING")
    <3>1. u3 \in Seq(Ops) /\ x \in Ops /\ y \in Ops /\ z \in Ops
      BY <2>1, <2>6
    <3> HIDE DEF x, y, z
    <3>2. <<x, y, z>> \o u3 = <<x>> \o (<<y>> \o (<<z>> \o u3))
      BY <3>1, ThreePieces
    <3> QED
      BY <3>2, Zenon DEF x, y, z, u4, u5, u6
  <2> QED
    BY <2>3, <2>4, <2>5, <2>7, Zenon
<1> HIDE DEF u1, u2, u3, u4, u5, u6
<1>6. Pushed(t, Acquire(tickslock), r, u1)
  <2>1. Fits(t, Acquire(tickslock), r)
    BY <1>1, <1>3, <1>2 DEF Fits, LockFits, FlagFits, ProcFits, Owed, Flags
  <2> QED
    BY <1>3, <1>2, <2>1, Push DEF u1
<1>7. /\ u1 \in Seq(Ops) /\ Good(t, u1) /\ OwesAt(u1, 1) = {}
      /\ ~FlagAt(u1, 1, "sret") /\ ~FlagAt(u1, 1, "on") /\ FlagAt(u1, 1, "off") /\ ~FlagAt(u1, 1, "forkret")
      /\ HasOp(u1, 1, "acquire") /\ ~HasOp(u1, 1, "spin") /\ ~HasOp(u1, 1, "sched")
  BY <1>1, <1>3, <1>2, <1>6 DEF Pushed, Owed, Flags
<1>8. Pushed(t, Release(t), u1, u2)
  <2>1. Fits(t, Release(t), u1)
    BY <1>1, <1>3, <1>7 DEF Fits, LockFits, FlagFits, ProcFits, Owed, Flags
  <2> QED
    BY <1>3, <1>7, <2>1, Push DEF u2
<1>9. /\ u2 \in Seq(Ops) /\ Good(t, u2) /\ OwesAt(u2, 1) = {t}
      /\ ~FlagAt(u2, 1, "sret") /\ ~FlagAt(u2, 1, "on") /\ FlagAt(u2, 1, "off") /\ ~FlagAt(u2, 1, "forkret")
      /\ HasOp(u2, 1, "release") /\ ~HasOp(u2, 1, "spin") /\ ~HasOp(u2, 1, "sched")
  BY <1>1, <1>3, <1>7, <1>8 DEF Pushed, Owed, Flags
<1>10. Pushed(t, Sched, u2, u3)
  <2>1. Fits(t, Sched, u2)
    BY <1>1, <1>3, <1>9 DEF Fits, LockFits, FlagFits, ProcFits, Owed, Flags
  <2> QED
    BY <1>3, <1>9, <2>1, Push DEF u3
<1>11. /\ u3 \in Seq(Ops) /\ Good(t, u3) /\ OwesAt(u3, 1) = {t}
      /\ ~FlagAt(u3, 1, "sret") /\ ~FlagAt(u3, 1, "on") /\ FlagAt(u3, 1, "off") /\ ~FlagAt(u3, 1, "forkret")
      /\ HasOp(u3, 1, "sched") /\ ~HasOp(u3, 1, "spin")
  BY <1>1, <1>3, <1>9, <1>10 DEF Pushed, Owed, Flags
<1>12. Pushed(t, Op("state", "SLEEPING"), u3, u4)
  <2>1. Fits(t, Op("state", "SLEEPING"), u3)
    BY <1>1, <1>3, <1>11 DEF Fits, LockFits, FlagFits, ProcFits, Owed, Flags
  <2> QED
    BY <1>3, <1>11, <2>1, Push DEF u4
<1>13. /\ u4 \in Seq(Ops) /\ Good(t, u4) /\ OwesAt(u4, 1) = {t}
      /\ ~FlagAt(u4, 1, "sret") /\ ~FlagAt(u4, 1, "on") /\ FlagAt(u4, 1, "off") /\ ~FlagAt(u4, 1, "forkret")
      /\ HasOp(u4, 1, "state") /\ ~HasOp(u4, 1, "spin") /\ ~HasOp(u4, 1, "sched")
  BY <1>1, <1>3, <1>11, <1>12 DEF Pushed, Owed, Flags
<1>14. Pushed(t, Release(tickslock), u4, u5)
  <2>1. Fits(t, Release(tickslock), u4)
    BY <1>1, <1>3, <1>13 DEF Fits, LockFits, FlagFits, ProcFits, Owed, Flags
  <2> QED
    BY <1>3, <1>13, <2>1, Push DEF u5
<1>15. /\ u5 \in Seq(Ops) /\ Good(t, u5) /\ OwesAt(u5, 1) = {tickslock, t}
      /\ ~FlagAt(u5, 1, "sret") /\ ~FlagAt(u5, 1, "on") /\ FlagAt(u5, 1, "off") /\ ~FlagAt(u5, 1, "forkret")
      /\ HasOp(u5, 1, "release") /\ ~HasOp(u5, 1, "spin") /\ ~HasOp(u5, 1, "sched")
  BY <1>1, <1>3, <1>13, <1>14 DEF Pushed, Owed, Flags
<1>16. Pushed(t, Acquire(t), u5, u6)
  <2>1. Fits(t, Acquire(t), u5)
    BY <1>1, <1>3, <1>15 DEF Fits, LockFits, FlagFits, ProcFits, Owed, Flags
  <2> QED
    BY <1>3, <1>15, <2>1, Push DEF u6
<1>17. /\ u6 \in Seq(Ops) /\ Good(t, u6) /\ OwesAt(u6, 1) = {tickslock}
      /\ ~FlagAt(u6, 1, "sret") /\ ~FlagAt(u6, 1, "on") /\ FlagAt(u6, 1, "off") /\ ~FlagAt(u6, 1, "forkret")
      /\ HasOp(u6, 1, "acquire") /\ ~HasOp(u6, 1, "spin") /\ ~HasOp(u6, 1, "sched")
  BY <1>1, <1>3, <1>15, <1>16 DEF Pushed, Owed, Flags
<1> QED
  BY <1>4, <1>17

\* A system call.
LEMMA SysSleepCode ==
  ASSUME NPROC \in Nat, NEW t \in Procs
  PROVE  /\ SysSleep \in Seq(Ops) /\ Good(t, SysSleep) /\ OwesAt(SysSleep, 1) = {}
         /\ FlagAt(SysSleep, 1, "on") /\ HasOp(SysSleep, 1, "on")
<1> DEFINE r == <<>>
<1> DEFINE u1 == <<Op("sret", 0)>> \o r
<1> DEFINE u2 == <<Op("off", 0)>> \o u1
<1> DEFINE u3 == <<Release(tickslock)>> \o u2
<1> DEFINE u4 == <<Op("test", 0)>> \o u3
<1> DEFINE u5 == <<Acquire(tickslock)>> \o u4
<1> DEFINE u6 == <<Op("on", 0)>> \o u5
<1>1. tickslock \in Locks /\ t \in Procs
  BY LockFacts
<1>2. /\ r \in Seq(Ops) /\ Good(t, r) /\ OwesAt(r, 1) = {}
      /\ ~FlagAt(r, 1, "sret") /\ ~FlagAt(r, 1, "on") /\ ~FlagAt(r, 1, "off") /\ ~FlagAt(r, 1, "forkret")
      /\ ~HasOp(r, 1, "sched") /\ ~HasOp(r, 1, "spin")
  BY NoCode
<1>3. /\ Acquire(tickslock) \in Ops /\ Acquire(tickslock).op = "acquire" /\ Acquire(tickslock).arg = tickslock
      /\ Release(tickslock) \in Ops /\ Release(tickslock).op = "release" /\ Release(tickslock).arg = tickslock
      /\ Op("on", 0) \in Ops /\ Op("on", 0).op = "on"
      /\ Op("off", 0) \in Ops /\ Op("off", 0).op = "off"
      /\ Op("sret", 0) \in Ops /\ Op("sret", 0).op = "sret"
      /\ Op("test", 0) \in Ops /\ Op("test", 0).op = "test"
  <2>1. "on" \in Names /\ "off" \in Names /\ "sret" \in Names /\ "test" \in Names /\ 0 \in Locks
    BY LockFacts DEF Names
  <2> QED
    BY <1>1, <2>1, LockOps, OtherOps
<1>4. SysSleep \o r = u6
  <2>1. Op("on", 0) \in Ops /\ Acquire(tickslock) \in Ops /\ Op("test", 0) \in Ops /\ Release(tickslock) \in Ops /\ Op("off", 0) \in Ops /\ Op("sret", 0) \in Ops
    BY <1>3
  <2>2. <<Op("on", 0), Acquire(tickslock), Op("test", 0)>> \in Seq(Ops) /\ <<Release(tickslock), Op("off", 0), Op("sret", 0)>> \in Seq(Ops)
    BY <2>1
  <2>3. SysSleep = <<Op("on", 0), Acquire(tickslock), Op("test", 0)>> \o <<Release(tickslock), Op("off", 0), Op("sret", 0)>>
    BY <2>1 DEF SysSleep
  <2>4. (<<Op("on", 0), Acquire(tickslock), Op("test", 0)>> \o <<Release(tickslock), Op("off", 0), Op("sret", 0)>>) \o r = <<Op("on", 0), Acquire(tickslock), Op("test", 0)>> \o (<<Release(tickslock), Op("off", 0), Op("sret", 0)>> \o r)
    BY <2>2, ConcatAssociative
  <2>5. <<Release(tickslock), Op("off", 0), Op("sret", 0)>> \o r = u3
    <3> DEFINE x == Release(tickslock)
    <3> DEFINE y == Op("off", 0)
    <3> DEFINE z == Op("sret", 0)
    <3>1. r \in Seq(Ops) /\ x \in Ops /\ y \in Ops /\ z \in Ops
      BY <1>2, <2>1
    <3> HIDE DEF r, x, y, z
    <3>2. <<x, y, z>> \o r = <<x>> \o (<<y>> \o (<<z>> \o r))
      BY <3>1, ThreePieces
    <3> QED
      BY <3>2, Zenon DEF x, y, z, u1, u2, u3
  <2>6. u3 \in Seq(Ops)
    <3>1. <<Release(tickslock), Op("off", 0), Op("sret", 0)>> \o r \in Seq(Ops)
      BY <2>2, ConcatProperties
    <3> QED
      BY <2>5, <3>1, Zenon
  <2> HIDE DEF u1, u2, u3
  <2>7. <<Op("on", 0), Acquire(tickslock), Op("test", 0)>> \o u3 = u6
    <3> DEFINE x == Op("on", 0)
    <3> DEFINE y == Acquire(tickslock)
    <3> DEFINE z == Op("test", 0)
    <3>1. u3 \in Seq(Ops) /\ x \in Ops /\ y \in Ops /\ z \in Ops
      BY <2>1, <2>6
    <3> HIDE DEF x, y, z
    <3>2. <<x, y, z>> \o u3 = <<x>> \o (<<y>> \o (<<z>> \o u3))
      BY <3>1, ThreePieces
    <3> QED
      BY <3>2, Zenon DEF x, y, z, u4, u5, u6
  <2> QED
    BY <2>3, <2>4, <2>5, <2>7, Zenon
<1>5. SysSleep \o r = SysSleep
  <2>1. SysSleep \in Seq(Ops)
    BY <1>3 DEF SysSleep
  <2> QED
    BY <2>1, ConcatEmptySeq
<1> HIDE DEF r, u1, u2, u3, u4, u5, u6
<1>6. Pushed(t, Op("sret", 0), r, u1)
  <2>1. Fits(t, Op("sret", 0), r)
    BY <1>1, <1>3, <1>2 DEF Fits, LockFits, FlagFits, ProcFits, Owed, Flags
  <2> QED
    BY <1>3, <1>2, <2>1, Push DEF u1
<1>7. /\ u1 \in Seq(Ops) /\ Good(t, u1) /\ OwesAt(u1, 1) = {}
      /\ FlagAt(u1, 1, "sret") /\ ~FlagAt(u1, 1, "on") /\ ~FlagAt(u1, 1, "off") /\ ~FlagAt(u1, 1, "forkret")
      /\ HasOp(u1, 1, "sret") /\ ~HasOp(u1, 1, "spin") /\ ~HasOp(u1, 1, "sched")
  BY <1>1, <1>3, <1>2, <1>6 DEF Pushed, Owed, Flags
<1>8. Pushed(t, Op("off", 0), u1, u2)
  <2>1. Fits(t, Op("off", 0), u1)
    BY <1>1, <1>3, <1>7 DEF Fits, LockFits, FlagFits, ProcFits, Owed, Flags
  <2> QED
    BY <1>3, <1>7, <2>1, Push DEF u2
<1>9. /\ u2 \in Seq(Ops) /\ Good(t, u2) /\ OwesAt(u2, 1) = {}
      /\ ~FlagAt(u2, 1, "sret") /\ ~FlagAt(u2, 1, "on") /\ FlagAt(u2, 1, "off") /\ ~FlagAt(u2, 1, "forkret")
      /\ HasOp(u2, 1, "off") /\ ~HasOp(u2, 1, "spin") /\ ~HasOp(u2, 1, "sched")
  BY <1>1, <1>3, <1>7, <1>8 DEF Pushed, Owed, Flags
<1>10. Pushed(t, Release(tickslock), u2, u3)
  <2>1. Fits(t, Release(tickslock), u2)
    BY <1>1, <1>3, <1>9 DEF Fits, LockFits, FlagFits, ProcFits, Owed, Flags
  <2> QED
    BY <1>3, <1>9, <2>1, Push DEF u3
<1>11. /\ u3 \in Seq(Ops) /\ Good(t, u3) /\ OwesAt(u3, 1) = {tickslock}
      /\ ~FlagAt(u3, 1, "sret") /\ ~FlagAt(u3, 1, "on") /\ FlagAt(u3, 1, "off") /\ ~FlagAt(u3, 1, "forkret")
      /\ HasOp(u3, 1, "release") /\ ~HasOp(u3, 1, "spin") /\ ~HasOp(u3, 1, "sched")
  BY <1>1, <1>3, <1>9, <1>10 DEF Pushed, Owed, Flags
<1>12. Pushed(t, Op("test", 0), u3, u4)
  <2>1. Fits(t, Op("test", 0), u3)
    BY <1>1, <1>3, <1>11 DEF Fits, LockFits, FlagFits, ProcFits, Owed, Flags
  <2> QED
    BY <1>3, <1>11, <2>1, Push DEF u4
<1>13. /\ u4 \in Seq(Ops) /\ Good(t, u4) /\ OwesAt(u4, 1) = {tickslock}
      /\ ~FlagAt(u4, 1, "sret") /\ ~FlagAt(u4, 1, "on") /\ FlagAt(u4, 1, "off") /\ ~FlagAt(u4, 1, "forkret")
      /\ HasOp(u4, 1, "test") /\ ~HasOp(u4, 1, "spin") /\ ~HasOp(u4, 1, "sched")
  BY <1>1, <1>3, <1>11, <1>12 DEF Pushed, Owed, Flags
<1>14. Pushed(t, Acquire(tickslock), u4, u5)
  <2>1. Fits(t, Acquire(tickslock), u4)
    BY <1>1, <1>3, <1>13 DEF Fits, LockFits, FlagFits, ProcFits, Owed, Flags
  <2> QED
    BY <1>3, <1>13, <2>1, Push DEF u5
<1>15. /\ u5 \in Seq(Ops) /\ Good(t, u5) /\ OwesAt(u5, 1) = {}
      /\ ~FlagAt(u5, 1, "sret") /\ ~FlagAt(u5, 1, "on") /\ FlagAt(u5, 1, "off") /\ ~FlagAt(u5, 1, "forkret")
      /\ HasOp(u5, 1, "acquire") /\ ~HasOp(u5, 1, "spin") /\ ~HasOp(u5, 1, "sched")
  BY <1>1, <1>3, <1>13, <1>14 DEF Pushed, Owed, Flags
<1>16. Pushed(t, Op("on", 0), u5, u6)
  <2>1. Fits(t, Op("on", 0), u5)
    BY <1>1, <1>3, <1>15 DEF Fits, LockFits, FlagFits, ProcFits, Owed, Flags
  <2> QED
    BY <1>3, <1>15, <2>1, Push DEF u6
<1>17. /\ u6 \in Seq(Ops) /\ Good(t, u6) /\ OwesAt(u6, 1) = {}
      /\ ~FlagAt(u6, 1, "sret") /\ FlagAt(u6, 1, "on") /\ ~FlagAt(u6, 1, "off") /\ ~FlagAt(u6, 1, "forkret")
      /\ HasOp(u6, 1, "on") /\ ~HasOp(u6, 1, "spin") /\ ~HasOp(u6, 1, "sched")
  BY <1>1, <1>3, <1>15, <1>16 DEF Pushed, Owed, Flags
<1> QED
  BY <1>4, <1>5, <1>17

\* devintr() and usertrap() or kerneltrap().
LEMMA TimerCode ==
  ASSUME NPROC \in Nat, NEW c, NEW t, NEW s \in Seq(Ops), Good(t, s), OwesAt(s, 1) = {},
         t \in Procs => ~FlagAt(s, 1, "sret") /\ ~FlagAt(s, 1, "on"),
         ~HasOp(s, 1, "sched") /\ ~HasOp(s, 1, "spin")
  PROVE  /\ Timer(c) \o s \in Seq(Ops) /\ Good(t, Timer(c) \o s)
         /\ OwesAt(Timer(c) \o s, 1) = {} /\ FlagAt(Timer(c) \o s, 1, "sret")
         /\ HasOp(Timer(c) \o s, 1, "acquire") \/ HasOp(Timer(c) \o s, 1, "tick")
<1> DEFINE A == Acquire(tickslock)
<1> DEFINE R == Release(tickslock)
<1> DEFINE K == Op("tick", 0)
<1> DEFINE E == Op("sret", 0)
<1> DEFINE u1 == <<E>> \o s
<1> DEFINE u2 == <<K>> \o u1
<1> DEFINE u3 == <<R>> \o u2
<1> DEFINE u4 == Wakeup(c) \o u3
<1> DEFINE u5 == <<A>> \o u4
<1>1. tickslock \in Locks
  BY LockFacts
<1>2. /\ A \in Ops /\ A.op = "acquire" /\ A.arg = tickslock
      /\ R \in Ops /\ R.op = "release" /\ R.arg = tickslock
      /\ K \in Ops /\ K.op = "tick" /\ E \in Ops /\ E.op = "sret"
  <2>1. "tick" \in Names /\ "sret" \in Names /\ 0 \in Locks
    BY LockFacts DEF Names
  <2> QED
    BY <1>1, <2>1, LockOps, OtherOps
<1>3. "on" \in Flags /\ "off" \in Flags /\ "sret" \in Flags /\ "forkret" \in Flags
  BY DEF Flags
<1> HIDE DEF u1, u2, u3, u4, u5
<1>4. Pushed(t, E, s, u1)
  <2>1. Fits(t, E, s)
    BY <1>1, <1>2 DEF Fits, LockFits, FlagFits, ProcFits, Owed, Flags
  <2> QED
    BY <1>2, <2>1, Push DEF u1
<1>5. /\ u1 \in Seq(Ops) /\ Good(t, u1) /\ OwesAt(u1, 1) = {}
      /\ FlagAt(u1, 1, "sret") /\ ~FlagAt(u1, 1, "on") /\ ~FlagAt(u1, 1, "forkret")
      /\ ~HasOp(u1, 1, "sched") /\ ~HasOp(u1, 1, "spin")
  BY <1>2, <1>4 DEF Pushed, Owed, Flags
<1>6. Pushed(t, K, u1, u2)
  <2>1. Fits(t, K, u1)
    BY <1>1, <1>2, <1>5 DEF Fits, LockFits, FlagFits, ProcFits, Owed, Flags
  <2> QED
    BY <1>2, <1>5, <2>1, Push DEF u2
<1>7. /\ u2 \in Seq(Ops) /\ Good(t, u2) /\ OwesAt(u2, 1) = {}
      /\ FlagAt(u2, 1, "sret") /\ ~FlagAt(u2, 1, "on") /\ ~FlagAt(u2, 1, "forkret")
      /\ HasOp(u2, 1, "tick") /\ ~HasOp(u2, 1, "sched") /\ ~HasOp(u2, 1, "spin")
  BY <1>2, <1>5, <1>6 DEF Pushed, Owed, Flags
<1>8. <<K, E>> \o s = u2
  <2>1. s \in Seq(Ops) /\ K \in Ops /\ E \in Ops
    BY <1>2
  <2> HIDE DEF K, E
  <2> QED
    BY <2>1, TwoPieces DEF u1, u2
<1>9. Timer(c) = Clockintr(c) \o <<K, E>>
  BY DEF Timer
<1>10. <<K, E>> \in Seq(Ops) /\ <<R>> \in Seq(Ops) /\ <<A>> \in Seq(Ops)
  BY <1>2
<1> HIDE DEF A, R, K, E
<1>11. CASE c # 1
  <2>1. Timer(c) = <<K, E>>
    <3>1. Clockintr(c) = <<>>
      BY <1>11 DEF Clockintr
    <3> QED
      BY <1>9, <1>10, <3>1, ConcatEmptySeq
  <2> QED
    BY <2>1, <1>7, <1>8
<1>12. CASE c = 1
  <2>1. Pushed(t, R, u2, u3)
    <3>1. Fits(t, R, u2)
      BY <1>1, <1>2, <1>7 DEF Fits, LockFits, FlagFits, ProcFits, Owed, Flags
    <3> QED
      BY <1>2, <1>7, <3>1, Push DEF u3
  <2>2. u3 \in Waking(t)
    BY <1>2, <1>7, <2>1 DEF Pushed, Owed, Flags, Waking
  <2>3. Wakeup(c) \in Seq(Ops) /\ u4 \in Waking(t)
    BY <2>2, WakeupCode DEF u4
  <2>4. /\ u4 \in Seq(Ops) /\ Good(t, u4) /\ OwesAt(u4, 1) = {tickslock}
        /\ FlagAt(u4, 1, "sret") /\ ~FlagAt(u4, 1, "on") /\ ~FlagAt(u4, 1, "forkret")
        /\ ~HasOp(u4, 1, "sched") /\ ~HasOp(u4, 1, "spin")
    <3>1. /\ u4 \in Seq(Ops) /\ Good(t, u4) /\ OwesAt(u4, 1) = {tickslock} /\ FlagAt(u4, 1, "sret")
          /\ HasOp(u4, 1, "acquire") \/ HasOp(u4, 1, "release")
      BY <2>3 DEF Waking
    <3> QED
      BY <3>1, <1>3, OneFlag DEF HasOp
  <2>5. Pushed(t, A, u4, u5)
    <3>1. Fits(t, A, u4)
      BY <1>1, <1>2, <2>4 DEF Fits, LockFits, FlagFits, ProcFits, Owed, Flags
    <3> QED
      BY <1>2, <2>4, <3>1, Push DEF u5
  <2>6. /\ u5 \in Seq(Ops) /\ Good(t, u5) /\ OwesAt(u5, 1) = {}
        /\ FlagAt(u5, 1, "sret") /\ HasOp(u5, 1, "acquire")
    BY <1>2, <2>4, <2>5 DEF Pushed, Owed, Flags
  <2>7. Timer(c) \o s = u5
    <3>1. Clockintr(c) = (<<A>> \o Wakeup(c)) \o <<R>>
      BY <1>12, Zenon DEF Clockintr, A, R
    <3>2. <<A>> \o Wakeup(c) \in Seq(Ops) /\ (<<A>> \o Wakeup(c)) \o <<R>> \in Seq(Ops)
      <4>1. <<A>> \o Wakeup(c) \in Seq(Ops)
        BY <1>10, <2>3, ConcatProperties
      <4> QED
        BY <4>1, <1>10, ConcatProperties
    <3>3. (((<<A>> \o Wakeup(c)) \o <<R>>) \o <<K, E>>) \o s
            = ((<<A>> \o Wakeup(c)) \o <<R>>) \o (<<K, E>> \o s)
      BY <3>2, <1>10, ConcatAssociative
    <3>4. ((<<A>> \o Wakeup(c)) \o <<R>>) \o u2 = (<<A>> \o Wakeup(c)) \o (<<R>> \o u2)
      BY <3>2, <1>7, <1>10, ConcatAssociative
    <3>5. u3 \in Seq(Ops)
      BY <2>2 DEF Waking
    <3>6. (<<A>> \o Wakeup(c)) \o u3 = <<A>> \o (Wakeup(c) \o u3)
      BY <3>5, <2>3, <1>10, ConcatAssociative
    <3> QED
      BY <1>8, <1>9, <3>1, <3>3, <3>4, <3>6, Zenon DEF u3, u4, u5
  <2> QED
    BY <2>6, <2>7
<1> QED
  BY <1>11, <1>12

-----------------------------------------------------------------------------
(* What a step does to a CPU.                                               *)

\* noff when a set of locks is held.
LEMMA Counts ==
  ASSUME NEW L, NEW a, NEW q, L \subseteq {a, q}
  PROVE  /\ Cardinality(L) \in 0..2 /\ (Cardinality(L) = 0 <=> L = {})
         /\ L \subseteq {a} => Cardinality(L) \in 0..1
         /\ \A x : L = {x} => Cardinality(L) = 1
         /\ \A x : x \notin L => Cardinality(L \cup {x}) = Cardinality(L) + 1
         /\ \A x \in L : Cardinality(L \ {x}) = Cardinality(L) - 1
<1>1. IsFiniteSet({a}) /\ Cardinality({a}) = 1
  BY FS_Singleton
<1>2. IsFiniteSet({a, q}) /\ Cardinality({a, q}) <= 2
  <2>1. {a, q} = {a} \cup {q}
    OBVIOUS
  <2>2. IsFiniteSet({a} \cup {q})
        /\ Cardinality({a} \cup {q}) = IF q \in {a} THEN Cardinality({a}) ELSE Cardinality({a}) + 1
    BY <1>1, FS_AddElement
  <2> QED
    BY <1>1, <2>1, <2>2
<1>3. IsFiniteSet(L) /\ Cardinality(L) <= Cardinality({a, q})
  BY <1>2, FS_Subset
<1>4. Cardinality(L) \in Nat /\ (Cardinality(L) = 0 <=> L = {})
  BY <1>3, FS_CardinalityType, FS_EmptySet
<1>5. Cardinality({a, q}) \in Nat
  BY <1>2, FS_CardinalityType
<1>6. L \subseteq {a} => Cardinality(L) <= 1
  BY <1>1, FS_Subset
<1>7. \A x : L = {x} => Cardinality(L) = 1
  BY FS_Singleton
<1>8. ASSUME NEW x, x \notin L PROVE Cardinality(L \cup {x}) = Cardinality(L) + 1
  BY <1>3, <1>8, FS_AddElement
<1>9. ASSUME NEW x \in L PROVE Cardinality(L \ {x}) = Cardinality(L) - 1
  BY <1>3, FS_RemoveElement
<1> QED
  BY <1>2, <1>3, <1>4, <1>5, <1>6, <1>7, <1>8, <1>9

\* One field of a CPU.
LEMMA SetIntr ==
  ASSUME NEW r \in Cpus, NEW b \in BOOLEAN
  PROVE  /\ [r EXCEPT !.intr = b] \in Cpus /\ [r EXCEPT !.intr = b].intr = b
         /\ [r EXCEPT !.intr = b].noff = r.noff /\ [r EXCEPT !.intr = b].intena = r.intena
         /\ [r EXCEPT !.intr = b].ctx = r.ctx /\ [r EXCEPT !.intr = b].proc = r.proc
BY DEF Cpus

LEMMA SetIntena ==
  ASSUME NEW r \in Cpus, NEW b \in BOOLEAN
  PROVE  /\ [r EXCEPT !.intena = b] \in Cpus /\ [r EXCEPT !.intena = b].intena = b
         /\ [r EXCEPT !.intena = b].noff = r.noff /\ [r EXCEPT !.intena = b].intr = r.intr
         /\ [r EXCEPT !.intena = b].ctx = r.ctx /\ [r EXCEPT !.intena = b].proc = r.proc
BY DEF Cpus

LEMMA SetNoff ==
  ASSUME NEW r \in Cpus, NEW b \in 0..2
  PROVE  /\ [r EXCEPT !.noff = b] \in Cpus /\ [r EXCEPT !.noff = b].noff = b
         /\ [r EXCEPT !.noff = b].intena = r.intena /\ [r EXCEPT !.noff = b].intr = r.intr
         /\ [r EXCEPT !.noff = b].ctx = r.ctx /\ [r EXCEPT !.noff = b].proc = r.proc
BY DEF Cpus

\* push_off() and pop_off().
LEMMA PushOffIs ==
  ASSUME NEW r \in Cpus, r.noff \in 0..1
  PROVE  /\ PushOff(r) \in Cpus /\ PushOff(r).noff = r.noff + 1 /\ ~PushOff(r).intr
         /\ PushOff(r).ctx = r.ctx /\ PushOff(r).proc = r.proc /\ Saved(PushOff(r)) = Saved(r)
<1> DEFINE n == r.noff + 1
<1> DEFINE a == IF r.noff = 0 THEN r.intr ELSE r.intena
<1> DEFINE r1 == [r EXCEPT !.intr = FALSE]
<1> DEFINE r2 == [r1 EXCEPT !.noff = n]
<1> DEFINE r3 == [r2 EXCEPT !.intena = a]
<1>1. a \in BOOLEAN /\ n \in 0..2 /\ n # 0 /\ r1 \in Cpus /\ ~r1.intr /\ r1.ctx = r.ctx /\ r1.proc = r.proc
  <2>1. a \in BOOLEAN /\ n \in 0..2 /\ n # 0
    BY DEF Cpus
  <2>2. r1 \in Cpus /\ r1.intr = FALSE /\ r1.ctx = r.ctx /\ r1.proc = r.proc
    BY SetIntr
  <2> QED
    BY <2>1, <2>2
<1>2. PushOff(r) = r3
  BY Zenon DEF PushOff
<1>3. Saved(r) = a
  BY DEF Saved
<1>4. n = r.noff + 1
  OBVIOUS
<1> HIDE DEF n, a, r1, r2, r3
<1>5. r2 \in Cpus /\ r2.noff = n /\ ~r2.intr /\ r2.ctx = r.ctx /\ r2.proc = r.proc
  BY <1>1, SetNoff DEF r2
<1>6. r3 \in Cpus /\ r3.noff = n /\ ~r3.intr /\ r3.intena = a /\ r3.ctx = r.ctx /\ r3.proc = r.proc
  BY <1>1, <1>5, SetIntena DEF r3
<1>7. Saved(r3) = a
  BY <1>1, <1>6 DEF Saved
<1> QED
  BY <1>2, <1>3, <1>4, <1>6, <1>7

LEMMA PopOffIs ==
  ASSUME NEW r \in Cpus, r.noff \in 1..2
  PROVE  /\ PopOff(r) \in Cpus /\ PopOff(r).noff = r.noff - 1
         /\ (PopOff(r).noff > 0 => ~PopOff(r).intr)
         /\ PopOff(r).ctx = r.ctx /\ PopOff(r).proc = r.proc /\ Saved(PopOff(r)) = Saved(r)
<1> DEFINE n == r.noff - 1
<1> DEFINE i == r.noff = 1 /\ r.intena
<1> DEFINE r1 == [r EXCEPT !.noff = n]
<1> DEFINE r2 == [r1 EXCEPT !.intr = i]
<1>1. r.intena \in BOOLEAN
  BY DEF Cpus
<1>2. n \in 0..2 /\ (n = 0 <=> r.noff = 1) /\ r.noff # 0 /\ (n > 0 => n # 0) /\ n = r.noff - 1
  OBVIOUS
<1>3. PopOff(r) = r2
  BY Zenon DEF PopOff
<1>4. i \in BOOLEAN /\ (i <=> r.noff = 1 /\ r.intena)
  OBVIOUS
<1>5. Saved(r) = r.intena
  BY <1>2 DEF Saved
<1> HIDE DEF n, i, r1, r2
<1>6. r1 \in Cpus /\ r1.noff = n /\ r1.intena = r.intena /\ r1.ctx = r.ctx /\ r1.proc = r.proc
  BY <1>2, SetNoff DEF r1
<1>7. /\ r2 \in Cpus /\ r2.noff = n /\ r2.intena = r.intena /\ r2.intr = i
      /\ r2.ctx = r.ctx /\ r2.proc = r.proc
  BY <1>4, <1>6, SetIntr DEF r2
<1>8. Saved(r2) = r.intena
  <2>1. CASE n = 0
    <3>1. i = r.intena
      <4>1. CASE r.intena = TRUE
        BY <4>1, <2>1, <1>2, <1>4, Zenon
      <4>2. CASE r.intena = FALSE
        BY <4>2, <2>1, <1>2, <1>4, Zenon
      <4> QED
        BY <4>1, <4>2, <1>1, Zenon
    <3> QED
      BY <2>1, <3>1, <1>7, Zenon DEF Saved
  <2>2. CASE n # 0
    BY <2>2, <1>7, Zenon DEF Saved
  <2> QED
    BY <2>1, <2>2
<1>9. r2.noff > 0 => ~r2.intr
  BY <1>2, <1>4, <1>7
<1> QED
  BY <1>2, <1>3, <1>5, <1>7, <1>8, <1>9

\* Good code releases two locks at most before it takes them, and says so at once.
LEMMA CodeOwes ==
  ASSUME NEW t, NEW s \in Seq(Ops), Good(t, s), NEW l \in Locks
  PROVE  /\ \E q \in Locks : OwesAt(s, 1) \subseteq {tickslock, q}
         /\ s # <<>> => OpOK(t, s, 1)
<1>1. CASE s = <<>>
  BY <1>1, NoCode
<1>2. CASE s # <<>>
  <2>1. 1 \in 1..Len(s)
    <3>1. Len(s) \in Nat /\ Len(s) # 0
      BY <1>2, LenProperties, EmptySeq
    <3> QED
      BY <3>1
  <2>2. OpOK(t, s, 1)
    BY <2>1 DEF Good
  <2> QED
    BY <2>2 DEF OpOK, LockOK
<1> QED
  BY <1>1, <1>2

\* A thread t is at the operation o, before v, on a CPU r with the set L of locks.
Doing(t, o, v, s, r, L, st) ==
  /\ o \in Ops /\ v \in Seq(Ops) /\ Good(t, v) /\ Fits(t, o, v) /\ Pushed(t, o, v, s)
  /\ r \in Cpus /\ L \subseteq Locks /\ (IF r.ctx = 0 THEN t \notin Procs ELSE t = r.ctx /\ t \in Procs)
  /\ Runs(r, s, L, st)

Unlocking == {"acquire", "spin", "release"}

LEMMA DoingFacts ==
  ASSUME NEW t, NEW o, NEW v, NEW s, NEW r, NEW L, NEW st, Doing(t, o, v, s, r, L, st)
  PROVE  /\ L = Owed(o, OwesAt(v, 1))
         /\ \E q \in Locks : L \subseteq {tickslock, q}
         /\ \E q \in Locks : OwesAt(v, 1) \subseteq {tickslock, q}
         /\ ~HasOp(v, 1, "spin") /\ (HasOp(v, 1, "sched") => o.op = "state")
         /\ r.noff = Cardinality(L) + (IF o.op = "spin" THEN 1 ELSE 0)
         /\ o.op # "spin" => NoffFit(r, s) /\ r.noff = Cardinality(L)
         /\ o.op \notin Unlocking => OwesAt(v, 1) = L
         /\ \A f \in Flags : FlagAt(s, 1, f) <=> IF o.op \in Flags THEN o.op = f ELSE FlagAt(v, 1, f)
         /\ \A op : HasOp(s, 1, op) <=> o.op = op
<1>1. L = OwesAt(s, 1) /\ OwesAt(s, 1) = Owed(o, OwesAt(v, 1))
  BY DEF Doing, Runs, LocksFit, Pushed
<1>2. /\ \A f \in Flags : FlagAt(s, 1, f) <=> IF o.op \in Flags THEN o.op = f ELSE FlagAt(v, 1, f)
      /\ \A op : HasOp(s, 1, op) <=> o.op = op
  BY DEF Doing, Pushed
<1>3. ~HasOp(v, 1, "spin") /\ (HasOp(v, 1, "sched") => o.op = "state")
  BY DEF Doing, Fits, LockFits, ProcFits
<1>4. \E q \in Locks : L \subseteq {tickslock, q}
  BY <1>1 DEF Doing, Fits, LockFits
<1>5. \E q \in Locks : OwesAt(v, 1) \subseteq {tickslock, q}
  BY <1>4, CodeOwes DEF Doing
<1>6. /\ r.noff = Cardinality(L) + (IF o.op = "spin" THEN 1 ELSE 0)
      /\ NoffFit(r, s)
  BY <1>1, <1>2 DEF Doing, Runs, NoffFit
<1>7. Cardinality(L) \in 0..2
  BY <1>4, Counts
<1>8. o.op \notin Unlocking => OwesAt(v, 1) = L
  BY <1>1 DEF Owed, Unlocking
<1>9. o.op # "spin" => r.noff = Cardinality(L)
  BY <1>6, <1>7
<1> QED
  BY <1>1, <1>2, <1>3, <1>4, <1>5, <1>6, <1>8, <1>9

\* The rest of the code, after an operation that takes and releases nothing.
LEMMA Plain ==
  ASSUME NEW t, NEW o, NEW v, NEW s, NEW r, NEW L, NEW st, Doing(t, o, v, s, r, L, st),
         o.op \notin Unlocking
  PROVE  LocksFit(v, L) /\ NoffFit(r, v) /\ r.noff = Cardinality(OwesAt(v, 1))
<1>1. /\ OwesAt(v, 1) = L /\ ~HasOp(v, 1, "spin") /\ r.noff = Cardinality(L) /\ NoffFit(r, s) /\ o.op # "spin"
      /\ \E q \in Locks : L \subseteq {tickslock, q}
  BY DoingFacts DEF Unlocking
<1>2. Cardinality(L) \in 0..2
  BY <1>1, Counts
<1>3. r.noff > 0 => ~r.intr
  BY <1>1 DEF NoffFit
<1>4. Cardinality(OwesAt(v, 1)) + (IF HasOp(v, 1, "spin") THEN 1 ELSE 0) = Cardinality(L)
  BY <1>1, <1>2
<1>5. NoffFit(r, v)
  BY <1>1, <1>3, <1>4 DEF NoffFit
<1> QED
  BY <1>1, <1>5 DEF LocksFit

LEMMA AcquireFits ==
  ASSUME NPROC \in Nat, NEW t, NEW o, NEW v, NEW s, NEW r, NEW L, NEW st, Doing(t, o, v, s, r, L, st),
         o.op = "acquire", NEW u, u = <<Op("spin", o.arg)>> \o v
  PROVE  u \in Seq(Ops) /\ Good(t, u) /\ PushOff(r) \in Cpus /\ Runs(PushOff(r), u, L, st)
<1> DEFINE p == Op("spin", o.arg)
<1>1. o.arg \in OwesAt(v, 1) /\ o.arg \in Locks /\ L \subseteq {tickslock} /\ o.arg \notin L
  BY DEF Doing, Fits, LockFits, Runs, LocksFit, Pushed, Owed, OwesAt
<1>2. p \in Ops /\ p.op = "spin" /\ p.arg = o.arg
  <2>1. "spin" \in Names
    BY DEF Names
  <2> QED
    BY <1>1, <2>1, OtherOps
<1> HIDE DEF p
<1>3. Fits(t, p, v)
  BY <1>1, <1>2 DEF Doing, Fits, LockFits, FlagFits, ProcFits, Owed, Flags
<1>4. Pushed(t, p, v, u)
  BY <1>2, <1>3, Push DEF Doing, p
<1>5. r.noff = Cardinality(L) /\ L = Owed(o, OwesAt(v, 1))
  BY DoingFacts
<1>6. Cardinality(L) \in 0..1
  BY <1>1, Counts
<1>7. r \in Cpus /\ Runs(r, s, L, st) /\ Pushed(t, o, v, s)
  BY DEF Doing
<1>8. OwesAt(u, 1) = L /\ HasOp(u, 1, "spin") /\ ~HasOp(u, 1, "sched") /\ ~HasOp(u, 1, "back")
  BY <1>2, <1>4, <1>5 DEF Pushed, Owed
<1>9. \A f \in Flags : FlagAt(u, 1, f) <=> FlagAt(s, 1, f)
  BY <1>2, <1>4, <1>7 DEF Pushed, Flags
<1>10. /\ PushOff(r) \in Cpus /\ PushOff(r).noff = r.noff + 1 /\ ~PushOff(r).intr
       /\ PushOff(r).ctx = r.ctx /\ PushOff(r).proc = r.proc /\ Saved(PushOff(r)) = Saved(r)
  <2>1. r.noff \in 0..1
    BY <1>5, <1>6
  <2> QED
    BY <2>1, <1>7, PushOffIs
<1>11. NoffFit(PushOff(r), u)
  BY <1>5, <1>8, <1>10 DEF NoffFit
<1>12. StateFit(PushOff(r), u, st)
  BY <1>7, <1>8, <1>10 DEF Runs, StateFit, Pushed
<1>13. IntrFit(PushOff(r), u)
  <2>1. ~HasOp(s, 1, "back")
    BY <1>7 DEF Pushed
  <2>2. "sret" \in Flags /\ "on" \in Flags
    BY DEF Flags
  <2> QED
    BY <2>1, <2>2, <1>7, <1>8, <1>9, <1>10, Zenon DEF Runs, IntrFit
<1> QED
  BY <1>4, <1>8, <1>10, <1>11, <1>12, <1>13 DEF Pushed, Runs, LocksFit

\* The same thread goes on with interrupts as they were.
LEMMA IntrSame ==
  ASSUME NEW t, NEW o, NEW v, NEW s, NEW r, NEW L, NEW st, Doing(t, o, v, s, r, L, st),
         o.op \notin Flags, o.op # "back", NEW r2, r2.ctx = r.ctx, Saved(r2) = Saved(r)
  PROVE  IntrFit(r2, v)
<1>1. IntrFit(r, s) /\ ~HasOp(s, 1, "back")
  BY DoingFacts DEF Doing, Runs
<1>2. \A f \in Flags : FlagAt(s, 1, f) <=> FlagAt(v, 1, f)
  BY DoingFacts
<1>3. "sret" \in Flags /\ "on" \in Flags
  BY DEF Flags
<1> QED
  BY <1>1, <1>2, <1>3, Zenon DEF IntrFit

LEMMA StateSame ==
  ASSUME NEW t, NEW o, NEW v, NEW s, NEW r, NEW L, NEW st, Doing(t, o, v, s, r, L, st),
         o.op \notin {"state", "sched", "gone"}, NEW r2, r2.ctx = r.ctx, r2.proc = r.proc,
         NEW st2, \A p \in Procs : st2[p] = "RUNNING" <=> st[p] = "RUNNING"
  PROVE  StateFit(r2, v, st2)
<1>1. StateFit(r, s, st) /\ ~HasOp(s, 1, "gone") /\ ~HasOp(s, 1, "sched") /\ ~HasOp(v, 1, "sched")
  BY DoingFacts DEF Doing, Runs
<1>2. r.ctx # 0 => r.ctx \in Procs
  BY DEF Doing
<1> QED
  BY <1>1, <1>2 DEF StateFit

\* An operation on neither locks nor interrupts, on the CPU as it was.
LEMMA PlainRuns ==
  ASSUME NEW t, NEW o, NEW v, NEW s, NEW r, NEW L, NEW st, Doing(t, o, v, s, r, L, st),
         o.op \in {"wake", "test", "tick", "pick"},
         NEW st2, \A p \in Procs : st2[p] = "RUNNING" <=> st[p] = "RUNNING"
  PROVE  Runs(r, v, L, st2)
<1>1. o.op \notin Unlocking /\ o.op \notin Flags /\ o.op # "back" /\ o.op \notin {"state", "sched", "gone"}
  BY DEF Unlocking, Flags
<1>2. LocksFit(v, L) /\ NoffFit(r, v)
  BY <1>1, Plain
<1>3. StateFit(r, v, st2)
  BY <1>1, StateSame
<1>4. IntrFit(r, v)
  BY <1>1, IntrSame
<1> QED
  BY <1>2, <1>3, <1>4 DEF Runs

LEMMA SpinFits ==
  ASSUME NEW t, NEW o, NEW v, NEW s, NEW r, NEW L, NEW st, Doing(t, o, v, s, r, L, st),
         o.op = "spin"
  PROVE  Runs(r, v, L \cup {o.arg}, st)
<1>1. o.op \notin Flags /\ o.op # "back" /\ o.op \notin {"state", "sched", "gone"}
  BY DEF Flags
<1>2. o.arg \in OwesAt(v, 1) /\ ~HasOp(v, 1, "spin")
  BY DEF Doing, Fits, LockFits
<1>3. L = OwesAt(v, 1) \ {o.arg} /\ L \subseteq {tickslock} /\ r.noff = Cardinality(L) + 1
  <2>1. L = Owed(o, OwesAt(v, 1)) /\ r.noff = Cardinality(L) + 1
    BY DoingFacts
  <2> QED
    BY <2>1 DEF Owed, Doing, Fits, LockFits
<1>4. L \cup {o.arg} = OwesAt(v, 1) /\ o.arg \notin L
  BY <1>2, <1>3
<1>5. Cardinality(L) \in 0..1 /\ Cardinality(OwesAt(v, 1)) = Cardinality(L) + 1
  <2>1. L \subseteq {tickslock, tickslock} /\ L \subseteq {tickslock}
    BY <1>3
  <2>2. Cardinality(L) \in 0..1 /\ Cardinality(L \cup {o.arg}) = Cardinality(L) + 1
    BY <2>1, <1>4, Counts
  <2> QED
    BY <2>2, <1>4
<1>6. NoffFit(r, s)
  BY DEF Doing, Runs
<1>7. NoffFit(r, v)
  BY <1>2, <1>3, <1>5, <1>6 DEF NoffFit
<1>8. StateFit(r, v, st)
  BY <1>1, StateSame
<1>9. IntrFit(r, v)
  BY <1>1, IntrSame
<1> QED
  BY <1>4, <1>7, <1>8, <1>9 DEF Runs, LocksFit

LEMMA ReleaseFits ==
  ASSUME NEW t, NEW o, NEW v, NEW s, NEW r, NEW L, NEW st, Doing(t, o, v, s, r, L, st),
         o.op = "release"
  PROVE  /\ o.arg \in L /\ o.arg \in Locks /\ r.noff > 0 /\ ~r.intr
         /\ PopOff(r) \in Cpus /\ PopOff(r).ctx = r.ctx /\ Runs(PopOff(r), v, L \ {o.arg}, st)
<1>1. o.op \notin Flags /\ o.op # "back" /\ o.op \notin {"state", "sched", "gone"} /\ o.op # "spin"
  BY DEF Flags
<1>2. o.arg \in Locks \ OwesAt(v, 1) /\ ~HasOp(v, 1, "spin") /\ r \in Cpus
  BY DEF Doing, Fits, LockFits
<1>3. L = OwesAt(v, 1) \cup {o.arg} /\ r.noff = Cardinality(L) /\ NoffFit(r, s)
  <2>1. L = Owed(o, OwesAt(v, 1)) /\ r.noff = Cardinality(L) /\ NoffFit(r, s)
    BY <1>1, DoingFacts
  <2> QED
    BY <2>1 DEF Owed
<1>4. L \ {o.arg} = OwesAt(v, 1) /\ o.arg \in L
  BY <1>2, <1>3
<1>5. \E q \in Locks : L \subseteq {tickslock, q}
  BY DoingFacts
<1>6. /\ Cardinality(L) \in 0..2 /\ (Cardinality(L) = 0 <=> L = {})
      /\ Cardinality(L \ {o.arg}) = Cardinality(L) - 1
  BY <1>4, <1>5, Counts
<1>7. r.noff \in 1..2
  BY <1>3, <1>4, <1>6
<1>8. r.noff > 0 /\ ~r.intr
  BY <1>3, <1>7 DEF NoffFit
<1>9. /\ PopOff(r) \in Cpus /\ PopOff(r).noff = r.noff - 1
      /\ (PopOff(r).noff > 0 => ~PopOff(r).intr)
      /\ PopOff(r).ctx = r.ctx /\ PopOff(r).proc = r.proc /\ Saved(PopOff(r)) = Saved(r)
  BY <1>2, <1>7, PopOffIs
<1>10. NoffFit(PopOff(r), v)
  BY <1>2, <1>3, <1>4, <1>6, <1>9 DEF NoffFit
<1>11. StateFit(PopOff(r), v, st)
  BY <1>1, <1>9, StateSame
<1>12. IntrFit(PopOff(r), v)
  BY <1>1, <1>9, IntrSame
<1> QED
  BY <1>2, <1>4, <1>8, <1>9, <1>10, <1>11, <1>12 DEF Runs, LocksFit

LEMMA SetStateIs ==
  ASSUME NEW t, NEW o, NEW v, NEW s, NEW r, NEW L, NEW st, Doing(t, o, v, s, r, L, st), o.op = "state"
  PROVE  t \in Procs /\ r.ctx = t /\ r.ctx # 0 /\ o.arg \in {"RUNNABLE", "SLEEPING"} /\ HasOp(v, 1, "sched")
<1>1. t \in Procs /\ HasOp(v, 1, "sched") /\ o.arg \in {"RUNNABLE", "SLEEPING"}
  BY DEF Doing, Fits, ProcFits
<1> QED
  BY <1>1 DEF Doing, Procs

LEMMA SetStateFits ==
  ASSUME NEW t, NEW o, NEW v, NEW s, NEW r, NEW L, NEW st, Doing(t, o, v, s, r, L, st),
         o.op = "state", NEW st2, st2[t] = o.arg
  PROVE  Runs(r, v, L, st2)
<1>1. o.op \notin Unlocking /\ o.op \notin Flags /\ o.op # "back"
  BY DEF Unlocking, Flags
<1>2. r.ctx = t /\ r.ctx # 0 /\ o.arg \in {"RUNNABLE", "SLEEPING"} /\ HasOp(v, 1, "sched")
  BY SetStateIs
<1>3. StateFit(r, s, st)
  BY DEF Doing, Runs
<1>4. StateFit(r, v, st2)
  BY <1>2, <1>3 DEF StateFit
<1>5. LocksFit(v, L) /\ NoffFit(r, v)
  BY <1>1, Plain
<1>6. IntrFit(r, v)
  BY <1>1, IntrSame
<1> QED
  BY <1>4, <1>5, <1>6 DEF Runs

\* Interrupts go on or off.
LEMMA SretFits ==
  ASSUME NEW t, NEW o, NEW v, NEW s, NEW r, NEW L, NEW st, Doing(t, o, v, s, r, L, st),
         o.op \in {"on", "sret"}, NEW r2 \in Cpus,
         r2.intr = TRUE, r2.noff = r.noff, r2.ctx = r.ctx, r2.proc = r.proc
  PROVE  Runs(r2, v, L, st)
<1>1. o.op \in Flags /\ o.op \notin Unlocking /\ o.op # "back" /\ o.op \notin {"state", "sched", "gone"}
  BY DEF Unlocking, Flags
<1>2. OwesAt(v, 1) = {} /\ L = {} /\ r.noff = Cardinality(L) /\ r \in Cpus
  <2>1. L = OwesAt(v, 1) /\ r.noff = Cardinality(L)
    BY <1>1, DoingFacts DEF Unlocking
  <2> QED
    BY <2>1, <1>1 DEF Doing, Fits, FlagFits
<1>3. r.noff = 0
  BY <1>2, FS_EmptySet
<1>4. r2.intr = TRUE /\ r2.noff = 0 /\ r2.ctx = r.ctx /\ r2.proc = r.proc
  BY <1>3
<1>5. LocksFit(v, L) /\ NoffFit(r, v)
  BY <1>1, Plain
<1>6. NoffFit(r2, v)
  BY <1>3, <1>4, <1>5 DEF NoffFit
<1>7. StateFit(r2, v, st)
  BY <1>1, <1>4, StateSame
<1>8. ASSUME r.ctx # 0 PROVE ~FlagAt(v, 1, "sret") /\ ~FlagAt(v, 1, "on")
  <2>1. t \in Procs /\ v \in Seq(Ops)
    BY <1>8 DEF Doing
  <2>2. CASE o.op = "sret"
    BY <2>1, <2>2 DEF Doing, Fits, FlagFits
  <2>3. CASE o.op = "on"
    <3>1. FlagAt(v, 1, "off")
      BY <2>3 DEF Doing, Fits, FlagFits
    <3>2. "off" \in Flags /\ "sret" \in Flags /\ "on" \in Flags
      BY DEF Flags
    <3> QED
      BY <2>1, <3>1, <3>2, OneFlag
  <2> QED
    BY <2>2, <2>3
<1>9. Saved(r2) = TRUE
  BY <1>4 DEF Saved
<1>10. IntrFit(r2, v)
  BY <1>4, <1>8, <1>9 DEF IntrFit
<1> QED
  BY <1>4, <1>5, <1>6, <1>7, <1>10 DEF Runs

LEMMA IntrOffFits ==
  ASSUME NEW t, NEW o, NEW v, NEW s, NEW r, NEW L, NEW st, Doing(t, o, v, s, r, L, st),
         o.op \in {"off", "forkret"}, NEW r2 \in Cpus,
         r2.intr = FALSE, r2.noff = r.noff, r2.ctx = r.ctx, r2.proc = r.proc
  PROVE  Runs(r2, v, L, st)
<1>1. o.op \in Flags /\ o.op \notin Unlocking /\ o.op # "back" /\ o.op \notin {"state", "sched", "gone"}
  BY DEF Unlocking, Flags
<1>2. OwesAt(v, 1) = {} /\ L = {} /\ r.noff = Cardinality(L) /\ r \in Cpus /\ FlagAt(v, 1, "sret")
  <2>1. L = OwesAt(v, 1) /\ r.noff = Cardinality(L)
    BY <1>1, DoingFacts DEF Unlocking
  <2> QED
    BY <2>1, <1>1 DEF Doing, Fits, FlagFits
<1>3. r.noff = 0
  BY <1>2, FS_EmptySet
<1>4. r2.intr = FALSE /\ r2.noff = 0 /\ r2.ctx = r.ctx /\ r2.proc = r.proc
  BY <1>3
<1>5. LocksFit(v, L) /\ NoffFit(r, v)
  BY <1>1, Plain
<1>6. NoffFit(r2, v)
  BY <1>3, <1>4, <1>5 DEF NoffFit
<1>7. StateFit(r2, v, st)
  BY <1>1, <1>4, StateSame
<1>8. Saved(r2) = FALSE /\ "sret" \in Flags \ {"off"}
  BY <1>4 DEF Saved, Flags
<1>9. IntrFit(r2, v)
  BY <1>2, <1>8 DEF IntrFit
<1> QED
  BY <1>4, <1>5, <1>6, <1>7, <1>9 DEF Runs

LEMMA ResumeFits ==
  ASSUME NEW t, NEW o, NEW v, NEW s, NEW r, NEW L, NEW st, Doing(t, o, v, s, r, L, st),
         o.op = "back", NEW r2 \in Cpus,
         r2.intena = o.arg, r2.intr = r.intr, r2.noff = r.noff, r2.ctx = r.ctx, r2.proc = r.proc
  PROVE  Runs(r2, v, L, st)
<1>1. o.op \notin Flags /\ o.op \notin Unlocking /\ o.op \notin {"state", "sched", "gone"}
  BY DEF Unlocking, Flags
<1>2. /\ OwesAt(v, 1) = {t} /\ r \in Cpus /\ o.arg = ~FlagAt(v, 1, "sret") /\ o.arg \in BOOLEAN
      /\ ~FlagAt(v, 1, "on")
  BY <1>1 DEF Doing, Fits, ProcFits, FlagFits
<1>3. r.noff = 1
  <2>1. L = {t} /\ r.noff = Cardinality(L)
    BY <1>1, <1>2, DoingFacts DEF Unlocking
  <2> QED
    BY <2>1, FS_Singleton
<1>4. \A p \in Procs : st[p] = "RUNNING" <=> st[p] = "RUNNING"
  OBVIOUS
<1>5. r2.intena = o.arg /\ r2.noff = 1 /\ r2.ctx = r.ctx /\ r2.proc = r.proc /\ r2.intr = r.intr
  BY <1>3
<1>6. LocksFit(v, L) /\ NoffFit(r, v)
  BY <1>1, Plain
<1>7. NoffFit(r2, v)
  BY <1>3, <1>5, <1>6 DEF NoffFit
<1>8. StateFit(r2, v, st)
  BY <1>1, <1>4, <1>5, StateSame
<1>9. Saved(r2) = o.arg
  BY <1>5 DEF Saved
<1>10. IntrFit(r2, v)
  <2>1. "sret" \in Flags \ {"off"}
    BY DEF Flags
  <2> QED
    BY <2>1, <1>2, <1>9 DEF IntrFit
<1> QED
  BY <1>6, <1>7, <1>8, <1>10 DEF Runs

LEMMA GoneFits ==
  ASSUME NEW t, NEW o, NEW v, NEW s, NEW r, NEW L, NEW st, Doing(t, o, v, s, r, L, st),
         o.op = "gone", NEW r2 \in Cpus,
         r2.proc = Nobody, r2.ctx = r.ctx, r2.noff = r.noff, r2.intr = r.intr
  PROVE  r.ctx = 0 /\ Runs(r2, v, L, st)
<1>1. o.op \notin Unlocking
  BY DEF Unlocking
<1>2. r.ctx = 0 /\ r \in Cpus
  BY DEF Doing, Fits, ProcFits
<1>3. r2.proc = 0 /\ r2.ctx = 0 /\ r2.noff = r.noff /\ r2.intr = r.intr
  BY <1>2 DEF Nobody
<1>4. LocksFit(v, L) /\ NoffFit(r, v)
  BY <1>1, Plain
<1>5. NoffFit(r2, v)
  BY <1>3, <1>4 DEF NoffFit
<1>6. StateFit(r2, v, st) /\ IntrFit(r2, v)
  BY <1>3 DEF StateFit, IntrFit
<1> QED
  BY <1>2, <1>3, <1>4, <1>5, <1>6 DEF Runs

LEMMA NoffZero ==
  ASSUME NEW r, NEW s, OwesAt(s, 1) = {}, ~HasOp(s, 1, "spin")
  PROVE  NoffFit(r, s) <=> r.noff = 0
<1>1. Cardinality(OwesAt(s, 1)) + (IF HasOp(s, 1, "spin") THEN 1 ELSE 0) = 0
  BY FS_EmptySet
<1>2. r.noff = 0 => ~(r.noff > 0)
  OBVIOUS
<1> QED
  BY <1>1, <1>2 DEF NoffFit

\* The kernel is entered, or goes to sleep.
LEMMA YieldFits ==
  ASSUME NPROC \in Nat, NEW t \in Procs, NEW o, NEW v, NEW s, NEW r, NEW L, NEW st,
         Doing(t, o, v, s, r, L, st), o.op = "tick", NEW u, u = Yield(t) \o v
  PROVE  u \in Seq(Ops) /\ Good(t, u) /\ Runs(r, u, L, st)
<1>1. o.op \notin Unlocking /\ o.op \notin Flags /\ o.op # "back" /\ o.op \notin {"state", "sched", "gone"}
  BY DEF Unlocking, Flags
<1>2. /\ v \in Seq(Ops) /\ Good(t, v) /\ OwesAt(v, 1) = {} /\ FlagAt(v, 1, "sret")
      /\ ~HasOp(v, 1, "sched") /\ ~HasOp(v, 1, "spin")
  BY <1>1 DEF Doing, Fits, ProcFits, LockFits
<1>3. /\ u \in Seq(Ops) /\ Good(t, u) /\ OwesAt(u, 1) = {} /\ FlagAt(u, 1, "sret")
      /\ HasOp(u, 1, "acquire")
  BY <1>2, YieldCode
<1>4. ~HasOp(u, 1, "spin") /\ ~HasOp(u, 1, "sched") /\ ~HasOp(u, 1, "back")
  BY <1>3 DEF HasOp
<1>5. Runs(r, v, L, st)
  BY PlainRuns
<1>6. ~HasOp(v, 1, "back") /\ ~HasOp(s, 1, "gone")
  <2>1. ~HasOp(s, 1, "gone") /\ HasOp(s, 1, "tick")
    BY DoingFacts
  <2>2. ASSUME HasOp(v, 1, "back") PROVE FALSE
    <3>1. v # <<>> /\ v[1].op = "back"
      BY <2>2, NoCode DEF HasOp
    <3>2. OpOK(t, v, 1)
      <4>1. 0 \in Locks
        BY LockFacts
      <4> QED
        BY <4>1, <3>1, <1>2, CodeOwes
    <3> QED
      BY <3>1, <3>2, <1>2 DEF OpOK, ProcOK
  <2> QED
    BY <2>1, <2>2
<1>7. r.ctx # 0
  BY DEF Doing
<1>8. LocksFit(u, L) /\ NoffFit(r, u)
  BY <1>2, <1>3, <1>4, <1>5 DEF Runs, LocksFit, NoffFit
<1>9. StateFit(r, u, st)
  BY <1>2, <1>4, <1>5, <1>7 DEF Runs, StateFit
<1>10. IntrFit(r, u)
  <2>1. "sret" \in Flags \ {"off"}
    BY DEF Flags
  <2>2. ~Saved(r)
    BY <1>2, <1>5, <1>6, <1>7 DEF Runs, IntrFit
  <2> QED
    BY <2>1, <2>2, <1>3 DEF IntrFit
<1> QED
  BY <1>3, <1>8, <1>9, <1>10 DEF Runs

LEMMA SleepFits ==
  ASSUME NPROC \in Nat, NEW t \in Procs, NEW o, NEW v, NEW s \in Seq(Ops), NEW r, NEW L, NEW st,
         Doing(t, o, v, s, r, L, st), Good(t, s), o.op = "test", NEW u, u = Sleep(t, tickslock) \o s
  PROVE  u \in Seq(Ops) /\ Good(t, u) /\ Runs(r, u, L, st)
<1>1. o.op \notin Unlocking /\ o.op \notin Flags
  BY DEF Unlocking, Flags
<1>2. /\ \A op : HasOp(s, 1, op) <=> o.op = op
      /\ OwesAt(v, 1) = L /\ LocksFit(s, L)
      /\ \A f \in Flags : FlagAt(s, 1, f) <=> FlagAt(v, 1, f)
  BY <1>1, DoingFacts DEF Doing, Runs
<1>3. OwesAt(v, 1) = {tickslock} /\ FlagAt(v, 1, "off") /\ "off" \in Flags
  BY DEF Doing, Fits, ProcFits, Flags
<1>4. /\ OwesAt(s, 1) = {tickslock} /\ FlagAt(s, 1, "off")
      /\ ~HasOp(s, 1, "sched") /\ ~HasOp(s, 1, "spin") /\ ~HasOp(s, 1, "back") /\ ~HasOp(s, 1, "gone")
  BY <1>2, <1>3 DEF LocksFit
<1>5. /\ u \in Seq(Ops) /\ Good(t, u) /\ OwesAt(u, 1) = {tickslock} /\ FlagAt(u, 1, "off")
      /\ HasOp(u, 1, "acquire")
  BY <1>4, SleepCode
<1>6. ~HasOp(u, 1, "spin") /\ ~HasOp(u, 1, "sched") /\ ~HasOp(u, 1, "back")
  BY <1>5 DEF HasOp
<1>7. Runs(r, s, L, st) /\ r.ctx # 0
  BY DEF Doing
<1>8. LocksFit(u, L) /\ NoffFit(r, u)
  BY <1>4, <1>5, <1>6, <1>7 DEF Runs, LocksFit, NoffFit
<1>9. StateFit(r, u, st)
  BY <1>4, <1>6, <1>7 DEF Runs, StateFit
<1>10. IntrFit(r, u)
  <2>1. \A f \in Flags \ {"off"} : ~FlagAt(s, 1, f) /\ ~FlagAt(u, 1, f)
    BY <1>3, <1>4, <1>5, OneFlag
  <2>2. Saved(r)
    BY <2>1, <1>4, <1>7 DEF Runs, IntrFit
  <2>3. "sret" \in Flags \ {"off"} /\ "on" \in Flags \ {"off"}
    BY DEF Flags
  <2> QED
    BY <2>1, <2>2, <2>3 DEF IntrFit
<1> QED
  BY <1>5, <1>8, <1>9, <1>10 DEF Runs

LEMMA TimerFits ==
  ASSUME NPROC \in Nat, NEW c, NEW t, NEW s \in Seq(Ops), Good(t, s), NEW r \in Cpus, NEW L, NEW st,
         IF r.ctx = 0 THEN t \notin Procs ELSE t = r.ctx /\ t \in Procs,
         Runs(r, s, L, st), r.intr = TRUE, NEW r2 \in Cpus,
         r2.intr = FALSE, r2.noff = r.noff, r2.ctx = r.ctx, r2.proc = r.proc,
         NEW u, u = Timer(c) \o s
  PROVE  u \in Seq(Ops) /\ Good(t, u) /\ Runs(r2, u, L, st)
<1>1. r.noff \in 0..2 /\ r.noff = Cardinality(OwesAt(s, 1)) + (IF HasOp(s, 1, "spin") THEN 1 ELSE 0) /\ ~(r.noff > 0)
  BY DEF Cpus, Runs, NoffFit
<1>2. \E q \in Locks : OwesAt(s, 1) \subseteq {tickslock, q}
  <2>1. 0 \in Locks
    BY LockFacts
  <2> QED
    BY <2>1, CodeOwes
<1>3. Cardinality(OwesAt(s, 1)) \in 0..2 /\ (Cardinality(OwesAt(s, 1)) = 0 <=> OwesAt(s, 1) = {})
  BY <1>2, Counts
<1>4. r.noff = 0 /\ OwesAt(s, 1) = {} /\ Cardinality(OwesAt(s, 1)) = 0 /\ ~HasOp(s, 1, "spin")
  BY <1>1, <1>3
<1>5. ~HasOp(s, 1, "sched") /\ ~HasOp(s, 1, "back") /\ ~HasOp(s, 1, "gone")
  <2> SUFFICES ASSUME NEW op \in {"sched", "back", "gone"}, HasOp(s, 1, op) PROVE FALSE
    OBVIOUS
  <2>1. s # <<>> /\ s[1].op = op
    BY NoCode DEF HasOp
  <2>2. OpOK(t, s, 1)
    <3>1. 0 \in Locks
      BY LockFacts
    <3> QED
      BY <3>1, <2>1, CodeOwes
  <2> QED
    BY <2>1, <2>2, <1>4 DEF OpOK, ProcOK
<1>6. t \in Procs => ~FlagAt(s, 1, "sret") /\ ~FlagAt(s, 1, "on")
  <2> SUFFICES ASSUME t \in Procs PROVE ~FlagAt(s, 1, "sret") /\ ~FlagAt(s, 1, "on")
    OBVIOUS
  <2>1. r.ctx # 0
    OBVIOUS
  <2>2. Saved(r) = TRUE
    BY <1>4 DEF Saved
  <2> QED
    BY <2>1, <2>2, <1>5 DEF Runs, IntrFit
<1>7. /\ u \in Seq(Ops) /\ Good(t, u) /\ OwesAt(u, 1) = {} /\ FlagAt(u, 1, "sret")
      /\ HasOp(u, 1, "acquire") \/ HasOp(u, 1, "tick")
  BY <1>4, <1>5, <1>6, TimerCode
<1>8. ~HasOp(u, 1, "spin") /\ ~HasOp(u, 1, "sched")
  BY <1>7 DEF HasOp
<1>9. LocksFit(u, L)
  BY <1>4, <1>7 DEF Runs, LocksFit
<1>10. NoffFit(r2, u)
  BY <1>4, <1>7, <1>8, NoffZero
<1>11. StateFit(r2, u, st)
  BY <1>5, <1>8 DEF Runs, StateFit
<1>12. IntrFit(r2, u)
  <2>1. Saved(r2) = FALSE /\ "sret" \in Flags \ {"off"}
    BY <1>4 DEF Saved, Flags
  <2> QED
    BY <2>1, <1>7 DEF IntrFit
<1> QED
  BY <1>7, <1>9, <1>10, <1>11, <1>12 DEF Runs

LEMMA SyscallFits ==
  ASSUME NPROC \in Nat, NEW t \in Procs, NEW r \in Cpus, NEW L, NEW st, r.ctx = t,
         Runs(r, <<>>, L, st), NEW r2 \in Cpus,
         r2.intr = FALSE, r2.noff = r.noff, r2.ctx = r.ctx, r2.proc = r.proc
  PROVE  SysSleep \in Seq(Ops) /\ Good(t, SysSleep) /\ Runs(r2, SysSleep, L, st)
<1>1. /\ OwesAt(<<>>, 1) = {} /\ ~HasOp(<<>>, 1, "spin") /\ ~HasOp(<<>>, 1, "sched")
  BY NoCode
<1>2. r.noff = 0 /\ r.ctx # 0
  BY <1>1, NoffZero DEF Runs, Procs
<1>3. /\ SysSleep \in Seq(Ops) /\ Good(t, SysSleep) /\ OwesAt(SysSleep, 1) = {}
      /\ FlagAt(SysSleep, 1, "on") /\ HasOp(SysSleep, 1, "on")
  BY SysSleepCode
<1>4. ~HasOp(SysSleep, 1, "spin") /\ ~HasOp(SysSleep, 1, "sched")
  BY <1>3 DEF HasOp
<1>5. LocksFit(SysSleep, L) /\ NoffFit(r2, SysSleep)
  BY <1>1, <1>2, <1>3, <1>4, NoffZero DEF Runs, LocksFit
<1>6. StateFit(r2, SysSleep, st)
  BY <1>1, <1>2, <1>4 DEF Runs, StateFit
<1>7. IntrFit(r2, SysSleep)
  <2>1. Saved(r2) = FALSE /\ "on" \in Flags \ {"off"}
    BY <1>2 DEF Saved, Flags
  <2> QED
    BY <2>1, <1>3 DEF IntrFit
<1> QED
  BY <1>3, <1>5, <1>6, <1>7 DEF Runs

LEMMA LoopFits ==
  ASSUME NPROC \in Nat, NEW t, t \notin Procs, NEW r \in Cpus, NEW L, NEW st, r.ctx = 0,
         Runs(r, <<>>, L, st), NEW r2 \in Cpus,
         r2.intr = TRUE, r2.noff = r.noff, r2.ctx = r.ctx, r2.proc = r.proc
  PROVE  Scheduler \in Seq(Ops) /\ Good(t, Scheduler) /\ Runs(r2, Scheduler, L, st)
<1>1. /\ OwesAt(<<>>, 1) = {} /\ ~HasOp(<<>>, 1, "spin") /\ ~HasOp(<<>>, 1, "gone")
  BY NoCode
<1>2. r.noff = 0 /\ r.proc = 0
  BY <1>1, NoffZero DEF Runs, StateFit
<1>3. /\ Scheduler \in Seq(Ops) /\ Good(t, Scheduler) /\ OwesAt(Scheduler, 1) = {}
      /\ ~HasOp(Scheduler, 1, "spin")
  BY SchedulerCode DEF Scanning
<1>4. LocksFit(Scheduler, L) /\ NoffFit(r2, Scheduler)
  BY <1>1, <1>2, <1>3, NoffZero DEF Runs, LocksFit
<1>5. StateFit(r2, Scheduler, st) /\ IntrFit(r2, Scheduler)
  BY <1>2 DEF StateFit, IntrFit
<1> QED
  BY <1>3, <1>4, <1>5 DEF Runs

-----------------------------------------------------------------------------
(* What a step leaves alone.                                                *)

LEMMA ThreadFacts ==
  ASSUME NPROC \in Nat, NCPU \in Nat, Typed, NEW c \in CPUs
  PROVE  /\ cpu[c] \in Cpus /\ Thread(c) \in Threads /\ NPROC + c \in Threads
         /\ NPROC + c \notin Procs /\ Code(c) \in Seq(Ops) /\ todo[NPROC + c] \in Seq(Ops)
         /\ IF cpu[c].ctx = 0 THEN Thread(c) = NPROC + c /\ Thread(c) \notin Procs
                              ELSE Thread(c) = cpu[c].ctx /\ Thread(c) \in Procs
         /\ Procs \subseteq Threads
<1>1. cpu[c] \in Cpus /\ c \in Nat /\ c >= 1
  BY DEF Typed, CPUs
<1>2. cpu[c].ctx \in 0..NPROC
  BY <1>1 DEF Cpus
<1>3. NPROC + c \in Threads /\ NPROC + c \notin Procs /\ Procs \subseteq Threads
  BY DEF Threads, Procs, CPUs
<1>4. cpu[c].ctx # 0 => cpu[c].ctx \in Procs
  BY <1>2 DEF Procs
<1>5. IF cpu[c].ctx = 0 THEN Thread(c) = NPROC + c /\ Thread(c) \notin Procs
                        ELSE Thread(c) = cpu[c].ctx /\ Thread(c) \in Procs
  BY <1>3, <1>4 DEF Thread
<1>6. Thread(c) \in Threads
  BY <1>3, <1>5
<1>7. todo \in [Threads -> Seq(Ops)]
  BY DEF Typed
<1>8. Code(c) \in Seq(Ops) /\ todo[NPROC + c] \in Seq(Ops)
  BY <1>3, <1>6, <1>7 DEF Code
<1> QED
  BY <1>1, <1>3, <1>5, <1>6, <1>8

LEMMA ThreadsApart ==
  ASSUME NPROC \in Nat, NCPU \in Nat, Typed, OneCpu, NEW c \in CPUs, NEW d \in CPUs, c # d
  PROVE  Thread(c) # Thread(d) /\ NPROC + d # Thread(c)
<1>1. /\ IF cpu[c].ctx = 0 THEN Thread(c) = NPROC + c /\ Thread(c) \notin Procs
                           ELSE Thread(c) = cpu[c].ctx /\ Thread(c) \in Procs
      /\ NPROC + c \notin Procs
  BY ThreadFacts
<1>2. /\ IF cpu[d].ctx = 0 THEN Thread(d) = NPROC + d /\ Thread(d) \notin Procs
                           ELSE Thread(d) = cpu[d].ctx /\ Thread(d) \in Procs
      /\ NPROC + d \notin Procs
  BY ThreadFacts
<1>3. NPROC + c # NPROC + d
  BY DEF CPUs
<1>4. cpu[c].ctx # 0 => cpu[c].ctx # cpu[d].ctx
  BY DEF OneCpu
<1> QED
  BY <1>1, <1>2, <1>3, <1>4

LEMMA AtIs ==
  ASSUME NPROC \in Nat, NCPU \in Nat, Typed, NEW c \in CPUs, NEW op
  PROVE  At(c, op) <=> HasOp(Code(c), 1, op)
<1>1. Code(c) \in Seq(Ops)
  BY ThreadFacts
<1>2. CASE Code(c) = <<>>
  BY <1>2, NoCode DEF At
<1>3. CASE Code(c) # <<>>
  <2>1. Code(c)[1] = Head(Code(c)) /\ Len(Code(c)) \in Nat /\ Len(Code(c)) # 0
    BY <1>1, <1>3, Uncons, LenProperties, EmptySeq
  <2>2. 1 \in 1..Len(Code(c))
    BY <2>1
  <2> QED
    BY <1>3, <2>1, <2>2 DEF At, HasOp
<1> QED
  BY <1>2, <1>3

LEMMA HeadOf ==
  ASSUME NEW t, NEW s \in Seq(Ops), Good(t, s), s # <<>>, NEW r \in Cpus, NEW L, NEW st,
         L \subseteq Locks, IF r.ctx = 0 THEN t \notin Procs ELSE t = r.ctx /\ t \in Procs,
         Runs(r, s, L, st)
  PROVE  Doing(t, Head(s), Tail(s), s, r, L, st)
<1> DEFINE o == Head(s)
<1> DEFINE v == Tail(s)
<1>1. o \in Ops /\ v \in Seq(Ops) /\ s = <<o>> \o v
  BY Uncons
<1> HIDE DEF o, v
<1>2. Fits(t, o, v) /\ Good(t, v)
  BY <1>1, ConsGood
<1>3. Pushed(t, o, v, s)
  BY <1>1, <1>2, Push
<1>4. Doing(t, o, v, s, r, L, st)
  BY <1>1, <1>2, <1>3 DEF Doing
<1> QED
  BY <1>4 DEF o, v

LEMMA AtHead ==
  ASSUME NPROC \in Nat, NCPU \in Nat, Inv, NEW c \in CPUs, Code(c) # <<>>
  PROVE  Doing(Thread(c), Head(Code(c)), Tail(Code(c)), Code(c), cpu[c], HeldBy(c), state)
<1> DEFINE s == Code(c)
<1>1. Typed /\ CodeOK /\ Running
  BY DEF Inv
<1>2. /\ s \in Seq(Ops) /\ Thread(c) \in Threads /\ cpu[c] \in Cpus
      /\ IF cpu[c].ctx = 0 THEN Thread(c) \notin Procs ELSE Thread(c) = cpu[c].ctx /\ Thread(c) \in Procs
  BY <1>1, ThreadFacts
<1>3. Good(Thread(c), s)
  BY <1>1, <1>2 DEF CodeOK, Code
<1>4. Runs(cpu[c], s, HeldBy(c), state) /\ HeldBy(c) \subseteq Locks
  BY <1>1 DEF Running, HeldBy
<1> HIDE DEF s
<1>5. Doing(Thread(c), Head(s), Tail(s), s, cpu[c], HeldBy(c), state)
  <2>1. s # <<>>
    BY DEF s
  <2> QED
    BY <2>1, <1>2, <1>3, <1>4, HeadOf
<1> QED
  BY <1>5 DEF s

\* A step of one CPU that stays in its thread.
LEMMA OneThread ==
  ASSUME NPROC \in Nat, NCPU \in Nat, Inv, NEW c \in CPUs,
         NEW s \in Seq(Ops), Good(Thread(c), s), Goes(c, s),
         NEW r \in Cpus, r.ctx = cpu[c].ctx, cpu' = [cpu EXCEPT ![c] = r],
         lock' \in [Locks -> {Nobody} \cup CPUs], state' \in [Procs -> {"RUNNABLE", "RUNNING", "SLEEPING"}],
         Runs(r, s, {l \in Locks : lock'[l] = c}, state'),
         \A d \in CPUs : d # c => {l \in Locks : lock'[l] = d} = HeldBy(d),
         \A p \in Procs : p # cpu[c].ctx => (state'[p] = "RUNNING" <=> state[p] = "RUNNING")
  PROVE  Inv'
<1>1. Typed /\ CodeOK /\ Running /\ Left /\ OffCpu /\ OneCpu
  BY DEF Inv
<1>2. /\ todo \in [Threads -> Seq(Ops)] /\ cpu \in [CPUs -> Cpus]
  BY <1>1 DEF Typed
<1>3. /\ Thread(c) \in Threads /\ cpu[c] \in Cpus
      /\ IF cpu[c].ctx = 0 THEN Thread(c) = NPROC + c /\ Thread(c) \notin Procs
                           ELSE Thread(c) = cpu[c].ctx /\ Thread(c) \in Procs
      /\ NPROC + c \notin Procs /\ NPROC + c \in Threads /\ Procs \subseteq Threads
  BY <1>1, ThreadFacts
<1>4. todo' = [todo EXCEPT ![Thread(c)] = s]
  BY DEF Goes
<1>5. /\ todo' \in [Threads -> Seq(Ops)] /\ todo'[Thread(c)] = s
      /\ \A t \in Threads : t # Thread(c) => todo'[t] = todo[t]
  BY <1>2, <1>3, <1>4
<1>6. /\ cpu' \in [CPUs -> Cpus] /\ cpu'[c] = r /\ \A d \in CPUs : d # c => cpu'[d] = cpu[d]
  BY <1>2
<1>7. \A d \in CPUs : cpu'[d].ctx = cpu[d].ctx
  BY <1>6
<1>8. \A d \in CPUs : Thread(d)' = Thread(d)
  BY <1>7 DEF Thread
<1>9. Typed'
  BY <1>5, <1>6 DEF Typed
<1>10. CodeOK'
  <2> SUFFICES ASSUME NEW t \in Threads PROVE Good(t, todo'[t])
    BY DEF CodeOK
  <2>1. CASE t = Thread(c)
    BY <2>1, <1>5
  <2>2. CASE t # Thread(c)
    BY <2>2, <1>1, <1>5 DEF CodeOK
  <2> QED
    BY <2>1, <2>2
<1>11. Running'
  <2> SUFFICES ASSUME NEW d \in CPUs
               PROVE  Runs(cpu'[d], todo'[Thread(d)'], {l \in Locks : lock'[l] = d}, state')
    BY DEF Running, HeldBy, Code
  <2>1. CASE d = c
    BY <2>1, <1>5, <1>6, <1>8
  <2>2. CASE d # c
    <3>1. Thread(d) # Thread(c) /\ Thread(d) \in Threads
      BY <2>2, <1>1, ThreadsApart, ThreadFacts
    <3>2. todo'[Thread(d)'] = Code(d) /\ cpu'[d] = cpu[d] /\ {l \in Locks : lock'[l] = d} = HeldBy(d)
      BY <2>2, <3>1, <1>5, <1>6, <1>8 DEF Code
    <3>3. Runs(cpu[d], Code(d), HeldBy(d), state)
      BY <1>1 DEF Running
    <3>4. cpu[d].ctx # 0 => (state'[cpu[d].ctx] = "RUNNING" <=> state[cpu[d].ctx] = "RUNNING")
      <4> SUFFICES ASSUME cpu[d].ctx # 0
                   PROVE  state'[cpu[d].ctx] = "RUNNING" <=> state[cpu[d].ctx] = "RUNNING"
        OBVIOUS
      <4>1. cpu[d].ctx \in Procs
        BY <1>1, ThreadFacts
      <4>2. cpu[d].ctx # cpu[c].ctx
        BY <1>1, <2>2 DEF OneCpu
      <4> QED
        BY <4>1, <4>2
    <3>5. StateFit(cpu[d], Code(d), state')
      BY <3>3, <3>4 DEF Runs, StateFit
    <3> QED
      BY <3>2, <3>3, <3>5 DEF Runs
  <2> QED
    BY <2>1, <2>2
<1>12. Left'
  <2> SUFFICES ASSUME NEW d \in CPUs, cpu'[d].ctx # 0
               PROVE  HasOp(todo'[NPROC + d], 1, "gone") /\ OwesAt(todo'[NPROC + d], 1) = {cpu'[d].ctx}
    BY DEF Left
  <2>1. cpu[d].ctx # 0 /\ NPROC + d \in Threads
    BY <1>1, <1>7, ThreadFacts
  <2>2. NPROC + d # Thread(c)
    <3>1. CASE d = c
      BY <3>1, <2>1, <1>3
    <3>2. CASE d # c
      BY <3>2, <1>1, ThreadsApart
    <3> QED
      BY <3>1, <3>2
  <2>3. todo'[NPROC + d] = todo[NPROC + d]
    BY <2>1, <2>2, <1>5
  <2> QED
    BY <2>1, <2>3, <1>1, <1>7 DEF Left
<1>13. OffCpu'
  <2> SUFFICES ASSUME NEW p \in Procs, \A d \in CPUs : cpu'[d].ctx # p
               PROVE  state'[p] # "RUNNING" /\ Parked(p)'
    BY DEF OffCpu
  <2>1. \A d \in CPUs : cpu[d].ctx # p
    BY <1>7
  <2>2. p # Thread(c) /\ p # cpu[c].ctx /\ p \in Threads
    BY <2>1, <1>3
  <2>3. todo'[p] = todo[p] /\ (state'[p] = "RUNNING" <=> state[p] = "RUNNING")
    BY <2>2, <1>5
  <2>4. state[p] # "RUNNING" /\ Parked(p)
    BY <2>1, <1>1 DEF OffCpu
  <2> QED
    BY <2>3, <2>4 DEF Parked
<1>14. OneCpu'
  BY <1>1, <1>7 DEF OneCpu
<1> QED
  BY <1>9, <1>10, <1>11, <1>12, <1>13, <1>14 DEF Inv

LEMMA SameLocks ==
  ASSUME NPROC \in Nat, NCPU \in Nat, Inv, NEW c \in CPUs,
         NEW s \in Seq(Ops), Good(Thread(c), s), Goes(c, s),
         NEW r \in Cpus, r.ctx = cpu[c].ctx, cpu' = [cpu EXCEPT ![c] = r], UNCHANGED lock,
         state' \in [Procs -> {"RUNNABLE", "RUNNING", "SLEEPING"}],
         Runs(r, s, HeldBy(c), state'),
         \A p \in Procs : p # cpu[c].ctx => (state'[p] = "RUNNING" <=> state[p] = "RUNNING")
  PROVE  Inv'
<1>1. lock' \in [Locks -> {Nobody} \cup CPUs]
  BY DEF Inv, Typed
<1>2. \A d \in CPUs : {l \in Locks : lock'[l] = d} = HeldBy(d)
  BY DEF HeldBy
<1> QED
  BY <1>1, <1>2, OneThread

LEMMA OnlyCpu ==
  ASSUME NPROC \in Nat, NCPU \in Nat, Inv, NEW c \in CPUs,
         NEW s \in Seq(Ops), Good(Thread(c), s), Goes(c, s),
         NEW r \in Cpus, r.ctx = cpu[c].ctx, cpu' = [cpu EXCEPT ![c] = r], UNCHANGED <<lock, state>>,
         Runs(r, s, HeldBy(c), state)
  PROVE  Inv'
<1>1. /\ state' \in [Procs -> {"RUNNABLE", "RUNNING", "SLEEPING"}]
      /\ state' = state /\ lock' = lock
  BY DEF Inv, Typed
<1>2. Runs(r, s, HeldBy(c), state')
  BY <1>1
<1> QED
  BY <1>1, <1>2, SameLocks

\* A thread is at an operation.
LEMMA Here ==
  ASSUME NPROC \in Nat, NCPU \in Nat, Inv, NEW c \in CPUs, NEW op, At(c, op)
  PROVE  /\ Doing(Thread(c), Head(Code(c)), Tail(Code(c)), Code(c), cpu[c], HeldBy(c), state)
         /\ Head(Code(c)).op = op /\ Tail(Code(c)) \in Seq(Ops) /\ Good(Thread(c), Tail(Code(c)))
         /\ cpu[c] \in Cpus /\ Head(Code(c)).arg = Arg(c)
         /\ Code(c) \in Seq(Ops) /\ Good(Thread(c), Code(c))
<1>1. Code(c) # <<>> /\ Head(Code(c)).op = op
  BY DEF At
<1>2. Doing(Thread(c), Head(Code(c)), Tail(Code(c)), Code(c), cpu[c], HeldBy(c), state)
  BY <1>1, AtHead
<1>3. Typed /\ CodeOK
  BY DEF Inv
<1>4. cpu[c] \in Cpus /\ Code(c) \in Seq(Ops) /\ Thread(c) \in Threads
  BY <1>3, ThreadFacts
<1>5. Good(Thread(c), Code(c))
  BY <1>3, <1>4 DEF CodeOK, Code
<1> QED
  BY <1>1, <1>2, <1>4, <1>5 DEF Doing, Arg

LEMMA SameCpu ==
  ASSUME NPROC \in Nat, NCPU \in Nat, Inv, NEW c \in CPUs, UNCHANGED cpu
  PROVE  cpu[c] \in Cpus /\ cpu' = [cpu EXCEPT ![c] = cpu[c]]
BY DEF Inv, Typed

LEMMA AcquireKeeps ==
  ASSUME NPROC \in Nat, NCPU \in Nat, Inv, NEW c \in CPUs, AcquireStep(c)
  PROVE  Inv'
<1> DEFINE t == Thread(c)
<1> DEFINE o == Head(Code(c))
<1> DEFINE v == Tail(Code(c))
<1> DEFINE u == <<Op("spin", Arg(c))>> \o v
<1> DEFINE r == PushOff(cpu[c])
<1>1. /\ Doing(t, o, v, Code(c), cpu[c], HeldBy(c), state)
      /\ o.op = "acquire" /\ o.arg = Arg(c)
  BY Here DEF AcquireStep
<1>2. Goes(c, u) /\ cpu' = [cpu EXCEPT ![c] = r] /\ UNCHANGED <<lock, state>>
  BY DEF AcquireStep, Begins
<1> HIDE DEF t, o, v, r
<1>3. u \in Seq(Ops) /\ Good(t, u) /\ PushOff(cpu[c]) \in Cpus /\ Runs(PushOff(cpu[c]), u, HeldBy(c), state)
  BY <1>1, AcquireFits
<1>4. r.ctx = cpu[c].ctx
  <2>1. cpu[c] \in Cpus /\ cpu[c].noff \in 0..2
    BY <1>1 DEF Doing, Cpus
  <2> QED
    BY <2>1, Zenon DEF r, PushOff, Cpus
<1> HIDE DEF u
<1> QED
  BY <1>2, <1>3, <1>4, OnlyCpu DEF t, r

LEMMA SpinKeeps ==
  ASSUME NPROC \in Nat, NCPU \in Nat, Inv, NEW c \in CPUs, Spin(c)
  PROVE  Inv'
<1> DEFINE t == Thread(c)
<1> DEFINE o == Head(Code(c))
<1> DEFINE v == Tail(Code(c))
<1>1. /\ Doing(t, o, v, Code(c), cpu[c], HeldBy(c), state)
      /\ o.op = "spin" /\ o.arg = Arg(c) /\ v \in Seq(Ops) /\ Good(t, v) /\ cpu[c] \in Cpus
  BY Here DEF Spin
<1>2. /\ Goes(c, v) /\ lock[o.arg] = Nobody /\ lock' = [lock EXCEPT ![o.arg] = c]
      /\ UNCHANGED <<cpu, state>>
  BY <1>1 DEF Spin, Proceeds
<1> HIDE DEF t, o, v
<1>3. Runs(cpu[c], v, HeldBy(c) \cup {o.arg}, state)
  BY <1>1, SpinFits
<1>4. o.arg \in Locks
  BY <1>1 DEF Doing, Fits, LockFits, OwesAt
<1>5. /\ lock \in [Locks -> {Nobody} \cup CPUs] /\ state \in [Procs -> {"RUNNABLE", "RUNNING", "SLEEPING"}]
      /\ cpu' = [cpu EXCEPT ![c] = cpu[c]] /\ Nobody \notin CPUs
  BY <1>2, SameCpu DEF Inv, Typed, Nobody, CPUs
<1>6. lock' \in [Locks -> {Nobody} \cup CPUs]
  BY <1>2, <1>4, <1>5
<1>7. {l \in Locks : lock'[l] = c} = HeldBy(c) \cup {o.arg}
  BY <1>2, <1>4, <1>5 DEF HeldBy
<1>8. \A d \in CPUs : d # c => {l \in Locks : lock'[l] = d} = HeldBy(d)
  BY <1>2, <1>4, <1>5 DEF HeldBy
<1>9. state' = state
  BY <1>2
<1>10. /\ v \in Seq(Ops) /\ Good(Thread(c), v) /\ Goes(c, v)
      /\ cpu[c] \in Cpus /\ cpu[c].ctx = cpu[c].ctx /\ cpu' = [cpu EXCEPT ![c] = cpu[c]]
      /\ state' \in [Procs -> {"RUNNABLE", "RUNNING", "SLEEPING"}]
      /\ Runs(cpu[c], v, {l \in Locks : lock'[l] = c}, state')
      /\ \A p \in Procs : p # cpu[c].ctx => (state'[p] = "RUNNING" <=> state[p] = "RUNNING")
  BY <1>1, <1>2, <1>3, <1>5, <1>7, <1>9 DEF t
<1> QED
  BY <1>6, <1>8, <1>10, OneThread

LEMMA ReleaseKeeps ==
  ASSUME NPROC \in Nat, NCPU \in Nat, Inv, NEW c \in CPUs, ReleaseStep(c)
  PROVE  Inv'
<1> DEFINE t == Thread(c)
<1> DEFINE o == Head(Code(c))
<1> DEFINE v == Tail(Code(c))
<1> DEFINE r == PopOff(cpu[c])
<1>1. /\ Doing(t, o, v, Code(c), cpu[c], HeldBy(c), state)
      /\ o.op = "release" /\ o.arg = Arg(c) /\ v \in Seq(Ops) /\ Good(t, v) /\ cpu[c] \in Cpus
  BY Here DEF ReleaseStep
<1>2. /\ Goes(c, v) /\ lock' = [lock EXCEPT ![o.arg] = Nobody] /\ cpu' = [cpu EXCEPT ![c] = r]
      /\ UNCHANGED state
  BY <1>1 DEF ReleaseStep, Proceeds
<1> HIDE DEF t, o, v
<1>3. /\ o.arg \in HeldBy(c) /\ o.arg \in Locks
      /\ r \in Cpus /\ r.ctx = cpu[c].ctx /\ Runs(r, v, HeldBy(c) \ {o.arg}, state)
  <2>1. Doing(t, o, v, Code(c), cpu[c], HeldBy(c), state) /\ o.op = "release"
    BY <1>1
  <2> DEFINE n == cpu[c]
  <2> DEFINE L == HeldBy(c)
  <2> DEFINE w == Code(c)
  <2>2. Doing(t, o, v, w, n, L, state) /\ o.op = "release"
    BY <2>1
  <2> HIDE DEF n, L, w, r
  <2>3. /\ o.arg \in L /\ o.arg \in Locks
        /\ PopOff(n) \in Cpus /\ PopOff(n).ctx = n.ctx /\ Runs(PopOff(n), v, L \ {o.arg}, state)
    BY <2>2, ReleaseFits
  <2> QED
    BY <2>3, Zenon DEF n, L, r
<1> HIDE DEF r
<1>4. /\ lock \in [Locks -> {Nobody} \cup CPUs] /\ state \in [Procs -> {"RUNNABLE", "RUNNING", "SLEEPING"}]
      /\ Nobody \notin CPUs /\ lock[o.arg] = c
  BY <1>3 DEF Inv, Typed, Nobody, CPUs, HeldBy
<1>5. lock' \in [Locks -> {Nobody} \cup CPUs]
  BY <1>2, <1>3, <1>4
<1>6. {l \in Locks : lock'[l] = c} = HeldBy(c) \ {o.arg}
  BY <1>2, <1>3, <1>4 DEF HeldBy
<1>7. \A d \in CPUs : d # c => {l \in Locks : lock'[l] = d} = HeldBy(d)
  BY <1>2, <1>3, <1>4 DEF HeldBy
<1>8. state' = state
  BY <1>2
<1>9. /\ v \in Seq(Ops) /\ Good(Thread(c), v) /\ Goes(c, v)
      /\ r \in Cpus /\ r.ctx = cpu[c].ctx /\ cpu' = [cpu EXCEPT ![c] = r]
      /\ state' \in [Procs -> {"RUNNABLE", "RUNNING", "SLEEPING"}]
      /\ Runs(r, v, {l \in Locks : lock'[l] = c}, state')
      /\ \A p \in Procs : p # cpu[c].ctx => (state'[p] = "RUNNING" <=> state[p] = "RUNNING")
  BY <1>1, <1>2, <1>3, <1>4, <1>6, <1>8 DEF t
<1> QED
  BY <1>5, <1>7, <1>9, OneThread

\* intr is set.
LEMMA CpuIntr ==
  ASSUME Inv, NEW c \in CPUs, NEW b \in BOOLEAN, cpu' = [cpu EXCEPT ![c].intr = b]
  PROVE  \E r \in Cpus : /\ cpu' = [cpu EXCEPT ![c] = r]
                         /\ r.intr = b /\ r.noff = cpu[c].noff /\ r.ctx = cpu[c].ctx /\ r.proc = cpu[c].proc
<1> DEFINE r == [cpu[c] EXCEPT !.intr = b]
<1>1. cpu \in [CPUs -> Cpus] /\ cpu[c] \in Cpus
  BY DEF Inv, Typed
<1>2. r \in Cpus /\ r.intr = b /\ r.noff = cpu[c].noff /\ r.ctx = cpu[c].ctx /\ r.proc = cpu[c].proc
  BY <1>1, SetIntr
<1>3. cpu' = [cpu EXCEPT ![c] = r]
  BY Zenon
<1> HIDE DEF r
<1> QED
  BY <1>2, <1>3

LEMMA SetStateKeeps ==
  ASSUME NPROC \in Nat, NCPU \in Nat, Inv, NEW c \in CPUs, SetState(c)
  PROVE  Inv'
<1> DEFINE t == Thread(c)
<1> DEFINE o == Head(Code(c))
<1> DEFINE v == Tail(Code(c))
<1>1. /\ Doing(t, o, v, Code(c), cpu[c], HeldBy(c), state)
      /\ o.op = "state" /\ o.arg = Arg(c) /\ v \in Seq(Ops) /\ Good(t, v) /\ cpu[c] \in Cpus
  BY Here DEF SetState
<1>2. Goes(c, v) /\ state' = [state EXCEPT ![t] = o.arg] /\ UNCHANGED <<cpu, lock>>
  BY <1>1 DEF SetState, Proceeds
<1>3. state \in [Procs -> {"RUNNABLE", "RUNNING", "SLEEPING"}] /\ cpu' = [cpu EXCEPT ![c] = cpu[c]]
  BY <1>2, SameCpu DEF Inv, Typed
<1> HIDE DEF t, o, v
<1>4. t \in Procs /\ cpu[c].ctx = t /\ o.arg \in {"RUNNABLE", "SLEEPING"}
  BY <1>1, SetStateIs
<1>5. /\ state' \in [Procs -> {"RUNNABLE", "RUNNING", "SLEEPING"}] /\ state'[t] = o.arg
      /\ \A p \in Procs : p # t => state'[p] = state[p]
  BY <1>2, <1>3, <1>4
<1>6. Runs(cpu[c], v, HeldBy(c), state')
  BY <1>1, <1>5, SetStateFits
<1>7. \A p \in Procs : p # cpu[c].ctx => (state'[p] = "RUNNING" <=> state[p] = "RUNNING")
  BY <1>4, <1>5
<1>8. Good(Thread(c), v) /\ lock' = lock
  BY <1>1, <1>2 DEF t
<1> QED
  BY <1>1, <1>2, <1>3, <1>5, <1>6, <1>7, <1>8, SameLocks

LEMMA ResumeKeeps ==
  ASSUME NPROC \in Nat, NCPU \in Nat, Inv, NEW c \in CPUs, Resume(c)
  PROVE  Inv'
<1> DEFINE t == Thread(c)
<1> DEFINE o == Head(Code(c))
<1> DEFINE v == Tail(Code(c))
<1>1. /\ Doing(t, o, v, Code(c), cpu[c], HeldBy(c), state)
      /\ o.op = "back" /\ o.arg = Arg(c) /\ v \in Seq(Ops) /\ Good(t, v) /\ cpu[c] \in Cpus
  BY Here DEF Resume
<1> DEFINE r == [cpu[c] EXCEPT !.intena = o.arg]
<1>2. Goes(c, v) /\ cpu' = [cpu EXCEPT ![c] = r] /\ UNCHANGED <<lock, state>>
  BY <1>1 DEF Resume, Proceeds, Back
<1>3. Good(Thread(c), v)
  BY <1>1 DEF t
<1> HIDE DEF t, o, v
<1>4. o.arg \in BOOLEAN
  BY <1>1 DEF Doing, Fits, ProcFits
<1>5. /\ r \in Cpus /\ r.intena = o.arg /\ r.intr = cpu[c].intr
      /\ r.noff = cpu[c].noff /\ r.ctx = cpu[c].ctx /\ r.proc = cpu[c].proc
  BY <1>1, <1>4, SetIntena
<1> HIDE DEF r
<1>6. Runs(r, v, HeldBy(c), state)
  BY <1>1, <1>5, ResumeFits
<1> QED
  BY <1>1, <1>2, <1>3, <1>5, <1>6, OnlyCpu

LEMMA GoneKeeps ==
  ASSUME NPROC \in Nat, NCPU \in Nat, Inv, NEW c \in CPUs, Gone(c)
  PROVE  Inv'
<1> DEFINE t == Thread(c)
<1> DEFINE o == Head(Code(c))
<1> DEFINE v == Tail(Code(c))
<1>1. /\ Doing(t, o, v, Code(c), cpu[c], HeldBy(c), state)
      /\ o.op = "gone" /\ o.arg = Arg(c) /\ v \in Seq(Ops) /\ Good(t, v) /\ cpu[c] \in Cpus
  BY Here DEF Gone
<1> DEFINE r == [cpu[c] EXCEPT !.proc = Nobody]
<1>2. Goes(c, v) /\ cpu' = [cpu EXCEPT ![c] = r] /\ UNCHANGED <<lock, state>>
  BY <1>1 DEF Gone, Proceeds
<1>3. Good(Thread(c), v)
  BY <1>1 DEF t
<1> HIDE DEF t, o, v
<1>4. Nobody \in 0..NPROC
  BY DEF Nobody
<1>5. /\ r \in Cpus /\ r.proc = Nobody /\ r.intr = cpu[c].intr
      /\ r.noff = cpu[c].noff /\ r.ctx = cpu[c].ctx
  BY <1>1, <1>4 DEF Cpus
<1> HIDE DEF r
<1>6. Runs(r, v, HeldBy(c), state)
  BY <1>1, <1>5, GoneFits
<1> QED
  BY <1>1, <1>2, <1>3, <1>5, <1>6, OnlyCpu

LEMMA WakeKeeps ==
  ASSUME NPROC \in Nat, NCPU \in Nat, Inv, NEW c \in CPUs, Wake(c)
  PROVE  Inv'
<1> DEFINE t == Thread(c)
<1> DEFINE o == Head(Code(c))
<1> DEFINE v == Tail(Code(c))
<1>1. /\ Doing(t, o, v, Code(c), cpu[c], HeldBy(c), state)
      /\ o.op = "wake" /\ o.arg = Arg(c) /\ v \in Seq(Ops) /\ Good(t, v) /\ cpu[c] \in Cpus
  BY Here DEF Wake
<1>2. /\ Goes(c, v) /\ UNCHANGED <<cpu, lock>>
      /\ state' = [state EXCEPT ![o.arg] = IF state[o.arg] = "SLEEPING" THEN "RUNNABLE" ELSE state[o.arg]]
  BY <1>1 DEF Wake, Proceeds
<1>3. state \in [Procs -> {"RUNNABLE", "RUNNING", "SLEEPING"}] /\ cpu' = [cpu EXCEPT ![c] = cpu[c]]
  BY <1>2, SameCpu DEF Inv, Typed
<1>4. Good(Thread(c), v) /\ lock' = lock
  BY <1>1, <1>2 DEF t
<1> HIDE DEF t, o, v
<1>5. o.arg \in Procs
  BY <1>1 DEF Doing, Fits, ProcFits
<1>6. /\ state' \in [Procs -> {"RUNNABLE", "RUNNING", "SLEEPING"}]
      /\ \A p \in Procs : state'[p] = "RUNNING" <=> state[p] = "RUNNING"
  BY <1>2, <1>3, <1>5
<1>7. Runs(cpu[c], v, HeldBy(c), state')
  BY <1>1, <1>6, PlainRuns
<1> QED
  BY <1>1, <1>2, <1>3, <1>4, <1>6, <1>7, SameLocks

LEMMA SretKeeps ==
  ASSUME NPROC \in Nat, NCPU \in Nat, Inv, NEW c \in CPUs, Sret(c)
  PROVE  Inv'
<1> DEFINE t == Thread(c)
<1> DEFINE o == Head(Code(c))
<1> DEFINE v == Tail(Code(c))
<1>1. /\ Doing(t, o, v, Code(c), cpu[c], HeldBy(c), state)
      /\ o.op \in {"on", "sret"} /\ v \in Seq(Ops) /\ Good(t, v) /\ cpu[c] \in Cpus
  BY Here DEF Sret
<1>2. Goes(c, v) /\ cpu' = [cpu EXCEPT ![c].intr = TRUE] /\ UNCHANGED <<lock, state>>
  BY DEF Sret, Proceeds
<1>3. Good(Thread(c), v)
  BY <1>1 DEF t
<1> HIDE DEF t, o, v
<1>4. PICK r \in Cpus : /\ cpu' = [cpu EXCEPT ![c] = r]
                        /\ r.intr = TRUE /\ r.noff = cpu[c].noff /\ r.ctx = cpu[c].ctx /\ r.proc = cpu[c].proc
  BY <1>2, CpuIntr
<1>5. Runs(r, v, HeldBy(c), state)
  BY <1>1, <1>4, SretFits
<1> QED
  BY <1>1, <1>2, <1>3, <1>4, <1>5, OnlyCpu

LEMMA IntrOffKeeps ==
  ASSUME NPROC \in Nat, NCPU \in Nat, Inv, NEW c \in CPUs, IntrOff(c)
  PROVE  Inv'
<1> DEFINE t == Thread(c)
<1> DEFINE o == Head(Code(c))
<1> DEFINE v == Tail(Code(c))
<1>1. /\ Doing(t, o, v, Code(c), cpu[c], HeldBy(c), state)
      /\ o.op \in {"off", "forkret"} /\ v \in Seq(Ops) /\ Good(t, v) /\ cpu[c] \in Cpus
  BY Here DEF IntrOff
<1>2. Goes(c, v) /\ cpu' = [cpu EXCEPT ![c].intr = FALSE] /\ UNCHANGED <<lock, state>>
  BY DEF IntrOff, Proceeds
<1>3. Good(Thread(c), v)
  BY <1>1 DEF t
<1> HIDE DEF t, o, v
<1>4. PICK r \in Cpus : /\ cpu' = [cpu EXCEPT ![c] = r]
                        /\ r.intr = FALSE /\ r.noff = cpu[c].noff /\ r.ctx = cpu[c].ctx /\ r.proc = cpu[c].proc
  BY <1>2, CpuIntr
<1>5. Runs(r, v, HeldBy(c), state)
  BY <1>1, <1>4, IntrOffFits
<1> QED
  BY <1>1, <1>2, <1>3, <1>4, <1>5, OnlyCpu


\* A thread that has nothing to do.
LEMMA Idle ==
  ASSUME NPROC \in Nat, NCPU \in Nat, Inv, NEW c \in CPUs
  PROVE  /\ cpu[c] \in Cpus /\ Code(c) \in Seq(Ops) /\ Good(Thread(c), Code(c))
         /\ Runs(cpu[c], Code(c), HeldBy(c), state)
         /\ IF cpu[c].ctx = 0 THEN Thread(c) \notin Procs ELSE Thread(c) = cpu[c].ctx /\ Thread(c) \in Procs
<1>1. Typed /\ CodeOK /\ Running
  BY DEF Inv
<1>2. /\ cpu[c] \in Cpus /\ Code(c) \in Seq(Ops) /\ Thread(c) \in Threads
      /\ IF cpu[c].ctx = 0 THEN Thread(c) \notin Procs ELSE Thread(c) = cpu[c].ctx /\ Thread(c) \in Procs
  BY <1>1, ThreadFacts
<1>3. Good(Thread(c), Code(c))
  BY <1>1, <1>2 DEF CodeOK, Code
<1>4. Runs(cpu[c], Code(c), HeldBy(c), state)
  BY <1>1 DEF Running
<1> QED
  BY <1>2, <1>3, <1>4

LEMMA PassKeeps ==
  ASSUME NPROC \in Nat, NCPU \in Nat, Inv, NEW c \in CPUs, PassOver(c)
  PROVE  Inv'
<1> DEFINE t == Thread(c)
<1> DEFINE o == Head(Code(c))
<1> DEFINE v == Tail(Code(c))
<1> DEFINE w == Tail(v)
<1>1. /\ Doing(t, o, v, Code(c), cpu[c], HeldBy(c), state)
      /\ o.op = "pick" /\ v \in Seq(Ops) /\ Good(t, v) /\ cpu[c] \in Cpus
      /\ Code(c) \in Seq(Ops) /\ Good(t, Code(c))
  BY Here DEF PassOver
<1>2. Goes(c, w) /\ UNCHANGED <<cpu, lock, state>>
  BY DEF PassOver
<1>3. t = Thread(c)
  OBVIOUS
<1> HIDE DEF t, o, v
<1>4. v # <<>> /\ t \notin Procs /\ v[1] = Op("gone", 0)
  <2>1. t \notin Procs /\ 2 <= Len(v) /\ v[1] = Op("gone", 0)
    BY <1>1 DEF Doing, Fits, ProcFits
  <2> QED
    BY <2>1, LenProperties, EmptySeq
<1>5. Runs(cpu[c], v, HeldBy(c), state)
  BY <1>1, PlainRuns
<1>6. Doing(t, Head(v), w, v, cpu[c], HeldBy(c), state)
  <2>1. HeldBy(c) \subseteq Locks /\ (IF cpu[c].ctx = 0 THEN t \notin Procs ELSE t = cpu[c].ctx /\ t \in Procs)
    BY <1>1 DEF Doing
  <2> QED
    BY <1>1, <1>4, <1>5, <2>1, HeadOf
<1>7. Head(v).op = "gone"
  BY <1>1, <1>4, Uncons DEF Op
<1> HIDE DEF w
<1>8. w \in Seq(Ops) /\ Good(t, w)
  BY <1>6 DEF Doing
<1>9. LocksFit(w, HeldBy(c)) /\ NoffFit(cpu[c], w)
  <2>1. Head(v).op \notin Unlocking
    BY <1>7 DEF Unlocking
  <2> QED
    BY <1>6, <2>1, Plain
<1>10. cpu[c].ctx = 0 /\ cpu[c].proc = 0
  <2>1. cpu[c].ctx = 0 /\ StateFit(cpu[c], Code(c), state)
    BY <1>1, <1>4 DEF Doing, Runs
  <2>2. ~HasOp(Code(c), 1, "gone")
    BY <1>1, DoingFacts
  <2> QED
    BY <2>1, <2>2 DEF StateFit
<1>11. StateFit(cpu[c], w, state) /\ IntrFit(cpu[c], w)
  BY <1>10 DEF StateFit, IntrFit
<1>12. /\ Good(Thread(c), w) /\ cpu' = [cpu EXCEPT ![c] = cpu[c]]
       /\ Runs(cpu[c], w, HeldBy(c), state)
  BY <1>2, <1>3, <1>8, <1>9, <1>11, SameCpu DEF Runs
<1> QED
  BY <1>1, <1>2, <1>8, <1>12, OnlyCpu

LEMMA SyscallKeeps ==
  ASSUME NPROC \in Nat, NCPU \in Nat, Inv, NEW c \in CPUs, Syscall(c)
  PROVE  Inv'
<1>1. cpu[c].ctx # 0 /\ Code(c) = <<>>
  BY DEF Syscall, InUser
<1>2. Goes(c, SysSleep) /\ cpu' = [cpu EXCEPT ![c].intr = FALSE] /\ UNCHANGED <<lock, state>>
  BY DEF Syscall
<1>3. /\ cpu[c] \in Cpus /\ Runs(cpu[c], <<>>, HeldBy(c), state)
      /\ Thread(c) \in Procs /\ cpu[c].ctx = Thread(c)
  BY <1>1, Idle
<1>4. PICK r \in Cpus : /\ cpu' = [cpu EXCEPT ![c] = r]
                        /\ r.intr = FALSE /\ r.noff = cpu[c].noff /\ r.ctx = cpu[c].ctx /\ r.proc = cpu[c].proc
  BY <1>2, CpuIntr
<1>5. SysSleep \in Seq(Ops) /\ Good(Thread(c), SysSleep) /\ Runs(r, SysSleep, HeldBy(c), state)
  BY <1>3, <1>4, SyscallFits
<1> QED
  BY <1>2, <1>4, <1>5, OnlyCpu

LEMMA LoopInv ==
  ASSUME NPROC \in Nat, NCPU \in Nat, Inv, NEW c \in CPUs, Loop(c)
  PROVE  Inv'
<1>1. cpu[c].ctx = 0 /\ Code(c) = <<>>
  BY DEF Loop
<1>2. Goes(c, Scheduler) /\ cpu' = [cpu EXCEPT ![c].intr = TRUE] /\ UNCHANGED <<lock, state>>
  BY DEF Loop
<1>3. cpu[c] \in Cpus /\ Runs(cpu[c], <<>>, HeldBy(c), state) /\ Thread(c) \notin Procs
  BY <1>1, Idle
<1>4. PICK r \in Cpus : /\ cpu' = [cpu EXCEPT ![c] = r]
                        /\ r.intr = TRUE /\ r.noff = cpu[c].noff /\ r.ctx = cpu[c].ctx /\ r.proc = cpu[c].proc
  BY <1>2, CpuIntr
<1>5. Scheduler \in Seq(Ops) /\ Good(Thread(c), Scheduler) /\ Runs(r, Scheduler, HeldBy(c), state)
  BY <1>1, <1>3, <1>4, LoopFits
<1> QED
  BY <1>2, <1>4, <1>5, OnlyCpu

LEMMA InterruptKeeps ==
  ASSUME NPROC \in Nat, NCPU \in Nat, Inv, NEW c \in CPUs, Interrupt(c)
  PROVE  Inv'
<1> DEFINE u == Timer(c) \o Code(c)
<1>1. Goes(c, u) /\ cpu' = [cpu EXCEPT ![c].intr = FALSE] /\ UNCHANGED <<lock, state>> /\ cpu[c].intr
  BY DEF Interrupt
<1>2. /\ cpu[c] \in Cpus /\ Code(c) \in Seq(Ops) /\ Good(Thread(c), Code(c))
      /\ Runs(cpu[c], Code(c), HeldBy(c), state)
      /\ IF cpu[c].ctx = 0 THEN Thread(c) \notin Procs ELSE Thread(c) = cpu[c].ctx /\ Thread(c) \in Procs
  BY Idle
<1>3. PICK r \in Cpus : /\ cpu' = [cpu EXCEPT ![c] = r]
                        /\ r.intr = FALSE /\ r.noff = cpu[c].noff /\ r.ctx = cpu[c].ctx /\ r.proc = cpu[c].proc
  BY <1>1, CpuIntr
<1>4. cpu[c].intr = TRUE
  <2>1. cpu[c].intr \in BOOLEAN
    BY <1>2 DEF Cpus
  <2> QED
    BY <1>1, <2>1
<1>5. u \in Seq(Ops) /\ Good(Thread(c), u) /\ Runs(r, u, HeldBy(c), state)
  BY <1>2, <1>3, <1>4, TimerFits
<1> HIDE DEF u
<1> QED
  BY <1>1, <1>3, <1>5, OnlyCpu

LEMMA TickKeeps ==
  ASSUME NPROC \in Nat, NCPU \in Nat, Inv, NEW c \in CPUs, Tick(c)
  PROVE  Inv'
<1> DEFINE t == Thread(c)
<1> DEFINE o == Head(Code(c))
<1> DEFINE v == Tail(Code(c))
<1>1. /\ Doing(t, o, v, Code(c), cpu[c], HeldBy(c), state)
      /\ o.op = "tick" /\ v \in Seq(Ops) /\ Good(t, v) /\ cpu[c] \in Cpus
      /\ Code(c) \in Seq(Ops) /\ Good(t, Code(c))
  BY Here DEF Tick
<1> DEFINE p == cpu[c].proc
<1>2. /\ Goes(c, (IF p # Nobody /\ state[p] = "RUNNING" THEN Yield(p) ELSE <<>>) \o v)
      /\ UNCHANGED <<cpu, lock, state>>
  BY DEF Tick, Begins
<1>3. t = Thread(c) /\ cpu' = [cpu EXCEPT ![c] = cpu[c]]
  BY <1>2, SameCpu
<1> HIDE DEF t, o, v
<1>4. CASE p # Nobody /\ state[p] = "RUNNING"
  <2>1. t \in Procs /\ p = t
    <3>1. StateFit(cpu[c], Code(c), state) /\ ~HasOp(Code(c), 1, "gone")
      BY <1>1, DoingFacts DEF Doing, Runs
    <3>2. cpu[c].ctx # 0 /\ cpu[c].proc = cpu[c].ctx
      BY <3>1, <1>4 DEF StateFit, Nobody
    <3> QED
      BY <3>2, <1>1 DEF Doing
  <2>2. Yield(t) \o v \in Seq(Ops) /\ Good(t, Yield(t) \o v) /\ Runs(cpu[c], Yield(t) \o v, HeldBy(c), state)
    BY <1>1, <2>1, YieldFits
  <2>3. Goes(c, Yield(t) \o v)
    BY <1>2, <1>4, <2>1
  <2> DEFINE u == Yield(t) \o v
  <2> HIDE DEF u
  <2>4. u \in Seq(Ops) /\ Good(Thread(c), u) /\ Runs(cpu[c], u, HeldBy(c), state) /\ Goes(c, u)
    BY <2>2, <2>3, <1>3 DEF u
  <2> QED
    BY <2>4, <1>1, <1>2, <1>3, OnlyCpu
<1>5. CASE ~(p # Nobody /\ state[p] = "RUNNING")
  <2>1. Goes(c, v)
    BY <1>1, <1>2, <1>5, ConcatEmptySeq
  <2>2. Runs(cpu[c], v, HeldBy(c), state)
    BY <1>1, PlainRuns
  <2> QED
    BY <2>1, <2>2, <1>1, <1>2, <1>3, OnlyCpu
<1> QED
  BY <1>4, <1>5

LEMMA TestKeeps ==
  ASSUME NPROC \in Nat, NCPU \in Nat, Inv, NEW c \in CPUs, Test(c)
  PROVE  Inv'
<1> DEFINE t == Thread(c)
<1> DEFINE o == Head(Code(c))
<1> DEFINE v == Tail(Code(c))
<1>1. /\ Doing(t, o, v, Code(c), cpu[c], HeldBy(c), state)
      /\ o.op = "test" /\ v \in Seq(Ops) /\ Good(t, v) /\ cpu[c] \in Cpus
      /\ Code(c) \in Seq(Ops) /\ Good(t, Code(c))
  BY Here DEF Test
<1>2. Goes(c, v) \/ Goes(c, Sleep(cpu[c].proc, tickslock) \o Code(c))
  BY DEF Test, Proceeds
<1>3. t = Thread(c) /\ cpu' = [cpu EXCEPT ![c] = cpu[c]] /\ UNCHANGED <<lock, state>>
  BY SameCpu DEF Test
<1> HIDE DEF t, o, v
<1>4. CASE Goes(c, v)
  <2>1. Runs(cpu[c], v, HeldBy(c), state)
    BY <1>1, PlainRuns
  <2> QED
    BY <1>4, <2>1, <1>1, <1>3, OnlyCpu
<1>5. CASE Goes(c, Sleep(cpu[c].proc, tickslock) \o Code(c))
  <2>1. t \in Procs /\ cpu[c].proc = t
    <3>1. t \in Procs
      BY <1>1 DEF Doing, Fits, ProcFits
    <3>2. cpu[c].ctx = t /\ cpu[c].ctx # 0 /\ StateFit(cpu[c], Code(c), state)
      BY <3>1, <1>1 DEF Doing, Runs, Procs
    <3> QED
      BY <3>1, <3>2 DEF StateFit
  <2> DEFINE u == Sleep(t, tickslock) \o Code(c)
  <2>2. u \in Seq(Ops) /\ Good(t, u) /\ Runs(cpu[c], u, HeldBy(c), state)
    BY <1>1, <2>1, SleepFits
  <2>3. Goes(c, u)
    BY <1>5, <2>1
  <2> HIDE DEF u
  <2>4. Good(Thread(c), u)
    BY <2>2, <1>3
  <2> QED
    BY <2>2, <2>3, <2>4, <1>1, <1>3, OnlyCpu
<1> QED
  BY <1>2, <1>4, <1>5

-----------------------------------------------------------------------------
(* What a step from thread to thread does.                                  *)

LEMMA SchedIs ==
  ASSUME NPROC \in Nat, NEW t, NEW o, NEW v, NEW s, NEW r, NEW L, NEW st, Doing(t, o, v, s, r, L, st),
         o.op = "sched"
  PROVE  /\ t \in Procs /\ r.ctx = t /\ r.proc = t /\ st[t] # "RUNNING" /\ L = {t}
         /\ r.noff = 1 /\ ~r.intr
<1>1. o.op \notin Unlocking /\ o.op \notin Flags /\ o.op # "back"
  BY DEF Unlocking, Flags
<1>2. t \in Procs /\ OwesAt(v, 1) = {t} /\ ~HasOp(v, 1, "sched") /\ ~HasOp(v, 1, "spin")
  BY DEF Doing, Fits, LockFits, ProcFits
<1>3. r.ctx = t /\ r.ctx # 0 /\ r \in Cpus /\ Runs(r, s, L, st)
  BY <1>2 DEF Doing, Procs
<1>4. /\ L = {t} /\ r.noff = Cardinality(L) /\ NoffFit(r, s)
      /\ HasOp(s, 1, "sched") /\ ~HasOp(s, 1, "back")
      /\ \A f \in Flags : FlagAt(s, 1, f) <=> FlagAt(v, 1, f)
  <2>1. OwesAt(v, 1) = L /\ r.noff = Cardinality(L) /\ NoffFit(r, s)
    BY <1>1, DoingFacts DEF Unlocking
  <2>2. HasOp(s, 1, "sched") /\ ~HasOp(s, 1, "back")
    BY <1>1, DoingFacts
  <2>3. \A f \in Flags : FlagAt(s, 1, f) <=> FlagAt(v, 1, f)
    BY <1>1, DoingFacts
  <2> QED
    BY <2>1, <2>2, <2>3, <1>2
<1>5. r.noff = 1
  BY <1>4, FS_Singleton
<1>6. ~r.intr
  BY <1>4, <1>5 DEF NoffFit
<1>7. r.proc = t /\ st[t] # "RUNNING"
  BY <1>3, <1>4 DEF Runs, StateFit
<1> QED
  BY <1>2, <1>3, <1>4, <1>5, <1>6, <1>7

LEMMA SchedBack ==
  ASSUME NPROC \in Nat, NEW t, NEW o, NEW v, NEW s, NEW r, NEW L, NEW st, Doing(t, o, v, s, r, L, st),
         o.op = "sched"
  PROVE  \E u : /\ u = <<Op("back", r.intena)>> \o v
                /\ u \in Seq(Ops) /\ Good(t, u) /\ OwesAt(u, 1) = {t} /\ HasOp(u, 1, "back")
<1> DEFINE b == Op("back", r.intena)
<1>1. o.op \notin Unlocking /\ o.op \notin Flags /\ o.op # "back"
  BY DEF Unlocking, Flags
<1>2. t \in Procs /\ OwesAt(v, 1) = {t} /\ ~HasOp(v, 1, "sched") /\ ~HasOp(v, 1, "spin")
  BY DEF Doing, Fits, LockFits, ProcFits
<1>3. r.ctx = t /\ r.ctx # 0 /\ r \in Cpus /\ Runs(r, s, L, st)
  BY <1>2 DEF Doing, Procs
<1>4. /\ L = {t} /\ r.noff = Cardinality(L) /\ NoffFit(r, s)
      /\ HasOp(s, 1, "sched") /\ ~HasOp(s, 1, "back")
      /\ \A f \in Flags : FlagAt(s, 1, f) <=> FlagAt(v, 1, f)
  <2>1. OwesAt(v, 1) = L /\ r.noff = Cardinality(L) /\ NoffFit(r, s)
    BY <1>1, DoingFacts DEF Unlocking
  <2>2. HasOp(s, 1, "sched") /\ ~HasOp(s, 1, "back")
    BY <1>1, DoingFacts
  <2>3. \A f \in Flags : FlagAt(s, 1, f) <=> FlagAt(v, 1, f)
    BY <1>1, DoingFacts
  <2> QED
    BY <2>1, <2>2, <2>3, <1>2
<1>5. r.noff = 1
  BY SchedIs
<1>8. ~FlagAt(v, 1, "on") /\ ~FlagAt(v, 1, "forkret")
  BY <1>1 DEF Doing, Fits, FlagFits
<1>9. r.intena \in BOOLEAN /\ Saved(r) = r.intena
  BY <1>3, <1>5 DEF Cpus, Saved
<1>10. r.intena = ~FlagAt(v, 1, "sret")
  <2>1. IntrFit(r, s)
    BY <1>3 DEF Runs
  <2>2. ASSUME FlagAt(v, 1, "sret") PROVE ~r.intena
    <3>1. FlagAt(s, 1, "sret")
      BY <2>2, <1>4 DEF Flags
    <3> QED
      BY <3>1, <2>1, <1>3, <1>4, <1>9 DEF IntrFit
  <2>3. ASSUME ~FlagAt(v, 1, "sret") PROVE r.intena
    <3>1. \A f \in Flags \ {"off"} : ~FlagAt(s, 1, f)
      BY <2>3, <1>4, <1>8 DEF Flags
    <3> QED
      BY <3>1, <2>1, <1>3, <1>4, <1>9 DEF IntrFit
  <2>4. FlagAt(v, 1, "sret") \in BOOLEAN
    BY DEF FlagAt
  <2> QED
    BY <2>2, <2>3, <2>4, <1>9
<1>11. b \in Ops /\ b.op = "back" /\ b.arg = r.intena
  <2>1. "back" \in Names
    BY DEF Names
  <2> QED
    BY <2>1, <1>9, OtherOps
<1>12. t \in Locks
  BY <1>2, LockFacts
<1> HIDE DEF b
<1>13. Fits(t, b, v)
  BY <1>2, <1>8, <1>10, <1>11, <1>12 DEF Fits, LockFits, FlagFits, ProcFits, Owed, Flags
<1> DEFINE u == <<b>> \o v
<1>14. Pushed(t, b, v, u)
  BY <1>11, <1>13, Push DEF Doing
<1>16. u = <<Op("back", r.intena)>> \o v
  BY DEF b
<1> HIDE DEF u
<1>15. u \in Seq(Ops) /\ Good(t, u) /\ OwesAt(u, 1) = {t} /\ HasOp(u, 1, "back")
  BY <1>2, <1>11, <1>14 DEF Pushed, Owed
<1> QED
  BY <1>15, <1>16

LEMMA SchedKeeps ==
  ASSUME NPROC \in Nat, NCPU \in Nat, Inv, NEW c \in CPUs, SchedStep(c)
  PROVE  Inv'
<1> DEFINE t == Thread(c)
<1> DEFINE o == Head(Code(c))
<1> DEFINE v == Tail(Code(c))
<1> DEFINE u == <<Op("back", cpu[c].intena)>> \o v
<1> DEFINE r == [cpu[c] EXCEPT !.ctx = 0]
<1>1. Typed /\ CodeOK /\ Running /\ Left /\ OffCpu /\ OneCpu
  BY DEF Inv
<1>2. Doing(t, o, v, Code(c), cpu[c], HeldBy(c), state) /\ o.op = "sched" /\ cpu[c] \in Cpus
  BY Here DEF SchedStep
<1>3. todo' = [todo EXCEPT ![t] = u] /\ cpu' = [cpu EXCEPT ![c] = r] /\ lock' = lock /\ state' = state
  BY DEF SchedStep, Begins, Goes
<1> HIDE DEF o, v
<1>4. /\ u \in Seq(Ops) /\ Good(t, u) /\ OwesAt(u, 1) = {t} /\ HasOp(u, 1, "back")
      /\ t \in Procs /\ cpu[c].ctx = t /\ cpu[c].proc = t /\ state[t] # "RUNNING" /\ HeldBy(c) = {t}
      /\ cpu[c].noff = 1 /\ ~cpu[c].intr
  <2>1. u = <<Op("back", cpu[c].intena)>> \o v
    OBVIOUS
  <2> HIDE DEF u, t, r
  <2>2. u \in Seq(Ops) /\ Good(t, u) /\ OwesAt(u, 1) = {t} /\ HasOp(u, 1, "back")
    <3> DEFINE n == cpu[c]
    <3> DEFINE b == <<Op("back", n.intena)>> \o v
    <3> DEFINE L == HeldBy(c)
    <3> DEFINE w == Code(c)
    <3>1. Doing(t, o, v, w, n, L, state) /\ o.op = "sched"
      BY <1>2
    <3>2. u = b
      BY <2>1
    <3> HIDE DEF n, L, w
    <3>3. \E x : /\ x = b
                 /\ x \in Seq(Ops) /\ Good(t, x) /\ OwesAt(x, 1) = {t} /\ HasOp(x, 1, "back")
      BY <3>1, SchedBack
    <3> HIDE DEF b
    <3> QED
      BY <3>2, <3>3
  <2>3. /\ t \in Procs /\ cpu[c].ctx = t /\ cpu[c].proc = t /\ state[t] # "RUNNING" /\ HeldBy(c) = {t}
        /\ cpu[c].noff = 1 /\ ~cpu[c].intr
    BY <1>2, SchedIs
  <2> QED
    BY <2>2, <2>3
<1> HIDE DEF u, t
<1>5. t # 0 /\ t \in Threads /\ NPROC + c # t /\ NPROC + c \in Threads /\ Procs \subseteq Threads /\ 0 \in 0..NPROC
  BY <1>1, <1>4, ThreadFacts DEF Procs
<1>6. /\ r \in Cpus /\ r.ctx = 0 /\ r.proc = t /\ r.noff = 1 /\ ~r.intr
  BY <1>2, <1>4, <1>5 DEF Cpus
<1> HIDE DEF r
<1>7. /\ todo' \in [Threads -> Seq(Ops)] /\ todo'[t] = u
      /\ \A x \in Threads : x # t => todo'[x] = todo[x]
  BY <1>1, <1>3, <1>4, <1>5 DEF Typed
<1>8. /\ cpu' \in [CPUs -> Cpus] /\ cpu'[c] = r /\ \A d \in CPUs : d # c => cpu'[d] = cpu[d]
  BY <1>1, <1>3, <1>6 DEF Typed
<1>9. Thread(c)' = NPROC + c /\ \A d \in CPUs : d # c => Thread(d)' = Thread(d)
  BY <1>6, <1>8 DEF Thread
<1>10. \A d \in CPUs : d # c => Thread(d) # t /\ NPROC + d # t /\ cpu[d].ctx # t /\ Thread(d) \in Threads
  <2> SUFFICES ASSUME NEW d \in CPUs, d # c
               PROVE  Thread(d) # t /\ NPROC + d # t /\ cpu[d].ctx # t /\ Thread(d) \in Threads
    OBVIOUS
  <2>1. Thread(c) # Thread(d) /\ NPROC + d # Thread(c) /\ Thread(d) \in Threads
    BY <1>1, ThreadsApart, ThreadFacts
  <2> QED
    BY <2>1, <1>1, <1>4, <1>5 DEF OneCpu, t
<1>11. HasOp(todo[NPROC + c], 1, "gone") /\ OwesAt(todo[NPROC + c], 1) = {t}
  BY <1>1, <1>4, <1>5 DEF Left
<1>12. Typed'
  BY <1>1, <1>3, <1>7, <1>8 DEF Typed
<1>13. CodeOK'
  <2> SUFFICES ASSUME NEW x \in Threads PROVE Good(x, todo'[x])
    BY DEF CodeOK
  <2>1. CASE x = t
    BY <2>1, <1>4, <1>7
  <2>2. CASE x # t
    BY <2>2, <1>1, <1>7 DEF CodeOK
  <2> QED
    BY <2>1, <2>2
<1>14. Running'
  <2> SUFFICES ASSUME NEW d \in CPUs
               PROVE  Runs(cpu'[d], todo'[Thread(d)'], {l \in Locks : lock'[l] = d}, state')
    BY DEF Running, HeldBy, Code
  <2>1. {l \in Locks : lock'[l] = d} = HeldBy(d)
    BY <1>3 DEF HeldBy
  <2>2. CASE d = c
    <3> DEFINE s == todo[NPROC + c]
    <3>1. cpu'[d] = r /\ todo'[Thread(d)'] = s
      BY <2>2, <1>5, <1>7, <1>8, <1>9
    <3>2. HasOp(s, 1, "gone") /\ ~HasOp(s, 1, "spin") /\ OwesAt(s, 1) = {t}
      BY <1>11 DEF HasOp
    <3> HIDE DEF s
    <3>3. Cardinality({t}) = 1
      BY FS_Singleton
    <3>4. NoffFit(r, s)
      BY <3>2, <3>3, <1>6 DEF NoffFit
    <3>5. LocksFit(s, HeldBy(c)) /\ StateFit(r, s, state) /\ IntrFit(r, s)
      BY <3>2, <1>4, <1>6 DEF LocksFit, StateFit, IntrFit
    <3> QED
      BY <3>1, <3>4, <3>5, <2>1, <2>2, <1>3 DEF Runs
  <2>3. CASE d # c
    <3>1. cpu'[d] = cpu[d] /\ todo'[Thread(d)'] = Code(d)
      BY <2>3, <1>7, <1>8, <1>9, <1>10 DEF Code
    <3> QED
      BY <3>1, <2>1, <1>1, <1>3 DEF Running
  <2> QED
    BY <2>2, <2>3
<1>15. Left'
  <2> SUFFICES ASSUME NEW d \in CPUs, cpu'[d].ctx # 0
               PROVE  HasOp(todo'[NPROC + d], 1, "gone") /\ OwesAt(todo'[NPROC + d], 1) = {cpu'[d].ctx}
    BY DEF Left
  <2>1. d # c /\ cpu'[d] = cpu[d]
    BY <1>6, <1>8
  <2>2. NPROC + d \in Threads
    BY <1>1, ThreadFacts
  <2>3. todo'[NPROC + d] = todo[NPROC + d]
    BY <2>1, <2>2, <1>7, <1>10
  <2> QED
    BY <2>1, <2>3, <1>1 DEF Left
<1>16. OffCpu'
  <2> SUFFICES ASSUME NEW p \in Procs, \A d \in CPUs : cpu'[d].ctx # p
               PROVE  state'[p] # "RUNNING" /\ Parked(p)'
    BY DEF OffCpu
  <2>1. CASE p = t
    BY <2>1, <1>3, <1>4, <1>7 DEF Parked
  <2>2. CASE p # t
    <3>1. \A d \in CPUs : cpu[d].ctx # p
      BY <2>2, <1>4, <1>8
    <3>2. todo'[p] = todo[p] /\ state[p] # "RUNNING" /\ Parked(p)
      BY <2>2, <3>1, <1>1, <1>5, <1>7 DEF OffCpu
    <3> QED
      BY <3>2, <1>3 DEF Parked
  <2> QED
    BY <2>1, <2>2
<1>17. OneCpu'
  <2> SUFFICES ASSUME NEW d \in CPUs, NEW e \in CPUs, d # e, cpu'[d].ctx # 0 PROVE cpu'[d].ctx # cpu'[e].ctx
    BY DEF OneCpu
  <2>1. d # c
    BY <1>6, <1>8
  <2> QED
    BY <2>1, <1>1, <1>6, <1>8 DEF OneCpu
<1> QED
  BY <1>12, <1>13, <1>14, <1>15, <1>16, <1>17 DEF Inv

LEMMA PickIs ==
  ASSUME NPROC \in Nat, NEW t, NEW o, NEW v, NEW s, NEW r, NEW L, NEW st, Doing(t, o, v, s, r, L, st),
         o.op = "pick"
  PROVE  /\ t \notin Procs /\ o.arg \in Procs /\ L = {o.arg} /\ r.ctx = 0 /\ r.noff = 1 /\ ~r.intr
         /\ OwesAt(v, 1) = {o.arg} /\ HasOp(v, 1, "gone")
<1>1. o.op \notin Unlocking
  BY DEF Unlocking
<1>2. t \notin Procs /\ o.arg \in Procs /\ OwesAt(v, 1) = {o.arg} /\ 2 <= Len(v) /\ v[1] = Op("gone", 0)
  BY DEF Doing, Fits, ProcFits
<1>3. L = {o.arg} /\ r.noff = Cardinality(OwesAt(v, 1)) /\ NoffFit(r, v)
  <2>1. LocksFit(v, L) /\ NoffFit(r, v) /\ r.noff = Cardinality(OwesAt(v, 1))
    BY <1>1, Plain
  <2> QED
    BY <2>1, <1>2 DEF LocksFit
<1>4. r.noff = 1
  BY <1>2, <1>3, FS_Singleton
<1>5. ~r.intr
  BY <1>3, <1>4 DEF NoffFit
<1>6. HasOp(v, 1, "gone")
  <2>1. v \in Seq(Ops) /\ Len(v) \in Nat
    BY LenProperties DEF Doing
  <2> QED
    BY <2>1, <1>2 DEF HasOp, Op
<1>7. r.ctx = 0
  BY <1>2 DEF Doing
<1> QED
  BY <1>2, <1>3, <1>4, <1>5, <1>6, <1>7

\* A process that comes back to a CPU, with its lock.
LEMMA PickFits ==
  ASSUME NPROC \in Nat, NEW q \in Procs, NEW w \in Seq(Ops), NEW r \in Cpus, NEW st,
         HasOp(w, 1, "back") \/ (HasOp(w, 1, "release") /\ HasOp(w, 2, "forkret")), OwesAt(w, 1) = {q},
         r.proc = q, r.ctx = q, r.noff = 1, ~r.intr, st[q] = "RUNNING"
  PROVE  Runs(r, w, {q}, st)
<1>1. ~HasOp(w, 1, "spin") /\ ~HasOp(w, 1, "sched")
  BY DEF HasOp
<1>2. LocksFit(w, {q})
  BY DEF LocksFit
<1>3. NoffFit(r, w)
  <2>1. Cardinality({q}) = 1
    BY FS_Singleton
  <2>2. Cardinality(OwesAt(w, 1)) = 1 /\ r.noff = 1 /\ ~r.intr
    BY <2>1
  <2>3. r.noff = Cardinality(OwesAt(w, 1)) + 0
    BY <2>2
  <2> QED
    BY ONLY <1>1, <2>2, <2>3, Zenon DEF NoffFit
<1>4. StateFit(r, w, st)
  <2>1. r.ctx # 0
    BY DEF Procs
  <2> QED
    BY <1>1, <2>1 DEF StateFit
<1>5. IntrFit(r, w)
  <2>1. CASE HasOp(w, 1, "back")
    BY <2>1 DEF IntrFit
  <2>2. CASE HasOp(w, 1, "release") /\ HasOp(w, 2, "forkret")
    <3>1. FlagAt(w, 1, "forkret")
      <4>1. w[1].op \notin Flags /\ 2 \in 1..Len(w) /\ w[2].op = "forkret"
        BY <2>2 DEF HasOp, Flags
      <4>2. 2 \in 1..Len(w) /\ \A i \in 1..2 - 1 : w[i].op \notin Flags
        BY <4>1
      <4> QED
        BY <4>1, <4>2 DEF FlagAt
    <3>2. "forkret" \in Flags \ {"off"} /\ "sret" \in Flags /\ "on" \in Flags
      BY DEF Flags
    <3>3. ~FlagAt(w, 1, "sret") /\ ~FlagAt(w, 1, "on")
      BY <3>1, <3>2, OneFlag
    <3> QED
      BY <3>1, <3>2, <3>3 DEF IntrFit
  <2> QED
    BY <2>1, <2>2
<1> QED
  BY <1>2, <1>3, <1>4, <1>5 DEF Runs

\* A process that is on a CPU and not RUNNING is about to leave, and has its lock.
LEMMA Leaving ==
  ASSUME NPROC \in Nat, NCPU \in Nat, Inv, NEW d \in CPUs, cpu[d].ctx # 0, state[cpu[d].ctx] # "RUNNING"
  PROVE  lock[cpu[d].ctx] = d
<1>1. /\ Runs(cpu[d], Code(d), HeldBy(d), state) /\ Code(d) \in Seq(Ops)
      /\ Thread(d) = cpu[d].ctx
  BY Idle
<1>2. HasOp(Code(d), 1, "sched")
  BY <1>1 DEF Runs, StateFit
<1>3. At(d, "sched")
  BY <1>2, AtIs DEF Inv
<1>4. /\ Doing(Thread(d), Head(Code(d)), Tail(Code(d)), Code(d), cpu[d], HeldBy(d), state)
      /\ Head(Code(d)).op = "sched"
  BY <1>3, Here
<1>5. HeldBy(d) = {Thread(d)}
  <2> DEFINE t == Thread(d)
  <2> DEFINE o == Head(Code(d))
  <2> DEFINE v == Tail(Code(d))
  <2> DEFINE s == Code(d)
  <2> DEFINE r == cpu[d]
  <2> DEFINE L == HeldBy(d)
  <2>1. Doing(t, o, v, s, r, L, state) /\ o.op = "sched"
    BY <1>4
  <2> HIDE DEF t, o, v, s, r, L
  <2>2. L = {t}
    BY <2>1, SchedIs
  <2> QED
    BY <2>2 DEF L, t
<1>6. Thread(d) \in HeldBy(d)
  BY <1>5
<1> QED
  BY <1>1, <1>6 DEF HeldBy

LEMMA PickKeeps ==
  ASSUME NPROC \in Nat, NCPU \in Nat, Inv, NEW c \in CPUs, Pick(c)
  PROVE  Inv'
<1> DEFINE t == Thread(c)
<1> DEFINE o == Head(Code(c))
<1> DEFINE v == Tail(Code(c))
<1> DEFINE q == Arg(c)
<1> DEFINE r1 == [cpu[c] EXCEPT !.proc = q]
<1> DEFINE r == [r1 EXCEPT !.ctx = q]
<1>1. Typed /\ CodeOK /\ Running /\ Left /\ OffCpu /\ OneCpu
  BY DEF Inv
<1>2. /\ Doing(t, o, v, Code(c), cpu[c], HeldBy(c), state) /\ o.op = "pick" /\ cpu[c] \in Cpus
      /\ v \in Seq(Ops) /\ Good(t, v) /\ o.arg = q
  BY Here DEF Pick
<1>3. /\ todo' = [todo EXCEPT ![t] = v] /\ lock' = lock /\ state[q] = "RUNNABLE"
      /\ state' = [state EXCEPT ![q] = "RUNNING"]
      /\ cpu' = [cpu EXCEPT ![c].proc = q, ![c].ctx = q]
  BY DEF Pick, Proceeds, Goes
<1>4. cpu' = [cpu EXCEPT ![c] = r]
  <2>1. cpu' = [[cpu EXCEPT ![c] = r1] EXCEPT ![c] = [[cpu EXCEPT ![c] = r1][c] EXCEPT !.ctx = q]]
    BY <1>3, Zenon
  <2>2. [cpu EXCEPT ![c] = r1][c] = r1
    BY <1>1 DEF Typed
  <2>3. cpu' = [[cpu EXCEPT ![c] = r1] EXCEPT ![c] = r]
    BY <2>1, <2>2, Zenon
  <2> HIDE DEF r1, r
  <2>4. [[cpu EXCEPT ![c] = r1] EXCEPT ![c] = r] = [cpu EXCEPT ![c] = r]
    BY <1>1 DEF Typed
  <2> QED
    BY <2>3, <2>4
<1> HIDE DEF o, v
<1>5. /\ t \notin Procs /\ q \in Procs /\ HeldBy(c) = {q} /\ cpu[c].ctx = 0 /\ cpu[c].noff = 1 /\ ~cpu[c].intr
      /\ OwesAt(v, 1) = {q} /\ HasOp(v, 1, "gone")
  <2> DEFINE n == cpu[c]
  <2> DEFINE L == HeldBy(c)
  <2> DEFINE w == Code(c)
  <2>1. Doing(t, o, v, w, n, L, state) /\ o.op = "pick" /\ o.arg = q
    BY <1>2
  <2> HIDE DEF n, L, w, t, q, r, r1
  <2>2. /\ t \notin Procs /\ o.arg \in Procs /\ L = {o.arg} /\ n.ctx = 0 /\ n.noff = 1 /\ ~n.intr
        /\ OwesAt(v, 1) = {o.arg} /\ HasOp(v, 1, "gone")
    BY <2>1, PickIs
  <2> QED
    BY <2>1, <2>2 DEF n, L
<1>6. t = NPROC + c /\ t \in Threads /\ t # q /\ q \in Threads /\ q # 0
  BY <1>1, <1>5, ThreadFacts DEF Procs
<1> HIDE DEF t, q
<1>7. /\ r \in Cpus /\ r.ctx = q /\ r.proc = q /\ r.noff = 1 /\ ~r.intr
  <2>1. q \in 0..NPROC
    BY <1>5 DEF Procs
  <2>2. r1 \in Cpus /\ r1.proc = q /\ r1.noff = cpu[c].noff /\ r1.intr = cpu[c].intr
    BY <2>1, <1>2 DEF Cpus
  <2> HIDE DEF r1
  <2>3. r \in Cpus /\ r.ctx = q /\ r.proc = r1.proc /\ r.noff = r1.noff /\ r.intr = r1.intr
    BY <2>1, <2>2 DEF Cpus
  <2> QED
    BY <2>2, <2>3, <1>5
<1> HIDE DEF r, r1
<1>8. \A d \in CPUs : cpu[d].ctx # q
  <2> SUFFICES ASSUME NEW d \in CPUs, cpu[d].ctx = q PROVE FALSE
    OBVIOUS
  <2>1. lock[cpu[d].ctx] = d
    BY <1>3, <1>6, Leaving
  <2>2. q \in HeldBy(c)
    BY <1>5
  <2>3. lock[q] = c
    BY <2>2 DEF HeldBy
  <2> QED
    BY <2>1, <2>3, <1>5, <1>6
<1>9. Parked(q)
  BY <1>1, <1>5, <1>8 DEF OffCpu
<1>10. /\ state' \in [Procs -> {"RUNNABLE", "RUNNING", "SLEEPING"}] /\ state'[q] = "RUNNING"
       /\ \A p \in Procs : p # q => state'[p] = state[p]
  BY <1>1, <1>3, <1>5 DEF Typed
<1>11. /\ todo' \in [Threads -> Seq(Ops)] /\ todo'[t] = v
       /\ \A x \in Threads : x # t => todo'[x] = todo[x]
  BY <1>1, <1>2, <1>3, <1>6 DEF Typed
<1>12. /\ cpu' \in [CPUs -> Cpus] /\ cpu'[c] = r /\ \A d \in CPUs : d # c => cpu'[d] = cpu[d]
  BY <1>1, <1>4, <1>7 DEF Typed
<1>13. Thread(c)' = q /\ \A d \in CPUs : d # c => Thread(d)' = Thread(d)
  BY <1>6, <1>7, <1>12 DEF Thread
<1>14. \A d \in CPUs : d # c => Thread(d) # t /\ NPROC + d # t /\ Thread(d) \in Threads
  <2> SUFFICES ASSUME NEW d \in CPUs, d # c
               PROVE  Thread(d) # t /\ NPROC + d # t /\ Thread(d) \in Threads
    OBVIOUS
  <2> QED
    BY <1>1, ThreadsApart, ThreadFacts DEF t
<1>15. Typed'
  BY <1>1, <1>3, <1>10, <1>11, <1>12 DEF Typed
<1>16. CodeOK'
  <2> SUFFICES ASSUME NEW x \in Threads PROVE Good(x, todo'[x])
    BY DEF CodeOK
  <2>1. CASE x = t
    BY <2>1, <1>2, <1>11
  <2>2. CASE x # t
    BY <2>2, <1>1, <1>11 DEF CodeOK
  <2> QED
    BY <2>1, <2>2
<1>17. Running'
  <2> SUFFICES ASSUME NEW d \in CPUs
               PROVE  Runs(cpu'[d], todo'[Thread(d)'], {l \in Locks : lock'[l] = d}, state')
    BY DEF Running, HeldBy, Code
  <2>1. {l \in Locks : lock'[l] = d} = HeldBy(d)
    BY <1>3 DEF HeldBy
  <2>2. CASE d = c
    <3> DEFINE s == todo[q]
    <3> DEFINE st == state'
    <3>1. cpu'[d] = r /\ todo'[Thread(d)'] = s /\ HeldBy(d) = {q}
      BY <2>2, <1>5, <1>6, <1>11, <1>12, <1>13
    <3>2. /\ HasOp(s, 1, "back") \/ (HasOp(s, 1, "release") /\ HasOp(s, 2, "forkret"))
          /\ OwesAt(s, 1) = {q} /\ s \in Seq(Ops)
      BY <1>1, <1>6, <1>9 DEF Parked, Typed
    <3>3. st[q] = "RUNNING"
      BY <1>10
    <3> HIDE DEF s, st
    <3>4. Runs(r, s, {q}, st)
      BY <3>2, <3>3, <1>5, <1>7, PickFits
    <3> QED
      BY <3>1, <3>4, <2>1 DEF st
  <2>3. CASE d # c
    <3>1. cpu'[d] = cpu[d] /\ todo'[Thread(d)'] = Code(d) /\ cpu[d] \in Cpus
      BY <2>3, <1>1, <1>11, <1>12, <1>13, <1>14 DEF Code, Typed
    <3>2. Runs(cpu[d], Code(d), HeldBy(d), state)
      BY <1>1 DEF Running
    <3>3. cpu[d].ctx # 0 => state'[cpu[d].ctx] = state[cpu[d].ctx]
      <4>1. cpu[d].ctx # 0 => cpu[d].ctx \in Procs
        BY <3>1 DEF Cpus, Procs
      <4> QED
        BY <4>1, <1>8, <1>10
    <3>4. Runs(cpu[d], Code(d), HeldBy(d), state')
      BY <3>2, <3>3 DEF Runs, StateFit
    <3> QED
      BY <3>1, <3>4, <2>1
  <2> QED
    BY <2>2, <2>3
<1>18. Left'
  <2> SUFFICES ASSUME NEW d \in CPUs, cpu'[d].ctx # 0
               PROVE  HasOp(todo'[NPROC + d], 1, "gone") /\ OwesAt(todo'[NPROC + d], 1) = {cpu'[d].ctx}
    BY DEF Left
  <2>1. CASE d = c
    BY <2>1, <1>5, <1>6, <1>7, <1>11, <1>12
  <2>2. CASE d # c
    <3>1. cpu'[d] = cpu[d] /\ NPROC + d \in Threads
      BY <2>2, <1>1, <1>12, ThreadFacts
    <3>2. todo'[NPROC + d] = todo[NPROC + d]
      BY <2>2, <3>1, <1>11, <1>14
    <3> QED
      BY <3>1, <3>2, <1>1 DEF Left
  <2> QED
    BY <2>1, <2>2
<1>19. OffCpu'
  <2> SUFFICES ASSUME NEW p \in Procs, \A d \in CPUs : cpu'[d].ctx # p
               PROVE  state'[p] # "RUNNING" /\ Parked(p)'
    BY DEF OffCpu
  <2>1. p # q
    BY <1>7, <1>12
  <2>2. \A d \in CPUs : cpu[d].ctx # p
    BY <1>5, <1>12 DEF Procs
  <2>3. p \in Threads /\ p # t
    BY <1>1, <1>5, ThreadFacts
  <2>4. todo'[p] = todo[p] /\ state[p] # "RUNNING" /\ Parked(p)
    BY <2>2, <2>3, <1>1, <1>11 DEF OffCpu
  <2> QED
    BY <2>1, <2>4, <1>10 DEF Parked
<1>20. OneCpu'
  <2> SUFFICES ASSUME NEW d \in CPUs, NEW e \in CPUs, d # e, cpu'[d].ctx # 0 PROVE cpu'[d].ctx # cpu'[e].ctx
    BY DEF OneCpu
  <2>1. CASE d = c
    BY <2>1, <1>7, <1>8, <1>12
  <2>2. CASE d # c
    <3>1. CASE e = c
      BY <2>2, <3>1, <1>7, <1>8, <1>12
    <3>2. CASE e # c
      BY <2>2, <3>2, <1>1, <1>12 DEF OneCpu
    <3> QED
      BY <3>1, <3>2
  <2> QED
    BY <2>1, <2>2
<1> QED
  BY <1>15, <1>16, <1>17, <1>18, <1>19, <1>20 DEF Inv

-----------------------------------------------------------------------------
(* The beginning, and every step.                                           *)

\* What a process that has not run yet has to do.
LEMMA ForkretCode ==
  ASSUME NPROC \in Nat, NEW t \in Procs, NEW s, s = <<Release(t), Op("forkret", 0), Op("sret", 0)>>
  PROVE  /\ s \in Seq(Ops) /\ Good(t, s) /\ OwesAt(s, 1) = {t}
         /\ HasOp(s, 1, "release") /\ HasOp(s, 2, "forkret")
<1> DEFINE r == <<>>
<1> DEFINE x == Release(t)
<1> DEFINE y == Op("forkret", 0)
<1> DEFINE z == Op("sret", 0)
<1> DEFINE u1 == <<z>> \o r
<1> DEFINE u2 == <<y>> \o u1
<1> DEFINE u3 == <<x>> \o u2
<1>1. t \in Locks /\ tickslock \in Locks
  BY LockFacts
<1>2. /\ r \in Seq(Ops) /\ Good(t, r) /\ OwesAt(r, 1) = {}
      /\ ~FlagAt(r, 1, "sret") /\ ~FlagAt(r, 1, "on") /\ ~FlagAt(r, 1, "off") /\ ~FlagAt(r, 1, "forkret")
      /\ ~HasOp(r, 1, "sched") /\ ~HasOp(r, 1, "spin")
  BY NoCode
<1>3. /\ x \in Ops /\ x.op = "release" /\ x.arg = t
      /\ y \in Ops /\ y.op = "forkret" /\ z \in Ops /\ z.op = "sret"
  <2>1. "forkret" \in Names /\ "sret" \in Names /\ 0 \in Locks
    BY LockFacts DEF Names
  <2> QED
    BY <1>1, <2>1, LockOps, OtherOps
<1>4. s = <<x, y, z>>
  OBVIOUS
<1> HIDE DEF x, y, z
<1>5. s = u3
  <2>1. s \in Seq(Ops) /\ s \o r = s
    BY <1>3, <1>4, ConcatEmptySeq
  <2> HIDE DEF r
  <2>2. <<x, y, z>> \o r = <<x>> \o (<<y>> \o (<<z>> \o r))
    BY <1>2, <1>3, ThreePieces
  <2> QED
    BY <1>4, <2>1, <2>2, Zenon DEF u1, u2, u3
<1> HIDE DEF r, u1, u2, u3
<1>6. Pushed(t, z, r, u1)
  <2>1. Fits(t, z, r)
    BY <1>1, <1>3, <1>2 DEF Fits, LockFits, FlagFits, ProcFits, Owed, Flags
  <2> QED
    BY <1>3, <1>2, <2>1, Push DEF u1
<1>7. /\ u1 \in Seq(Ops) /\ Good(t, u1) /\ OwesAt(u1, 1) = {}
      /\ FlagAt(u1, 1, "sret") /\ ~FlagAt(u1, 1, "on") /\ ~FlagAt(u1, 1, "off") /\ ~FlagAt(u1, 1, "forkret")
      /\ ~HasOp(u1, 1, "spin") /\ ~HasOp(u1, 1, "sched")
  BY <1>3, <1>2, <1>6 DEF Pushed, Owed, Flags
<1>8. Pushed(t, y, u1, u2)
  <2>1. Fits(t, y, u1)
    BY <1>1, <1>3, <1>7 DEF Fits, LockFits, FlagFits, ProcFits, Owed, Flags
  <2> QED
    BY <1>3, <1>7, <2>1, Push DEF u2
<1>9. /\ u2 \in Seq(Ops) /\ Good(t, u2) /\ OwesAt(u2, 1) = {}
      /\ ~FlagAt(u2, 1, "sret") /\ ~FlagAt(u2, 1, "on") /\ ~FlagAt(u2, 1, "off") /\ FlagAt(u2, 1, "forkret")
      /\ HasOp(u2, 1, "forkret") /\ ~HasOp(u2, 1, "spin") /\ ~HasOp(u2, 1, "sched")
  BY <1>3, <1>7, <1>8 DEF Pushed, Owed, Flags
<1>10. Pushed(t, x, u2, u3)
  <2>1. Fits(t, x, u2)
    BY <1>1, <1>3, <1>9 DEF Fits, LockFits, FlagFits, ProcFits, Owed, Flags
  <2> QED
    BY <1>3, <1>9, <2>1, Push DEF u3
<1>11. /\ u3 \in Seq(Ops) /\ Good(t, u3) /\ OwesAt(u3, 1) = {t}
       /\ HasOp(u3, 1, "release") /\ HasOp(u3, 2, "forkret")
  BY <1>3, <1>9, <1>10 DEF Pushed, Owed
<1> QED
  BY <1>5, <1>11

LEMMA InitInv ==
  ASSUME NPROC \in Nat, NCPU \in Nat, Init
  PROVE  Inv
<1>1. \A c \in CPUs : /\ cpu[c] \in Cpus /\ cpu[c].ctx = 0 /\ cpu[c].proc = 0
                      /\ cpu[c].noff = 0 /\ ~cpu[c].intr
  BY DEF Init, Cpus, Nobody
<1>2. cpu \in [CPUs -> Cpus]
  BY <1>1 DEF Init
<1>3. /\ lock \in [Locks -> {Nobody} \cup CPUs] /\ \A l \in Locks : lock[l] = Nobody
      /\ state \in [Procs -> {"RUNNABLE", "RUNNING", "SLEEPING"}] /\ \A p \in Procs : state[p] = "RUNNABLE"
  BY DEF Init
<1>4. \A t \in Threads : todo[t] = IF t \in Procs THEN <<Release(t), Op("forkret", 0), Op("sret", 0)>> ELSE <<>>
  BY DEF Init, Threads
<1>5. \A t \in Procs : t \in Threads /\ /\ todo[t] \in Seq(Ops) /\ Good(t, todo[t]) /\ OwesAt(todo[t], 1) = {t}
                                       /\ HasOp(todo[t], 1, "release") /\ HasOp(todo[t], 2, "forkret")
  <2> SUFFICES ASSUME NEW t \in Procs
               PROVE  t \in Threads /\ /\ todo[t] \in Seq(Ops) /\ Good(t, todo[t]) /\ OwesAt(todo[t], 1) = {t}
                                       /\ HasOp(todo[t], 1, "release") /\ HasOp(todo[t], 2, "forkret")
    OBVIOUS
  <2>1. t \in Threads
    BY DEF Procs, Threads
  <2>2. todo[t] = <<Release(t), Op("forkret", 0), Op("sret", 0)>>
    BY <1>4, <2>1
  <2> QED
    BY <2>1, <2>2, ForkretCode
<1>6. \A t \in Threads \ Procs : todo[t] = <<>>
  BY <1>4
<1>7. \A t \in Threads : todo[t] \in Seq(Ops) /\ Good(t, todo[t])
  <2> SUFFICES ASSUME NEW t \in Threads PROVE todo[t] \in Seq(Ops) /\ Good(t, todo[t])
    OBVIOUS
  <2>1. CASE t \in Procs
    BY <2>1, <1>5
  <2>2. CASE t \notin Procs
    BY <2>2, <1>6, NoCode
  <2> QED
    BY <2>1, <2>2
<1>8. todo \in [Threads -> Seq(Ops)]
  <2>1. todo = [t \in Threads |-> IF t \in Procs THEN <<Release(t), Op("forkret", 0), Op("sret", 0)>> ELSE <<>>]
    BY DEF Init, Threads
  <2> QED
    BY <2>1, <1>7
<1>9. Typed
  BY <1>2, <1>3, <1>8 DEF Typed
<1>10. CodeOK
  BY <1>7 DEF CodeOK
<1>11. Running
  <2> SUFFICES ASSUME NEW c \in CPUs PROVE Runs(cpu[c], Code(c), HeldBy(c), state)
    BY DEF Running
  <2>1. Code(c) = <<>>
    <3>1. Thread(c) \in Threads /\ Thread(c) \notin Procs
      BY <1>1, <1>9, ThreadFacts
    <3> QED
      BY <3>1, <1>6 DEF Code
  <2>2. HeldBy(c) = {}
    BY <1>3 DEF HeldBy, CPUs, Nobody
  <2>3. cpu[c].ctx = 0 /\ cpu[c].proc = 0 /\ cpu[c].noff = 0
    BY <1>1
  <2>4. OwesAt(<<>>, 1) = {} /\ ~HasOp(<<>>, 1, "spin")
    BY NoCode
  <2>5. NoffFit(cpu[c], <<>>)
    BY <2>3, <2>4, NoffZero
  <2>6. LocksFit(<<>>, {}) /\ StateFit(cpu[c], <<>>, state) /\ IntrFit(cpu[c], <<>>)
    BY <2>3, <2>4 DEF LocksFit, StateFit, IntrFit
  <2> QED
    BY <2>1, <2>2, <2>5, <2>6 DEF Runs
<1>12. Left /\ OneCpu
  BY <1>1 DEF Left, OneCpu
<1>13. OffCpu
  BY <1>3, <1>5 DEF OffCpu, Parked
<1> QED
  BY <1>9, <1>10, <1>11, <1>12, <1>13 DEF Inv

LEMMA NextInv ==
  ASSUME NPROC \in Nat, NCPU \in Nat, Inv, Next
  PROVE  Inv'
<1> PICK c \in CPUs :
      \/ AcquireStep(c) \/ Spin(c) \/ ReleaseStep(c) \/ SetState(c)
      \/ SchedStep(c) \/ Resume(c) \/ Loop(c) \/ Pick(c) \/ PassOver(c) \/ Gone(c) \/ Wake(c)
      \/ Syscall(c) \/ Interrupt(c) \/ Tick(c) \/ Sret(c) \/ IntrOff(c) \/ Test(c)
  BY DEF Next
<1>1. CASE AcquireStep(c) \/ Spin(c) \/ ReleaseStep(c)
  BY <1>1, AcquireKeeps, SpinKeeps, ReleaseKeeps
<1>2. CASE SetState(c) \/ SchedStep(c) \/ Resume(c)
  BY <1>2, SetStateKeeps, SchedKeeps, ResumeKeeps
<1>3. CASE Loop(c) \/ Pick(c) \/ PassOver(c) \/ Gone(c) \/ Wake(c)
  BY <1>3, LoopInv, PickKeeps, PassKeeps, GoneKeeps, WakeKeeps
<1>4. CASE Syscall(c) \/ Interrupt(c) \/ Tick(c)
  BY <1>4, SyscallKeeps, InterruptKeeps, TickKeeps
<1>5. CASE Sret(c) \/ IntrOff(c) \/ Test(c)
  BY <1>5, SretKeeps, IntrOffKeeps, TestKeeps
<1> QED
  BY <1>1, <1>2, <1>3, <1>4, <1>5

LEMMA StillInv ==
  ASSUME Inv, UNCHANGED vars
  PROVE  Inv'
<1>1. cpu' = cpu /\ lock' = lock /\ state' = state /\ todo' = todo
  BY DEF vars
<1>2. Typed' = Typed /\ CodeOK' = CodeOK /\ Left' = Left /\ OneCpu' = OneCpu
  BY <1>1 DEF Typed, CodeOK, Left, OneCpu
<1>3. Running' = Running
  BY <1>1 DEF Running, HeldBy, Code, Thread
<1>4. OffCpu' = OffCpu
  BY <1>1 DEF OffCpu, Parked
<1> QED
  BY <1>2, <1>3, <1>4 DEF Inv

LEMMA SpinInv ==
  ASSUME SpinlockAssumption
  PROVE  Spec => []Inv
<1>1. NPROC \in Nat /\ NCPU \in Nat
  BY DEF SpinlockAssumption
<1>2. Init => Inv
  BY <1>1, InitInv
<1>3. Inv /\ [Next]_vars => Inv'
  BY <1>1, NextInv, StillInv
<1> QED
  BY <1>2, <1>3, PTL DEF Spec

-----------------------------------------------------------------------------
(* What the invariant says.                                                 *)

LEMMA InvTypes ==
  ASSUME Inv
  PROVE  TypeOK
BY DEF Inv, Typed, TypeOK, Cpus

LEMMA OwesIs ==
  ASSUME Typed, NEW t \in Threads
  PROVE  Owes(t) = OwesAt(todo[t], 1)
<1>1. todo[t] \in Seq(Ops)
  BY DEF Typed
<1>2. DOMAIN todo[t] = 1..Len(todo[t])
  BY <1>1, LenProperties
<1> QED
  BY <1>2 DEF Owes, OwesAt

LEMMA InvLocks ==
  ASSUME NPROC \in Nat, NCPU \in Nat, Inv
  PROVE  LocksExact
<1> SUFFICES ASSUME NEW c \in CPUs PROVE HeldBy(c) = Owes(Thread(c))
  BY DEF LocksExact, HeldBy
<1>1. Typed /\ Runs(cpu[c], Code(c), HeldBy(c), state)
  BY DEF Inv, Running
<1>2. Thread(c) \in Threads
  BY <1>1, ThreadFacts
<1> QED
  BY <1>1, <1>2, OwesIs DEF Runs, LocksFit, Code

LEMMA InvNoff ==
  ASSUME NPROC \in Nat, NCPU \in Nat, Inv
  PROVE  NoffExact
<1> SUFFICES ASSUME NEW c \in CPUs
             PROVE  /\ cpu[c].noff = Cardinality(HeldBy(c)) + (IF At(c, "spin") THEN 1 ELSE 0)
                    /\ cpu[c].noff > 0 => ~cpu[c].intr
  BY DEF NoffExact, HeldBy
<1>1. Typed /\ Runs(cpu[c], Code(c), HeldBy(c), state)
  BY DEF Inv, Running
<1>2. At(c, "spin") <=> HasOp(Code(c), 1, "spin")
  BY <1>1, AtIs
<1> QED
  BY <1>1, <1>2 DEF Runs, LocksFit, NoffFit

LEMMA InvPanic ==
  ASSUME NPROC \in Nat, NCPU \in Nat, Inv
  PROVE  NoPanic
<1> SUFFICES ASSUME NEW c \in CPUs
             PROVE  /\ At(c, "acquire") => ~CannotAcquire(c, Arg(c))
                    /\ At(c, "release") => ~CannotRelease(c, Arg(c))
                    /\ At(c, "sched") => ~CannotSched(c, cpu[c].proc)
  BY DEF NoPanic
<1> DEFINE t == Thread(c)
<1> DEFINE o == Head(Code(c))
<1> DEFINE v == Tail(Code(c))
<1> DEFINE s == Code(c)
<1> DEFINE r == cpu[c]
<1> DEFINE L == HeldBy(c)
<1>1. \A l \in Locks : l \in L <=> lock[l] = c
  BY DEF HeldBy
<1>2. ASSUME At(c, "acquire") PROVE ~CannotAcquire(c, Arg(c))
  <2>1. Doing(t, o, v, s, r, L, state) /\ o.op = "acquire" /\ o.arg = Arg(c)
    BY <1>2, Here
  <2> HIDE DEF t, o, v, s, r, L
  <2>2. L = Owed(o, OwesAt(v, 1))
    BY <2>1, DoingFacts
  <2>3. o.arg \notin L /\ o.arg \in Locks
    BY <2>1, <2>2 DEF Owed, Doing, Fits, LockFits, OwesAt
  <2> QED
    BY <2>1, <2>3, <1>1 DEF CannotAcquire
<1>3. ASSUME At(c, "release") PROVE ~CannotRelease(c, Arg(c))
  <2>1. Doing(t, o, v, s, r, L, state) /\ o.op = "release" /\ o.arg = Arg(c)
    BY <1>3, Here
  <2>2. cpu[c] = r
    OBVIOUS
  <2> HIDE DEF t, o, v, s, r, L
  <2>3. /\ L = Owed(o, OwesAt(v, 1)) /\ NoffFit(r, s) /\ r.noff = Cardinality(L)
        /\ \E q \in Locks : L \subseteq {tickslock, q}
    BY <2>1, DoingFacts
  <2>4. o.arg \in L /\ o.arg \in Locks
    BY <2>1, <2>3 DEF Owed, Doing, Fits, LockFits
  <2>5. r.noff \in 0..2 /\ r.noff # 0
    BY <2>3, <2>4, Counts
  <2>6. ~r.intr /\ ~(r.noff < 1)
    BY <2>3, <2>5 DEF NoffFit
  <2> QED
    BY <2>1, <2>2, <2>4, <2>6, <1>1 DEF CannotRelease
<1>4. ASSUME At(c, "sched") PROVE ~CannotSched(c, cpu[c].proc)
  <2>1. Doing(t, o, v, s, r, L, state) /\ o.op = "sched"
    BY <1>4, Here
  <2>2. cpu[c] = r
    OBVIOUS
  <2> HIDE DEF t, o, v, s, r, L
  <2>3. /\ t \in Procs /\ r.proc = t /\ state[t] # "RUNNING" /\ L = {t} /\ r.noff = 1 /\ ~r.intr
    BY <2>1, SchedIs
  <2>4. t \in Locks /\ lock[t] = c
    BY <2>3, <1>1, LockFacts
  <2> QED
    BY <2>2, <2>3, <2>4 DEF CannotSched
<1> QED
  BY <1>2, <1>3, <1>4

LEMMA InvIntr ==
  ASSUME NPROC \in Nat, NCPU \in Nat, Inv
  PROVE  IntrExact
<1> SUFFICES ASSUME NEW c \in CPUs, cpu[c].ctx # 0, cpu[c].noff = 0
             PROVE  /\ InHandler(Thread(c)) => ~cpu[c].intr
                    /\ ~InHandler(Thread(c)) /\ ~At(c, "on") /\ ~At(c, "forkret") => cpu[c].intr
  BY DEF IntrExact
<1> DEFINE t == Thread(c)
<1> DEFINE s == Code(c)
<1> DEFINE r == cpu[c]
<1> DEFINE L == HeldBy(c)
<1>1. r \in Cpus /\ s \in Seq(Ops) /\ Good(t, s) /\ Runs(r, s, L, state) /\ t \in Procs
  BY Idle
<1>2. InHandler(t) <=> FlagAt(s, 1, "sret")
  <2>1. DOMAIN s = 1..Len(s)
    BY <1>1, LenProperties
  <2>2. s = todo[t]
    BY DEF Code
  <2> HIDE DEF s, t
  <2> QED
    BY <2>1, <2>2 DEF InHandler, FlagAt, Flags
<1>3. \A op : At(c, op) <=> HasOp(s, 1, op)
  BY AtIs DEF Inv
<1>4. r.ctx # 0 /\ r.noff = 0 /\ r.intr = cpu[c].intr
  OBVIOUS
<1> HIDE DEF t, s, r, L
<1>5. OwesAt(s, 1) = {}
  <2>1. \E q \in Locks : OwesAt(s, 1) \subseteq {tickslock, q}
    BY <1>1, LockFacts, CodeOwes
  <2>2. r.noff = Cardinality(OwesAt(s, 1)) + (IF HasOp(s, 1, "spin") THEN 1 ELSE 0)
    BY <1>1 DEF Runs, NoffFit
  <2>3. Cardinality(OwesAt(s, 1)) \in 0..2
    BY <2>1, Counts
  <2>4. Cardinality(OwesAt(s, 1)) = 0
    BY <2>2, <2>3, <1>4
  <2> QED
    BY <2>1, <2>4, Counts
<1>6. s # <<>> => OpOK(t, s, 1)
  BY <1>1, LockFacts, CodeOwes
<1>7. \A op, f : HasOp(s, 1, op) \/ FlagAt(s, 1, f) => s # <<>>
  BY NoCode
<1>8. ~HasOp(s, 1, "back")
  <2> SUFFICES ASSUME HasOp(s, 1, "back") PROVE FALSE
    OBVIOUS
  <2>1. OpOK(t, s, 1) /\ s[1].op = "back"
    BY <1>6, <1>7 DEF HasOp
  <2>2. OwesAt(s, 1) = {t}
    BY <2>1 DEF OpOK, ProcOK
  <2> QED
    BY <2>2, <1>5
<1>9. Saved(r) = r.intr
  BY <1>4 DEF Saved
<1>10. IntrFit(r, s)
  BY <1>1 DEF Runs
<1>11. ASSUME FlagAt(s, 1, "sret") PROVE ~r.intr
  BY <1>4, <1>8, <1>9, <1>10, <1>11 DEF IntrFit
<1>12. ASSUME ~FlagAt(s, 1, "sret"), ~HasOp(s, 1, "on"), ~HasOp(s, 1, "forkret") PROVE r.intr
  <2>0. Len(s) \in Nat /\ (s # <<>> => 1 \in 1..Len(s))
    BY <1>1, LenProperties, EmptySeq
  <2>1. ~FlagAt(s, 1, "on")
    <3> SUFFICES ASSUME FlagAt(s, 1, "on") PROVE FALSE
      OBVIOUS
    <3>1. OpOK(t, s, 1) /\ 1 \in 1..Len(s)
      BY <1>6, <1>7, <2>0
    <3>2. s[1].op = "on"
      BY <3>1 DEF OpOK, FlagOK
    <3> QED
      BY <3>1, <3>2, <1>12 DEF HasOp
  <2>2. ~FlagAt(s, 1, "forkret")
    <3> SUFFICES ASSUME FlagAt(s, 1, "forkret") PROVE FALSE
      OBVIOUS
    <3>1. OpOK(t, s, 1) /\ 1 \in 1..Len(s)
      BY <1>6, <1>7, <2>0
    <3>2. s[1].op \in {"forkret", "release"}
      BY <3>1 DEF OpOK, FlagOK
    <3>3. s[1].op = "release"
      BY <3>1, <3>2, <1>12 DEF HasOp
    <3>4. s[1].arg \in OwesAt(s, 1)
      <4> DEFINE o == Head(s)
      <4> DEFINE v == Tail(s)
      <4>1. o \in Ops /\ v \in Seq(Ops) /\ s = <<o>> \o v /\ s[1] = o
        BY <1>1, <1>7, Uncons
      <4> HIDE DEF o, v
      <4>2. s[1].arg \in Locks
        BY <3>1, <3>3 DEF OpOK, LockOK
      <4>3. OwesAt(s, 1) = Owed(o, OwesAt(v, 1))
        BY <4>1, <4>2, FirstOwes
      <4> QED
        BY <4>1, <4>3, <3>3 DEF Owed
    <3> QED
      BY <3>4, <1>5
  <2>3. \A f \in Flags \ {"off"} : ~FlagAt(s, 1, f)
    BY <2>1, <2>2, <1>12 DEF Flags
  <2> QED
    BY <2>3, <1>4, <1>8, <1>9, <1>10 DEF IntrFit
<1> QED
  BY <1>2, <1>3, <1>4, <1>11, <1>12 DEF t, r

\* A CPU that waits for a lock has at most tickslock, and not the lock it waits for.
LEMMA SpinIs ==
  ASSUME NPROC \in Nat, NCPU \in Nat, Inv, NEW c \in CPUs, At(c, "spin")
  PROVE  HeldBy(c) \subseteq {tickslock} /\ Arg(c) \in Locks \ HeldBy(c)
<1> DEFINE t == Thread(c)
<1> DEFINE o == Head(Code(c))
<1> DEFINE v == Tail(Code(c))
<1> DEFINE s == Code(c)
<1> DEFINE r == cpu[c]
<1> DEFINE L == HeldBy(c)
<1>1. Doing(t, o, v, s, r, L, state) /\ o.op = "spin" /\ o.arg = Arg(c) /\ L = HeldBy(c)
  BY Here
<1> HIDE DEF t, o, v, s, r, L
<1>2. L = Owed(o, OwesAt(v, 1))
  BY <1>1, DoingFacts
<1>3. L \subseteq {tickslock} /\ o.arg \in Locks \ L
  BY <1>1, <1>2 DEF Owed, Doing, Fits, LockFits, OwesAt
<1> QED
  BY <1>1, <1>3

LEMMA InvDeadlock ==
  ASSUME NPROC \in Nat, NCPU \in Nat, Inv
  PROVE  NoDeadlock
<1> SUFFICES ASSUME NEW S \in SUBSET CPUs, S # {}, \A c \in S : At(c, "spin") /\ lock[Arg(c)] \in S
             PROVE  FALSE
  BY DEF NoDeadlock
<1>1. \A c \in S : /\ HeldBy(c) \subseteq {tickslock} /\ Arg(c) \in Locks \ HeldBy(c)
                   /\ lock[Arg(c)] \in S /\ Arg(c) \in HeldBy(lock[Arg(c)])
  <2> SUFFICES ASSUME NEW c \in S
               PROVE  /\ HeldBy(c) \subseteq {tickslock} /\ Arg(c) \in Locks \ HeldBy(c)
                      /\ lock[Arg(c)] \in S /\ Arg(c) \in HeldBy(lock[Arg(c)])
    OBVIOUS
  <2>1. HeldBy(c) \subseteq {tickslock} /\ Arg(c) \in Locks \ HeldBy(c)
    BY SpinIs
  <2> QED
    BY <2>1 DEF HeldBy
<1>2. \A c \in S : Arg(c) = tickslock
  BY <1>1
<1>3. PICK c \in S : TRUE
  OBVIOUS
<1>4. lock[Arg(c)] \in S /\ tickslock \in HeldBy(lock[Arg(c)])
  BY <1>1, <1>2
<1> QED
  BY <1>1, <1>2, <1>4

LEMMA InvSafe ==
  ASSUME SpinlockAssumption, Inv
  PROVE  TypeOK /\ LocksExact /\ NoffExact /\ IntrExact /\ OneCpu /\ NoPanic /\ NoDeadlock
BY InvTypes, InvLocks, InvNoff, InvIntr, InvPanic, InvDeadlock DEF SpinlockAssumption, Inv

-----------------------------------------------------------------------------
(* Theorems.                                                                *)

\* The structures of the CPUs, the locks and the processes keep their types; noff does
\* not exceed 2, however many processes, CPUs and interrupts there are.
THEOREM SpinTypes ==
  ASSUME SpinlockAssumption
  PROVE  Spec => []TypeOK
<1>1. Inv => TypeOK
  BY InvSafe
<1> QED
  BY <1>1, SpinInv, PTL

\* A lock names the CPU of the one thread that is going to release it (acquire(),
\* release()), also while processes go from CPU to CPU with a lock that another thread
\* releases (sched(), scheduler()).
THEOREM SpinLocksExact ==
  ASSUME SpinlockAssumption
  PROVE  Spec => []LocksExact
<1>1. Inv => LocksExact
  BY InvSafe
<1> QED
  BY <1>1, SpinInv, PTL

\* noff counts the locks of a CPU and the one it waits for, with interrupts off
\* (push_off(), pop_off()).
THEOREM SpinNoffExact ==
  ASSUME SpinlockAssumption
  PROVE  Spec => []NoffExact
<1>1. Inv => NoffExact
  BY InvSafe
<1> QED
  BY <1>1, SpinInv, PTL

\* Without a lock a process has interrupts on, and off in a handler, on whatever CPU it
\* has come to (intena in sched()).
THEOREM SpinIntrExact ==
  ASSUME SpinlockAssumption
  PROVE  Spec => []IntrExact
<1>1. Inv => IntrExact
  BY InvSafe
<1> QED
  BY <1>1, SpinInv, PTL

\* No process runs on two CPUs (scheduler(), sched()).
THEOREM SpinOneCpu ==
  ASSUME SpinlockAssumption
  PROVE  Spec => []OneCpu
<1>1. Inv => OneCpu
  BY InvSafe
<1> QED
  BY <1>1, SpinInv, PTL

\* acquire(), release() and sched() never panic.
THEOREM SpinNoPanic ==
  ASSUME SpinlockAssumption
  PROVE  Spec => []NoPanic
<1>1. Inv => NoPanic
  BY InvSafe
<1> QED
  BY <1>1, SpinInv, PTL

\* CPUs never wait for each other's locks in acquire().
THEOREM SpinNoDeadlock ==
  ASSUME SpinlockAssumption
  PROVE  Spec => []NoDeadlock
<1>1. Inv => NoDeadlock
  BY InvSafe
<1> QED
  BY <1>1, SpinInv, PTL
=============================================================================
