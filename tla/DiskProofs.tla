----------------------------- MODULE DiskProofs -----------------------------
(***************************************************************************)
(* Theorems about the buffer cache and the disk driver.                     *)
(***************************************************************************)
EXTENDS Disk, FiniteSetTheorems, TLAPS

Holding == {"start", "wait", "pin", "unpin", "release"}
PCs == {"idle", "lock", "drop"} \cup Holding
Ops == {None, "read", "write", "log", "install"}
Chans == {<<>>, <<"free">>} \cup {<<"lock", b>> : b \in Bufs} \cup {<<"disk", b>> : b \in Bufs}
Buffer == [block : Blocks \cup {None}, refcnt : Int, valid : BOOLEAN, holder : Hands \cup {None},
           data : Int, disk : BOOLEAN]
Process == [pc : PCs, op : Ops, b : Bufs, id : Descs]
Request == [b : Nat, write : BOOLEAN]

Types ==
  /\ buf \in [Bufs -> Buffer]
  /\ lru \in [1..NBUF -> Bufs]
  /\ \A b \in Bufs : \E j \in 1..NBUF : lru[j] = b
  /\ proc \in [Hands -> Process]
  /\ chan \in [Hands -> Chans]
  /\ free \subseteq Descs /\ desc \in [Descs -> SUBSET Descs] /\ info \in [Descs -> Request]
  /\ avail \subseteq Descs /\ used \in Seq(Descs)
  /\ irq \in BOOLEAN /\ intr \in {"none", "scan", "exit"}
  /\ platter \in [Blocks -> Int] /\ latest \in [Blocks -> Int]
  /\ pinned \subseteq Blocks

\* Who has a buffer, and who has its lock.
Calls ==
  /\ \A p \in Hands : proc[p].pc = "idle" <=> proc[p].op = None
  /\ \A p \in Hands : proc[p].pc # "idle" => BlockOf(p) \in Blocks
  /\ \A p \in Hands : proc[p].pc = "pin" => proc[p].op = "log"
  /\ \A p \in Hands : proc[p].pc = "unpin" => proc[p].op = "install"
  /\ \A b \in Bufs, p \in Hands :
       buf[b].holder = p <=> proc[p].pc \in Holding /\ proc[p].b = b

\* The log
Pins ==
  /\ \A k \in pinned : \E b \in Bufs : buf[b].block = k
  /\ \A p, q \in Hands : proc[p].op = "install" /\ proc[q].op \in {"log", "install"} => p = q
  /\ \A p \in Hands : proc[p].op = "install" /\ proc[p].pc \in {"lock", "start", "wait", "unpin"} => BlockOf(p) \in pinned
  /\ Cardinality(pinned \cup {BlockOf(q) : q \in Doing("log")}) <= MaxPins

IsChain(i, x, y) ==
  i # x /\ i # y /\ x # y /\ desc[i] = {x} /\ desc[x] = {y} /\ desc[y] = {}
Chains ==
  /\ \A p \in Inflight : \E x, y \in Descs : IsChain(proc[p].id, x, y)
  /\ \A p \in Inflight : Chain(proc[p].id) \cap free = {}
  /\ \A p, q \in Inflight : p # q => Chain(proc[p].id) \cap Chain(proc[q].id) = {}
  /\ Cardinality(free) = NUM - 3 * Cardinality(Inflight)

UsedIds == {used[j] : j \in 1..Len(used)}
Requests ==
  /\ \A p \in Inflight : info[proc[p].id] = [b |-> proc[p].b, write |-> Buf(p).valid]
  /\ \A p \in Inflight : Buf(p).disk <=> (proc[p].id \in avail \/ proc[p].id \in UsedIds)
  /\ avail \cup UsedIds \subseteq {proc[p].id : p \in Inflight}
  /\ avail \cap UsedIds = {}
  /\ \A i, j \in 1..Len(used) : used[i] = used[j] => i = j

Data ==
  /\ \A b \in Bufs : buf[b].valid => buf[b].block \in Blocks /\ buf[b].data = latest[buf[b].block]
  /\ \A k \in Blocks : platter[k] # latest[k] => \E b \in Bufs : buf[b].block = k /\ buf[b].valid /\ (buf[b].holder # None \/ k \in pinned)
  /\ \A p \in Inflight : proc[p].id \notin avail => Buf(p).data = platter[BlockOf(p)]
  /\ \A p \in Hands : proc[p].pc \in {"pin", "unpin", "release"} => Buf(p).valid
  /\ \A p \in Hands : proc[p].pc = "unpin" => platter[BlockOf(p)] = latest[BlockOf(p)]
  /\ \A p \in Hands : proc[p].pc = "release" => BlockOf(p) \in pinned \/ platter[BlockOf(p)] = latest[BlockOf(p)]

Sleepers == \A p \in Hands : chan[p] # <<>> =>
  \/ chan[p] = <<"free">> /\ proc[p].pc = "start" /\ Cardinality(free) < 3
  \/ chan[p] = <<"lock", proc[p].b>> /\ proc[p].pc = "lock" /\ Buf(p).holder # None
  \/ chan[p] = <<"disk", proc[p].b>> /\ proc[p].pc = "wait" /\ Buf(p).disk

Inv ==
  Types /\ Calls /\ OneCopy /\ Pins /\ Chains /\ Requests /\ Data /\ Sleepers /\ CompletionSeen


-----------------------------------------------------------------------------
(* Sets and numbers.                                                         *)

\* A set of numbers has a least one: the initial segments 0..q are well founded.
LEMMA Least ==
  ASSUME NEW S \in SUBSET Nat, S # {}
  PROVE  \E q \in S : \A r \in S : q <= r
<1> DEFINE T == {0..q : q \in S}
<1>1. T # {} /\ T \subseteq FiniteSubsetsOf(Nat)
  <2>1. \A q \in S : IsFiniteSet(0..q) /\ 0..q \in SUBSET Nat
    BY FS_Interval
  <2> QED
    BY <2>1 DEF FiniteSubsetsOf
<1>2. IsWellFoundedOn(StrictSubsetOrdering(Nat), FiniteSubsetsOf(Nat))
  BY FS_StrictSubsetOrderingWellFounded
<1> HIDE DEF T
<1>3. PICK I \in T : \A J \in T : <<J, I>> \notin StrictSubsetOrdering(Nat)
  BY <1>1, <1>2, WFMin
<1>4. PICK q \in S : I = 0..q
  BY DEF T
<1>5. ASSUME NEW r \in S PROVE q <= r
  <2> SUFFICES ASSUME r < q PROVE FALSE
    OBVIOUS
  <2>1. 0..r \in T
    BY DEF T
  <2>2. 0..r \subseteq 0..q /\ 0..r # 0..q /\ 0..r \in SUBSET Nat /\ 0..q \in SUBSET Nat
    OBVIOUS
  <2>3. <<0..r, I>> \in StrictSubsetOrdering(Nat)
    BY <1>4, <2>2 DEF StrictSubsetOrdering
  <2> QED
    BY <1>3, <2>1, <2>3
<1> QED
  BY <1>5

LEMMA LowestIn ==
  ASSUME NEW T, T \subseteq Nat, NEW S \in SUBSET T, S # {}
  PROVE  Lowest(S) \in S
<1>1. S \in SUBSET Nat
  OBVIOUS
<1>2. \E i \in S : \A j \in S : i <= j
  BY <1>1, Least
<1> QED
  BY <1>2 DEF Lowest

LEMMA AtMostTwo ==
  ASSUME NEW x, NEW y
  PROVE  Cardinality({x, y}) <= 2 /\ IsFiniteSet({x, y})
<1>1. IsFiniteSet({x}) /\ Cardinality({x}) = 1
  BY FS_Singleton
<1>2. {x, y} = {x} \cup {y}
  OBVIOUS
<1>3. IsFiniteSet({x} \cup {y}) /\ (Cardinality({x} \cup {y}) = 1 \/ Cardinality({x} \cup {y}) = 2)
  BY <1>1, FS_AddElement
<1> QED
  BY <1>2, <1>3

\* Three elements more, or less.
LEMMA Triple ==
  ASSUME NEW S, IsFiniteSet(S), NEW x, NEW y, NEW z, x # y, x # z, y # z,
         x \notin S, y \notin S, z \notin S
  PROVE  Cardinality(S \cup {x, y, z}) = Cardinality(S) + 3 /\ IsFiniteSet(S \cup {x, y, z})
<1> DEFINE A == S \cup {x}
           B == A \cup {y}
           C == B \cup {z}
<1>1. IsFiniteSet(A) /\ Cardinality(A) = Cardinality(S) + 1
  BY FS_AddElement
<1>2. IsFiniteSet(B) /\ Cardinality(B) = Cardinality(A) + 1
  <2> y \notin A
    OBVIOUS
  <2> HIDE DEF A
  <2> QED
    BY <1>1, FS_AddElement
<1>3. IsFiniteSet(C) /\ Cardinality(C) = Cardinality(B) + 1
  <2> z \notin B
    OBVIOUS
  <2> HIDE DEF B
  <2> QED
    BY <1>2, FS_AddElement
<1>4. C = S \cup {x, y, z}
  OBVIOUS
<1>5. Cardinality(S) \in Nat
  BY FS_CardinalityType
<1> HIDE DEF A, B, C
<1> QED
  BY <1>1, <1>2, <1>3, <1>4, <1>5

LEMMA TripleOnly ==
  ASSUME NEW x, NEW y, NEW z, x # y, x # z, y # z
  PROVE  Cardinality({x, y, z}) = 3 /\ IsFiniteSet({x, y, z})
<1>1. IsFiniteSet({}) /\ Cardinality({}) = 0
  BY FS_EmptySet
<1>2. {} \cup {x, y, z} = {x, y, z}
  OBVIOUS
<1>3. Cardinality({} \cup {x, y, z}) = Cardinality({}) + 3 /\ IsFiniteSet({} \cup {x, y, z})
  BY <1>1, Triple
<1> QED
  BY <1>1, <1>2, <1>3
-----------------------------------------------------------------------------
(* What each step changes.                                                   *)

LEMMA NoneApart == ASSUME DiskAssumption PROVE None \notin Hands \cup Blocks
BY DEF DiskAssumption, None

\* Buffers other than b are as they were, and b but for the fields in question.
Same(b, fields) ==
  /\ buf' \in [Bufs -> Buffer]
  /\ \A c \in Bufs : c # b => buf'[c] = buf[c]
  /\ "block" \notin fields => buf'[b].block = buf[b].block
  /\ "refcnt" \notin fields => buf'[b].refcnt = buf[b].refcnt
  /\ "valid" \notin fields => buf'[b].valid = buf[b].valid
  /\ "holder" \notin fields => buf'[b].holder = buf[b].holder
  /\ "data" \notin fields => buf'[b].data = buf[b].data
  /\ "disk" \notin fields => buf'[b].disk = buf[b].disk

\* A process goes on with the buffer it has.
Goes(p, pc) ==
  /\ proc' \in [Hands -> Process]
  /\ \A q \in Hands : q # p => proc'[q] = proc[q]
  /\ proc'[p].pc = pc /\ proc'[p].op = proc[p].op /\ proc'[p].b = proc[p].b

LEMMA GoEffect ==
  ASSUME Types, NEW p \in Hands, NEW pc \in PCs, Go(p, pc)
  PROVE  Goes(p, pc) /\ proc'[p].id = proc[p].id
<1>1. proc \in [Hands -> Process] /\ proc[p] \in Process
  BY DEF Types
<1>2. [proc[p] EXCEPT !.pc = pc] \in Process
  BY <1>1 DEF Process
<1>3. proc' = [proc EXCEPT ![p] = [proc[p] EXCEPT !.pc = pc]]
  BY DEF Go
<1>4. proc'[p] = [proc[p] EXCEPT !.pc = pc]
  BY <1>1, <1>3
<1> QED
  BY <1>1, <1>2, <1>3, <1>4 DEF Goes, Process

\* One buffer changes.
LEMMA BufEffect ==
  ASSUME Types, NEW b \in Bufs, NEW r \in Buffer, buf' = [buf EXCEPT ![b] = r]
  PROVE  buf' \in [Bufs -> Buffer] /\ buf'[b] = r /\ \A c \in Bufs : c # b => buf'[c] = buf[c]
<1>1. buf \in [Bufs -> Buffer]
  BY DEF Types
<1> QED
  BY <1>1

LEMMA BufferFields ==
  ASSUME NEW B \in Buffer
  PROVE  /\ B.block \in Blocks \cup {None} /\ B.refcnt \in Int /\ B.valid \in BOOLEAN
         /\ B.holder \in Hands \cup {None} /\ B.data \in Int /\ B.disk \in BOOLEAN
BY DEF Buffer

LEMMA SetBlock ==
  ASSUME NEW B \in Buffer, NEW v \in Blocks \cup {None}
  PROVE  LET R == [B EXCEPT !.block = v] IN
           /\ R \in Buffer /\ R.block = v /\ R.refcnt = B.refcnt /\ R.valid = B.valid
           /\ R.holder = B.holder /\ R.data = B.data /\ R.disk = B.disk
BY DEF Buffer
LEMMA SetRefcnt ==
  ASSUME NEW B \in Buffer, NEW v \in Int
  PROVE  LET R == [B EXCEPT !.refcnt = v] IN
           /\ R \in Buffer /\ R.block = B.block /\ R.refcnt = v /\ R.valid = B.valid
           /\ R.holder = B.holder /\ R.data = B.data /\ R.disk = B.disk
BY DEF Buffer
LEMMA SetValid ==
  ASSUME NEW B \in Buffer, NEW v \in BOOLEAN
  PROVE  LET R == [B EXCEPT !.valid = v] IN
           /\ R \in Buffer /\ R.block = B.block /\ R.refcnt = B.refcnt /\ R.valid = v
           /\ R.holder = B.holder /\ R.data = B.data /\ R.disk = B.disk
BY DEF Buffer
LEMMA SetHolder ==
  ASSUME NEW B \in Buffer, NEW v \in Hands \cup {None}
  PROVE  LET R == [B EXCEPT !.holder = v] IN
           /\ R \in Buffer /\ R.block = B.block /\ R.refcnt = B.refcnt /\ R.valid = B.valid
           /\ R.holder = v /\ R.data = B.data /\ R.disk = B.disk
BY DEF Buffer
LEMMA SetData ==
  ASSUME NEW B \in Buffer, NEW v \in Int
  PROVE  LET R == [B EXCEPT !.data = v] IN
           /\ R \in Buffer /\ R.block = B.block /\ R.refcnt = B.refcnt /\ R.valid = B.valid
           /\ R.holder = B.holder /\ R.data = v /\ R.disk = B.disk
BY DEF Buffer
LEMMA SetDisk ==
  ASSUME NEW B \in Buffer, NEW v \in BOOLEAN
  PROVE  LET R == [B EXCEPT !.disk = v] IN
           /\ R \in Buffer /\ R.block = B.block /\ R.refcnt = B.refcnt /\ R.valid = B.valid
           /\ R.holder = B.holder /\ R.data = B.data /\ R.disk = v
BY DEF Buffer

LEMMA GetEffect ==
  ASSUME DiskAssumption, Types, NEW p \in Hands, NEW op \in Ops, NEW k \in Blocks, Get(p, op, k)
  PROVE  \E b \in Bufs :
           /\ \/ buf[b].block = k /\ Same(b, {"refcnt"}) /\ buf'[b].refcnt = buf[b].refcnt + 1
              \/ /\ \A c \in Bufs : buf[c].block # k
                 /\ buf[b].refcnt = 0
                 /\ Same(b, {"block", "valid", "refcnt"})
                 /\ buf'[b].block = k /\ ~buf'[b].valid /\ buf'[b].refcnt = 1
           /\ proc' \in [Hands -> Process]
           /\ \A q \in Hands : q # p => proc'[q] = proc[q]
           /\ proc'[p].pc = "lock" /\ proc'[p].op = op /\ proc'[p].b = b /\ proc'[p].id = proc[p].id
<1>1. PICK b \in IF Cached(k) # {} THEN Cached(k) ELSE Recycle :
       /\ buf' = IF buf[b].block = k THEN [buf EXCEPT ![b].refcnt = @ + 1]
                 ELSE [buf EXCEPT ![b].block = k, ![b].valid = FALSE, ![b].refcnt = 1]
       /\ proc' = [proc EXCEPT ![p] = [@ EXCEPT !.pc = "lock", !.op = op, !.b = b]]
  BY DEF Get, Asks
<1>2. b \in Bufs
  BY DEF Cached, Recycle, Types
<1>3. buf[b] \in Buffer /\ proc[p] \in Process
  BY <1>2 DEF Types
<1>4. /\ proc' \in [Hands -> Process]
      /\ \A q \in Hands : q # p => proc'[q] = proc[q]
      /\ proc'[p].pc = "lock" /\ proc'[p].op = op /\ proc'[p].b = b /\ proc'[p].id = proc[p].id
  BY <1>1, <1>2, <1>3 DEF Types, Process, PCs
<1>5. CASE buf[b].block = k
  <2> DEFINE R == [buf[b] EXCEPT !.refcnt = buf[b].refcnt + 1]
  <2>1. buf[b].refcnt + 1 \in Int
    BY <1>3, BufferFields
  <2>2. /\ R \in Buffer /\ R.block = buf[b].block /\ R.refcnt = buf[b].refcnt + 1 /\ R.valid = buf[b].valid
        /\ R.holder = buf[b].holder /\ R.data = buf[b].data /\ R.disk = buf[b].disk
    BY <1>3, <2>1, SetRefcnt
  <2>3. buf' = [buf EXCEPT ![b] = R]
    BY <1>1, <1>5
  <2> HIDE DEF R
  <2>4. buf' \in [Bufs -> Buffer] /\ buf'[b] = R /\ \A c \in Bufs : c # b => buf'[c] = buf[c]
    BY <1>2, <2>2, <2>3, BufEffect
  <2>5. Same(b, {"refcnt"}) /\ buf'[b].refcnt = buf[b].refcnt + 1
    BY <2>2, <2>4 DEF Same
  <2> QED
    BY <2>5, <1>2, <1>4, <1>5
<1>6. CASE buf[b].block # k
  <2>1. Cached(k) = {} /\ b \in Recycle
    BY <1>1, <1>6 DEF Cached
  <2>2. buf[b].refcnt = 0 /\ \A c \in Bufs : buf[c].block # k
    BY <2>1 DEF Recycle, Cached
  <2> DEFINE R1 == [buf[b] EXCEPT !.block = k]
             R2 == [R1 EXCEPT !.valid = FALSE]
             R == [R2 EXCEPT !.refcnt = 1]
  <2>5. R1 \in Buffer /\ R1.block = k /\ R1.holder = buf[b].holder /\ R1.data = buf[b].data /\ R1.disk = buf[b].disk
    BY <1>3, SetBlock
  <2>6. /\ R2 \in Buffer /\ R2.block = k /\ R2.holder = buf[b].holder /\ R2.data = buf[b].data /\ R2.disk = buf[b].disk
        /\ ~R2.valid
    <3> HIDE DEF R1
    <3> QED
      BY <2>5, SetValid
  <2>7. /\ R \in Buffer /\ R.block = k /\ R.holder = buf[b].holder /\ R.data = buf[b].data /\ R.disk = buf[b].disk
        /\ ~R.valid /\ R.refcnt = 1
    <3> HIDE DEF R2
    <3> QED
      BY <2>6, SetRefcnt
  <2>3. buf' = [buf EXCEPT ![b] = R]
    <3>1. buf' = [buf EXCEPT ![b].block = k, ![b].valid = FALSE, ![b].refcnt = 1]
      BY <1>1, <1>6
    <3>2. buf \in [Bufs -> Buffer]
      BY DEF Types
    <3> QED
      BY <3>1, <3>2, <1>2, Zenon
  <2> HIDE DEF R
  <2>8. buf' \in [Bufs -> Buffer] /\ buf'[b] = R /\ \A c \in Bufs : c # b => buf'[c] = buf[c]
    BY <1>2, <2>7, <2>3, BufEffect
  <2>4. Same(b, {"block", "valid", "refcnt"}) /\ buf'[b].block = k /\ ~buf'[b].valid /\ buf'[b].refcnt = 1
    BY <2>7, <2>8 DEF Same
  <2> QED
    BY <2>2, <2>4, <1>2, <1>4
<1> QED
  BY <1>5, <1>6

\* What the caller does with the contents of a valid buffer.
Uses(p, b) ==
  \/ buf'[b].data = buf[b].data /\ latest' = latest
  \/ /\ buf'[b].valid /\ proc[p].op \in {"write", "log"}
     /\ buf'[b].data = buf[b].data + 1
     /\ latest' = [latest EXCEPT ![buf[b].block] = @ + 1]

LEMMA HaveEffect ==
  ASSUME Types, NEW p \in Hands, NEW B \in Buffer, Have(p, B),
         B.block = Buf(p).block, B.data = Buf(p).data
  PROVE  /\ buf' \in [Bufs -> Buffer]
         /\ \A c \in Bufs : c # proc[p].b => buf'[c] = buf[c]
         /\ LET R == buf'[proc[p].b] IN
              R.block = B.block /\ R.refcnt = B.refcnt /\ R.valid = B.valid /\ R.holder = B.holder /\ R.disk = B.disk
         /\ Uses(p, proc[p].b)
         /\ Goes(p, IF B.valid THEN AfterRead(proc[p].op) ELSE "start") /\ proc'[p].id = proc[p].id
<1> DEFINE b == proc[p].b
           change == B.valid /\ proc[p].op \in {"write", "log"}
           E == [B EXCEPT !.data = B.data + 1]
           R == IF change THEN E ELSE B
<1>1. b \in Bufs
  BY DEF Types, Process
<1>2. B.data + 1 \in Int
  BY BufferFields
<1>3. /\ E \in Buffer /\ E.block = B.block /\ E.refcnt = B.refcnt /\ E.valid = B.valid
      /\ E.holder = B.holder /\ E.data = B.data + 1 /\ E.disk = B.disk
  BY <1>2, SetData
<1>4. buf' = [buf EXCEPT ![b] = R] /\ latest' = (IF change THEN [latest EXCEPT ![B.block] = @ + 1] ELSE latest)
  BY DEF Have
<1>5. R \in Buffer /\ R.block = B.block /\ R.refcnt = B.refcnt /\ R.valid = B.valid /\ R.holder = B.holder
      /\ R.disk = B.disk /\ R.data = IF change THEN B.data + 1 ELSE B.data
  <2> HIDE DEF E
  <2> QED
    BY <1>3
<1>6. Go(p, IF B.valid THEN AfterRead(proc[p].op) ELSE "start")
  BY DEF Have
<1>7. (IF B.valid THEN AfterRead(proc[p].op) ELSE "start") \in PCs
  BY DEF AfterRead, PCs, Holding
<1>8. Goes(p, IF B.valid THEN AfterRead(proc[p].op) ELSE "start") /\ proc'[p].id = proc[p].id
  BY <1>6, <1>7, GoEffect
<1> HIDE DEF R
<1>9. buf' \in [Bufs -> Buffer] /\ buf'[b] = R /\ \A c \in Bufs : c # b => buf'[c] = buf[c]
  BY <1>1, <1>4, <1>5, BufEffect
<1>10. Uses(p, b)
  BY <1>9, <1>4, <1>5 DEF Uses, Buf
<1> QED
  BY <1>5, <1>8, <1>9, <1>10

LEMMA Mine == ASSUME Types, NEW p \in Hands PROVE proc[p] \in Process /\ proc[p].b \in Bufs /\ proc[p].id \in Descs /\ Buf(p) \in Buffer
BY DEF Types, Process, Buf

LEMMA AcquireEffect ==
  ASSUME Types, NEW p \in Hands, Acquire(p)
  PROVE  LET b == proc[p].b IN
         /\ Same(b, {"holder", "data"})
         /\ buf[b].holder = None /\ buf'[b].holder = p
         /\ Uses(p, b)
         /\ Goes(p, IF buf[b].valid THEN AfterRead(proc[p].op) ELSE "start") /\ proc'[p].id = proc[p].id
<1> DEFINE B == [Buf(p) EXCEPT !.holder = p]
<1>1. proc[p].b \in Bufs /\ Buf(p) \in Buffer
  BY Mine
<1>2. /\ B \in Buffer /\ B.block = Buf(p).block /\ B.refcnt = Buf(p).refcnt /\ B.valid = Buf(p).valid
      /\ B.holder = p /\ B.data = Buf(p).data /\ B.disk = Buf(p).disk
  BY <1>1, SetHolder
<1>3. Have(p, B) /\ Buf(p).holder = None
  BY DEF Acquire
<1> HIDE DEF B
<1>4. /\ buf' \in [Bufs -> Buffer]
      /\ \A c \in Bufs : c # proc[p].b => buf'[c] = buf[c]
      /\ LET R == buf'[proc[p].b] IN
           R.block = B.block /\ R.refcnt = B.refcnt /\ R.valid = B.valid /\ R.holder = B.holder /\ R.disk = B.disk
      /\ Uses(p, proc[p].b)
      /\ Goes(p, IF B.valid THEN AfterRead(proc[p].op) ELSE "start") /\ proc'[p].id = proc[p].id
  BY <1>2, <1>3, HaveEffect
<1> QED
  BY <1>2, <1>3, <1>4 DEF Same, Buf

LEMMA StartEffect ==
  ASSUME DiskAssumption, Types, NEW p \in Hands, Start(p)
  PROVE  LET b == proc[p].b IN
         /\ Same(b, {"disk"}) /\ buf'[b].disk = TRUE
         /\ Goes(p, "wait")
         /\ \E i1, i2, i3 \in free :
              /\ i1 # i2 /\ i1 # i3 /\ i2 # i3
              /\ free' = free \ {i1, i2, i3}
              /\ desc' \in [Descs -> SUBSET Descs]
              /\ \A i \in Descs \ {i1, i2, i3} : desc'[i] = desc[i]
              /\ desc'[i1] = {i2} /\ desc'[i2] = {i3} /\ desc'[i3] = {}
              /\ info' \in [Descs -> Request]
              /\ \A i \in Descs \ {i1} : info'[i] = info[i]
              /\ info'[i1] = [b |-> b, write |-> buf[b].valid]
              /\ avail' = avail \cup {i1}
              /\ proc'[p].id = i1
<1> DEFINE b == proc[p].b
           i1 == Lowest(free)
           i2 == Lowest(free \ {i1})
           i3 == Lowest(free \ {i1, i2})
<1>1. b \in Bufs /\ buf[b] \in Buffer /\ proc[p] \in Process
  BY Mine DEF Buf
<1>2. i1 \in free /\ i2 \in free \ {i1} /\ i3 \in free \ {i1, i2}
  <2>1. free \subseteq Descs /\ Cardinality(free) >= 3 /\ Descs \subseteq Nat
    BY DEF Types, Start, Descs, DiskAssumption
  <2>2. IsFiniteSet(free)
    <3>1. IsFiniteSet(0..NUM - 1)
      <4>1. NUM - 1 \in Int
        BY DEF DiskAssumption
      <4> QED
        BY <4>1, FS_Interval
    <3> QED
      BY <2>1, <3>1, FS_Subset DEF Descs
  <2>3. \A S \in SUBSET free : S # {} => Lowest(S) \in S
    BY <2>1, LowestIn
  <2>4. free # {} /\ free \ {i1} # {} /\ free \ {i1, i2} # {}
    <3>1. \A x, y : Cardinality({x, y}) <= 2 /\ IsFiniteSet({x, y})
      BY AtMostTwo
    <3>2. \A x, y : free \ {x, y} # {}
      <4> SUFFICES ASSUME NEW x, NEW y, free \subseteq {x, y} PROVE FALSE
        OBVIOUS
      <4>1. Cardinality(free) <= Cardinality({x, y}) /\ Cardinality({x, y}) <= 2 /\ IsFiniteSet({x, y})
        BY <3>1, FS_Subset
      <4>2. Cardinality(free) \in Nat /\ Cardinality({x, y}) \in Nat
        BY <2>2, <4>1, FS_CardinalityType
      <4> HIDE DEF i1, i2
      <4> QED
        BY <4>1, <4>2, <2>1
    <3> HIDE DEF i1, i2
    <3> QED
      BY <3>2
  <2> QED
    <3> HIDE DEF i3
    <3>1. i1 \in free
      BY <2>3, <2>4
    <3>2. i2 \in free \ {i1}
      <4> HIDE DEF i1
      <4> QED
        BY <2>3, <2>4
    <3>3. i3 \in free \ {i1, i2}
      <4> HIDE DEF i1, i2
      <4> QED
        BY <2>3, <2>4 DEF i3
    <3> QED
      BY <3>1, <3>2, <3>3
<1>3. /\ free' = free \ {i1, i2, i3}
      /\ desc' = [desc EXCEPT ![i1] = {i2}, ![i2] = {i3}, ![i3] = {}]
      /\ info' = [info EXCEPT ![i1] = [b |-> b, write |-> buf[b].valid]]
      /\ avail' = avail \cup {i1}
      /\ buf' = [buf EXCEPT ![b] = [buf[b] EXCEPT !.disk = TRUE]]
      /\ proc' = [proc EXCEPT ![p] = [[proc[p] EXCEPT !.pc = "wait"] EXCEPT !.id = i1]]
  <2>1. proc \in [Hands -> Process]
    BY DEF Types
  <2>2. proc' = [proc EXCEPT ![p].pc = "wait", ![p].id = i1]
    BY DEF Start
  <2>3. proc' = [proc EXCEPT ![p] = [[proc[p] EXCEPT !.pc = "wait"] EXCEPT !.id = i1]]
    BY <2>1, <2>2, Zenon
  <2> QED
    BY <2>3 DEF Start, Buf
<1> HIDE DEF i1, i2, i3
<1>4. free \subseteq Descs /\ desc \in [Descs -> SUBSET Descs] /\ info \in [Descs -> Request] /\ proc \in [Hands -> Process]
  BY DEF Types
<1>5. Same(b, {"disk"}) /\ buf'[b].disk = TRUE
  <2> DEFINE R == [buf[b] EXCEPT !.disk = TRUE]
  <2>1. /\ R \in Buffer /\ R.block = buf[b].block /\ R.refcnt = buf[b].refcnt /\ R.valid = buf[b].valid
        /\ R.holder = buf[b].holder /\ R.data = buf[b].data /\ R.disk = TRUE
    BY <1>1, SetDisk
  <2>2. buf' = [buf EXCEPT ![b] = R]
    BY <1>3
  <2> HIDE DEF R
  <2>3. buf' \in [Bufs -> Buffer] /\ buf'[b] = R /\ \A c \in Bufs : c # b => buf'[c] = buf[c]
    BY <1>1, <2>1, <2>2, BufEffect
  <2> QED
    BY <2>1, <2>3 DEF Same
<1>6. Goes(p, "wait") /\ proc'[p].id = i1
  <2>1. i1 \in Descs
    BY <1>2, <1>4
  <2> DEFINE r == [[proc[p] EXCEPT !.pc = "wait"] EXCEPT !.id = i1]
  <2>2. r \in Process /\ r.pc = "wait" /\ r.op = proc[p].op /\ r.b = proc[p].b /\ r.id = i1
    BY <1>1, <2>1 DEF Process, PCs, Holding
  <2>3. proc' = [proc EXCEPT ![p] = r]
    BY <1>3
  <2> HIDE DEF r
  <2> QED
    BY <2>2, <2>3, <1>4 DEF Goes
<1>7. /\ desc' \in [Descs -> SUBSET Descs]
      /\ \A i \in Descs \ {i1, i2, i3} : desc'[i] = desc[i]
      /\ desc'[i1] = {i2} /\ desc'[i2] = {i3} /\ desc'[i3] = {}
  BY <1>2, <1>3, <1>4
<1>8. /\ info' \in [Descs -> Request]
      /\ \A i \in Descs \ {i1} : info'[i] = info[i]
      /\ info'[i1] = [b |-> b, write |-> buf[b].valid]
  <2>1. [b |-> b, write |-> buf[b].valid] \in Request
    BY <1>1, BufferFields DEF Request, Bufs
  <2> QED
    BY <1>2, <1>3, <1>4, <2>1
<1> QED
  BY <1>2, <1>3, <1>5, <1>6, <1>7, <1>8

LEMMA FinishEffect ==
  ASSUME Types, NEW p \in Hands, Finish(p)
  PROVE  LET b == proc[p].b IN
         /\ ~buf[b].disk
         /\ IF buf[b].valid
            THEN buf' = buf /\ latest' = latest /\ Goes(p, IF proc[p].op = "install" THEN "unpin" ELSE "release")
            ELSE /\ Same(b, {"valid", "data"}) /\ buf'[b].valid
                 /\ Uses(p, b)
                 /\ Goes(p, AfterRead(proc[p].op))
         /\ proc'[p].id = proc[p].id
<1>1. proc[p].b \in Bufs /\ Buf(p) \in Buffer
  BY Mine
<1>2. CASE Buf(p).valid
  <2>1. Go(p, IF proc[p].op = "install" THEN "unpin" ELSE "release") /\ UNCHANGED <<buf, latest>> /\ ~Buf(p).disk
    BY <1>2 DEF Finish
  <2>2. (IF proc[p].op = "install" THEN "unpin" ELSE "release") \in PCs
    BY DEF PCs, Holding
  <2>3. Goes(p, IF proc[p].op = "install" THEN "unpin" ELSE "release") /\ proc'[p].id = proc[p].id
    BY <2>1, <2>2, GoEffect
  <2> QED
    BY <1>2, <2>1, <2>3 DEF Buf
<1>3. CASE ~Buf(p).valid
  <2> DEFINE B == [Buf(p) EXCEPT !.valid = TRUE]
  <2>1. /\ B \in Buffer /\ B.block = Buf(p).block /\ B.refcnt = Buf(p).refcnt /\ B.valid
        /\ B.holder = Buf(p).holder /\ B.data = Buf(p).data /\ B.disk = Buf(p).disk
    BY <1>1, SetValid
  <2>2. Have(p, B) /\ ~Buf(p).disk
    BY <1>3 DEF Finish
  <2> HIDE DEF B
  <2>3. /\ buf' \in [Bufs -> Buffer]
        /\ \A c \in Bufs : c # proc[p].b => buf'[c] = buf[c]
        /\ LET R == buf'[proc[p].b] IN
             R.block = B.block /\ R.refcnt = B.refcnt /\ R.valid = B.valid /\ R.holder = B.holder /\ R.disk = B.disk
        /\ Uses(p, proc[p].b)
        /\ Goes(p, IF B.valid THEN AfterRead(proc[p].op) ELSE "start") /\ proc'[p].id = proc[p].id
    BY <2>1, <2>2, HaveEffect
  <2>4. Same(proc[p].b, {"valid", "data"}) /\ buf'[proc[p].b].valid
    BY <2>1, <2>3 DEF Same, Buf
  <2>5. Goes(p, AfterRead(proc[p].op))
    BY <2>1, <2>3
  <2> QED
    BY <1>3, <2>2, <2>3, <2>4, <2>5 DEF Buf
<1> QED
  BY <1>2, <1>3

\* A change of one count, or of none.
LEMMA CountEffect ==
  ASSUME Types, NEW b \in Bufs, NEW v \in Int, buf' = [buf EXCEPT ![b] = [buf[b] EXCEPT !.refcnt = v]]
  PROVE  Same(b, {"refcnt"}) /\ buf'[b].refcnt = v
<1> DEFINE R == [buf[b] EXCEPT !.refcnt = v]
<1>1. buf[b] \in Buffer
  BY DEF Types
<1>2. /\ R \in Buffer /\ R.block = buf[b].block /\ R.refcnt = v /\ R.valid = buf[b].valid
      /\ R.holder = buf[b].holder /\ R.data = buf[b].data /\ R.disk = buf[b].disk
  BY <1>1, SetRefcnt
<1>3. buf' = [buf EXCEPT ![b] = R]
  OBVIOUS
<1> HIDE DEF R
<1>4. buf' \in [Bufs -> Buffer] /\ buf'[b] = R /\ \A c \in Bufs : c # b => buf'[c] = buf[c]
  BY <1>2, <1>3, BufEffect
<1> QED
  BY <1>2, <1>4 DEF Same

LEMMA NoEffect == ASSUME Types, NEW b \in Bufs, buf' = buf PROVE Same(b, {})
BY DEF Types, Same

LEMMA PinEffect ==
  ASSUME Types, NEW p \in Hands, Pin(p)
  PROVE  LET b == proc[p].b IN
         /\ Same(b, {"refcnt"})
         /\ buf'[b].refcnt = buf[b].refcnt + (IF buf[b].block \in pinned THEN 0 ELSE 1)
         /\ pinned' = pinned \cup {buf[b].block}
         /\ Goes(p, "release") /\ proc'[p].id = proc[p].id
<1>1. proc[p].b \in Bufs /\ Buf(p) \in Buffer
  BY Mine
<1>2. Goes(p, "release") /\ proc'[p].id = proc[p].id
  <2>1. "release" \in PCs /\ Go(p, "release")
    BY DEF PCs, Holding, Pin
  <2> QED
    BY <2>1, GoEffect
<1>3. CASE BlockOf(p) \in pinned
  <2>1. buf' = buf
    BY <1>3 DEF Pin
  <2>2. Same(proc[p].b, {})
    BY <1>1, <2>1, NoEffect
  <2>3. buf[proc[p].b].refcnt \in Int
    BY <1>1, BufferFields DEF Buf
  <2> QED
    BY <1>2, <1>3, <2>1, <2>2, <2>3 DEF Pin, BlockOf, Buf, Same
<1>4. CASE BlockOf(p) \notin pinned
  <2>1. buf' = [buf EXCEPT ![proc[p].b] = [buf[proc[p].b] EXCEPT !.refcnt = buf[proc[p].b].refcnt + 1]]
    BY <1>4 DEF Pin
  <2>2. buf[proc[p].b].refcnt + 1 \in Int
    BY <1>1, BufferFields DEF Buf
  <2>3. Same(proc[p].b, {"refcnt"}) /\ buf'[proc[p].b].refcnt = buf[proc[p].b].refcnt + 1
    BY <1>1, <2>1, <2>2, CountEffect
  <2> QED
    BY <1>2, <1>4, <2>3 DEF Pin, BlockOf, Buf
<1> QED
  BY <1>3, <1>4

LEMMA UnpinEffect ==
  ASSUME Types, NEW p \in Hands, Unpin(p)
  PROVE  LET b == proc[p].b IN
         /\ Same(b, {"refcnt"})
         /\ buf'[b].refcnt = buf[b].refcnt - 1
         /\ pinned' = pinned \ {buf[b].block}
         /\ Goes(p, "release") /\ proc'[p].id = proc[p].id
<1>1. proc[p].b \in Bufs /\ Buf(p) \in Buffer
  BY Mine
<1>2. Goes(p, "release") /\ proc'[p].id = proc[p].id
  <2>1. "release" \in PCs /\ Go(p, "release")
    BY DEF PCs, Holding, Unpin
  <2> QED
    BY <2>1, GoEffect
<1>3. buf' = [buf EXCEPT ![proc[p].b] = [buf[proc[p].b] EXCEPT !.refcnt = buf[proc[p].b].refcnt - 1]]
  BY DEF Unpin
<1>4. buf[proc[p].b].refcnt - 1 \in Int
  BY <1>1, BufferFields DEF Buf
<1>5. Same(proc[p].b, {"refcnt"}) /\ buf'[proc[p].b].refcnt = buf[proc[p].b].refcnt - 1
  BY <1>1, <1>3, <1>4, CountEffect
<1> QED
  BY <1>2, <1>5 DEF Unpin, BlockOf, Buf

LEMMA ReleaseEffect ==
  ASSUME Types, NEW p \in Hands, Release(p)
  PROVE  LET b == proc[p].b IN
         /\ Same(b, {"holder"}) /\ buf'[b].holder = None
         /\ Goes(p, "drop") /\ proc'[p].id = proc[p].id
<1> DEFINE b == proc[p].b
           R == [buf[b] EXCEPT !.holder = None]
<1>1. b \in Bufs /\ buf[b] \in Buffer
  BY Mine DEF Buf
<1>2. Goes(p, "drop") /\ proc'[p].id = proc[p].id
  <2>1. "drop" \in PCs /\ Go(p, "drop")
    BY DEF PCs, Release
  <2> QED
    BY <2>1, GoEffect
<1>3. /\ R \in Buffer /\ R.block = buf[b].block /\ R.refcnt = buf[b].refcnt /\ R.valid = buf[b].valid
      /\ R.holder = None /\ R.data = buf[b].data /\ R.disk = buf[b].disk
  BY <1>1, SetHolder
<1>4. buf' = [buf EXCEPT ![b] = R]
  BY DEF Release
<1> HIDE DEF R
<1>5. buf' \in [Bufs -> Buffer] /\ buf'[b] = R /\ \A c \in Bufs : c # b => buf'[c] = buf[c]
  BY <1>1, <1>3, <1>4, BufEffect
<1> QED
  BY <1>2, <1>3, <1>5 DEF Same

LEMMA DropEffect ==
  ASSUME DiskAssumption, Types, NEW p \in Hands, Drop(p)
  PROVE  LET b == proc[p].b IN
         /\ Same(b, {"refcnt"})
         /\ buf'[b].refcnt = buf[b].refcnt - 1
         /\ proc' \in [Hands -> Process]
         /\ \A q \in Hands : q # p => proc'[q] = proc[q]
         /\ proc'[p] = Idle
         /\ lru' \in [1..NBUF -> Bufs] /\ \A c \in Bufs : \E j \in 1..NBUF : lru'[j] = c
<1> DEFINE b == proc[p].b
<1>1. b \in Bufs /\ buf[b] \in Buffer
  BY Mine DEF Buf
<1>2. Same(b, {"refcnt"}) /\ buf'[b].refcnt = buf[b].refcnt - 1
  <2>1. buf' = [buf EXCEPT ![b] = [buf[b] EXCEPT !.refcnt = buf[b].refcnt - 1]]
    BY DEF Drop
  <2>2. buf[b].refcnt - 1 \in Int
    BY <1>1, BufferFields
  <2> QED
    BY <1>1, <2>1, <2>2, CountEffect
<1>3. proc' \in [Hands -> Process] /\ (\A q \in Hands : q # p => proc'[q] = proc[q]) /\ proc'[p] = Idle
  <2>1. Idle \in Process
    BY DEF Idle, Process, PCs, Ops, Bufs, Descs, DiskAssumption
  <2>2. proc' = [proc EXCEPT ![p] = Idle] /\ proc \in [Hands -> Process]
    BY DEF Drop, Types
  <2> QED
    BY <2>1, <2>2
<1>4. lru' \in [1..NBUF -> Bufs] /\ \A c \in Bufs : \E j \in 1..NBUF : lru'[j] = c
  <2>1. lru \in [1..NBUF -> Bufs] /\ NBUF \in Nat \ {0} /\ \A c \in Bufs : \E j \in 1..NBUF : lru[j] = c
    BY DEF Types, DiskAssumption
  <2>2. lru' = lru \/ lru' = ToFront(b)
    BY DEF Drop
  <2> DEFINE i == CHOOSE j \in 1..NBUF : lru[j] = b
             F == [j \in 1..NBUF |-> IF j = 1 THEN b ELSE IF j <= i THEN lru[j - 1] ELSE lru[j]]
  <2>3. i \in 1..NBUF /\ lru[i] = b
    BY <1>1, <2>1
  <2>4. ToFront(b) = F
    BY DEF ToFront
  <2> HIDE DEF i
  <2>5. F \in [1..NBUF -> Bufs]
    <3> SUFFICES ASSUME NEW j \in 1..NBUF PROVE (IF j = 1 THEN b ELSE IF j <= i THEN lru[j - 1] ELSE lru[j]) \in Bufs
      OBVIOUS
    <3>1. CASE j # 1
      <4>1. j - 1 \in 1..NBUF
        BY <3>1, <2>1
      <4> QED
        BY <4>1, <2>1, <1>1
    <3> QED
      BY <3>1, <1>1
  <2>6. ASSUME NEW c \in Bufs PROVE \E j \in 1..NBUF : F[j] = c
    <3>1. PICK j \in 1..NBUF : lru[j] = c
      BY <2>1
    <3>2. CASE j = i
      <4>1. 1 \in 1..NBUF /\ F[1] = b
        BY <2>1
      <4> QED
        BY <4>1, <3>1, <3>2, <2>3
    <3>3. CASE j < i
      <4>1. j + 1 \in 1..NBUF /\ j + 1 # 1 /\ j + 1 <= i /\ j + 1 - 1 = j
        BY <3>3, <2>1, <2>3
      <4>2. F[j + 1] = c
        BY <4>1, <3>1
      <4> QED
        BY <4>1, <4>2
    <3>4. CASE j > i
      <4>1. j # 1 /\ ~(j <= i)
        BY <3>4, <2>3
      <4>2. F[j] = c
        BY <4>1, <3>1
      <4> QED
        BY <4>2
    <3> QED
      BY <3>2, <3>3, <3>4, <2>3
  <2> HIDE DEF F
  <2> QED
    BY <2>1, <2>2, <2>4, <2>5, <2>6
<1> QED
  BY <1>2, <1>3, <1>4

LEMMA DeviceEffect ==
  ASSUME Types, NEW id \in Descs, Device(id), info[id].b \in Bufs, buf[info[id].b].block \in Blocks
  PROVE  LET b == info[id].b IN
         /\ id \in avail /\ avail' = avail \ {id}
         /\ used' = Append(used, id) /\ irq' = TRUE
         /\ IF info[id].write
            THEN buf' = buf /\ platter' = [platter EXCEPT ![buf[b].block] = buf[b].data]
            ELSE Same(b, {"data"}) /\ buf'[b].data = platter[buf[b].block] /\ platter' = platter
<1> DEFINE b == info[id].b
           R == [buf[b] EXCEPT !.data = platter[buf[b].block]]
<1>1. b \in Bufs /\ buf[b] \in Buffer /\ platter[buf[b].block] \in Int
  BY DEF Types
<1>2. id \in avail /\ avail' = avail \ {id} /\ used' = Append(used, id) /\ irq' = TRUE
  BY DEF Device
<1>3. CASE info[id].write
  BY <1>2, <1>3 DEF Device
<1>4. CASE ~info[id].write
  <2>1. /\ R \in Buffer /\ R.block = buf[b].block /\ R.refcnt = buf[b].refcnt /\ R.valid = buf[b].valid
        /\ R.holder = buf[b].holder /\ R.data = platter[buf[b].block] /\ R.disk = buf[b].disk
    BY <1>1, SetData
  <2>2. buf' = [buf EXCEPT ![b] = R] /\ platter' = platter
    BY <1>4 DEF Device
  <2> HIDE DEF R
  <2>3. buf' \in [Bufs -> Buffer] /\ buf'[b] = R /\ \A c \in Bufs : c # b => buf'[c] = buf[c]
    BY <1>1, <2>1, <2>2, BufEffect
  <2> QED
    BY <1>2, <1>4, <2>1, <2>2, <2>3 DEF Same
<1> QED
  BY <1>3, <1>4

LEMMA ScanEffect ==
  ASSUME Types, Scan, info[Head(used)].b \in Bufs
  PROVE  LET b == info[Head(used)].b IN
         Same(b, {"disk"}) /\ buf'[b].disk = FALSE /\ used # <<>> /\ used' = Tail(used)
<1> DEFINE b == info[Head(used)].b
           R == [buf[b] EXCEPT !.disk = FALSE]
<1>1. b \in Bufs /\ buf[b] \in Buffer
  BY DEF Types
<1>2. /\ R \in Buffer /\ R.block = buf[b].block /\ R.refcnt = buf[b].refcnt /\ R.valid = buf[b].valid
      /\ R.holder = buf[b].holder /\ R.data = buf[b].data /\ R.disk = FALSE
  BY <1>1, SetDisk
<1>3. buf' = [buf EXCEPT ![b] = R] /\ used # <<>> /\ used' = Tail(used)
  BY DEF Scan
<1> HIDE DEF R
<1>4. buf' \in [Bufs -> Buffer] /\ buf'[b] = R /\ \A c \in Bufs : c # b => buf'[c] = buf[c]
  BY <1>1, <1>2, <1>3, BufEffect
<1> QED
  BY <1>2, <1>3, <1>4 DEF Same

\* A descriptor that the device or the driver has yet to deal with is the first of
\* the request of a process that waits.
LEMMA UnderWay ==
  ASSUME DiskAssumption, Types, Calls, Requests, NEW id, id \in avail \cup UsedIds
  PROVE  /\ \E p \in Inflight : proc[p].id = id /\ info[id].b = proc[p].b /\ info[id].write = Buf(p).valid
         /\ info[id].b \in Bufs /\ buf[info[id].b].block \in Blocks
<1>1. PICK p \in Inflight : proc[p].id = id
  BY DEF Requests
<1>2. info[id] = [b |-> proc[p].b, write |-> Buf(p).valid]
  BY <1>1 DEF Requests
<1>3. info[id].b = proc[p].b /\ info[id].write = Buf(p).valid
  BY <1>2
<1>4. p \in Hands /\ proc[p].pc # "idle"
  BY DEF Inflight
<1>5. proc[p].b \in Bufs /\ buf[proc[p].b].block \in Blocks
  BY <1>4, Mine DEF Calls, BlockOf, Buf
<1> QED
  BY <1>1, <1>3, <1>5

LEMMA HeadUnderWay ==
  ASSUME DiskAssumption, Types, Calls, Requests, used # <<>>
  PROVE  /\ Head(used) \in UsedIds
         /\ \E p \in Inflight : proc[p].id = Head(used) /\ info[Head(used)].b = proc[p].b
         /\ info[Head(used)].b \in Bufs
<1>1. used \in Seq(Descs)
  BY DEF Types
<1>2. Head(used) = used[1] /\ 1 \in 1..Len(used)
  BY <1>1
<1>3. Head(used) \in UsedIds
  BY <1>2 DEF UsedIds
<1> QED
  BY <1>3, UnderWay

-----------------------------------------------------------------------------
(* Types.                                                                    *)

CacheTypes ==
  /\ buf \in [Bufs -> Buffer] /\ lru \in [1..NBUF -> Bufs]
  /\ \A b \in Bufs : \E j \in 1..NBUF : lru[j] = b
CallTypes == proc \in [Hands -> Process] /\ chan \in [Hands -> Chans]
DriverTypes ==
  /\ free \subseteq Descs /\ desc \in [Descs -> SUBSET Descs] /\ info \in [Descs -> Request]
  /\ avail \subseteq Descs /\ used \in Seq(Descs)
  /\ irq \in BOOLEAN /\ intr \in {"none", "scan", "exit"}
BlockTypes == platter \in [Blocks -> Int] /\ latest \in [Blocks -> Int] /\ pinned \subseteq Blocks

LEMMA TypesSplit == Types <=> CacheTypes /\ CallTypes /\ DriverTypes /\ BlockTypes
BY Zenon DEF Types, CacheTypes, CallTypes, DriverTypes, BlockTypes
LEMMA TypesJoin ==
  ASSUME CacheTypes', CallTypes', DriverTypes', BlockTypes'
  PROVE  Types'
BY Zenon DEF Types, CacheTypes, CallTypes, DriverTypes, BlockTypes

LEMMA Channels ==
  /\ <<>> \in Chans /\ <<"free">> \in Chans
  /\ \A b \in Bufs : <<"lock", b>> \in Chans /\ <<"disk", b>> \in Chans
BY DEF Chans

LEMMA WakeupTypes ==
  ASSUME CallTypes, NEW c
  PROVE  Wakeup(c) \in [Hands -> Chans]
BY Channels DEF CallTypes, Wakeup

LEMMA SameTypes ==
  /\ \A b \in Bufs : \A S : CacheTypes /\ UNCHANGED lru /\ Same(b, S) => CacheTypes'
  /\ CacheTypes /\ UNCHANGED bvars => CacheTypes'
  /\ DriverTypes /\ UNCHANGED <<free, desc, info, avail, used, irq, intr>> => DriverTypes'
  /\ BlockTypes /\ UNCHANGED <<platter, latest, pinned>> => BlockTypes'
  /\ CallTypes /\ UNCHANGED <<proc, chan>> => CallTypes'
BY DEF CacheTypes, Same, bvars, DriverTypes, BlockTypes, CallTypes

LEMMA UsesTypes ==
  ASSUME BlockTypes, NEW p, NEW b \in Bufs, Uses(p, b), buf[b].block \in Blocks, UNCHANGED <<platter, pinned>>
  PROVE  BlockTypes'
<1>1. CASE latest' = latest
  BY <1>1 DEF BlockTypes
<1>2. CASE latest' = [latest EXCEPT ![buf[b].block] = @ + 1]
  BY <1>2 DEF BlockTypes
<1> QED
  BY <1>1, <1>2 DEF Uses

LEMMA TypesStep ==
  ASSUME DiskAssumption, Types, Calls, NEW p \in Hands, Step(p)
  PROVE  Types'
<1> DEFINE b == proc[p].b
<1>1. CacheTypes /\ CallTypes /\ DriverTypes /\ BlockTypes /\ b \in Bufs
  BY TypesSplit, Mine
<1>2. proc[p].pc # "idle" => buf[b].block \in Blocks
  BY DEF Calls, BlockOf, Buf
<1>3. \A pc : Goes(p, pc) => proc' \in [Hands -> Process]
  BY DEF Goes
<1>4. \A S : UNCHANGED lru /\ Same(b, S) => CacheTypes'
  BY <1>1, SameTypes
<1> HIDE DEF b
<1>5. CASE Acquire(p)
  <2>1. Same(b, {"holder", "data"}) /\ Uses(p, b) /\ proc' \in [Hands -> Process]
    BY <1>5, <1>3, AcquireEffect DEF b
  <2>2. proc[p].pc = "lock" /\ UNCHANGED <<lru, chan, free, desc, info, avail, used, irq, intr, platter, pinned>>
    BY <1>5 DEF Acquire, At, dvars
  <2>3. BlockTypes'
    BY <1>1, <1>2, <2>1, <2>2, UsesTypes
  <2>4. CallTypes'
    BY <1>1, <2>1, <2>2 DEF CallTypes
  <2> QED
    BY <1>1, <1>4, <2>1, <2>2, <2>3, <2>4, SameTypes, TypesJoin
<1>6. CASE AcquireSleep(p) \/ WaitSleep(p)
  <2>1. UNCHANGED <<bvars, proc, dvars, latest, pinned>> /\ \E c \in Chans : chan' = [chan EXCEPT ![p] = c]
    BY <1>1, <1>6, Channels DEF AcquireSleep, WaitSleep, b
  <2>2. CallTypes'
    BY <1>1, <2>1 DEF CallTypes
  <2> QED
    BY <1>1, <2>1, <2>2, SameTypes, TypesJoin DEF dvars
<1>7. CASE Start(p)
  <2>1. Same(b, {"disk"}) /\ proc' \in [Hands -> Process]
    BY <1>7, <1>3, StartEffect DEF b
  <2>2. UNCHANGED <<lru, used, irq, intr, platter, latest, pinned>> /\ chan' = [chan EXCEPT ![p] = <<"disk", b>>]
    BY <1>7 DEF Start, b
  <2>3. CallTypes'
    BY <1>1, <2>1, <2>2, Channels DEF CallTypes
  <2>4. DriverTypes'
    <3>1. /\ free' \subseteq free /\ desc' \in [Descs -> SUBSET Descs] /\ info' \in [Descs -> Request]
          /\ \E i \in free : avail' = avail \cup {i}
      BY <1>7, StartEffect
    <3> QED
      BY <1>1, <2>2, <3>1 DEF DriverTypes
  <2> QED
    BY <1>1, <1>4, <2>1, <2>2, <2>3, <2>4, SameTypes, TypesJoin
<1>8. CASE StartSleep(p)
  <2>1. /\ UNCHANGED <<bvars, proc, dvars, latest, pinned>>
        /\ chan' = [IF free = {} THEN chan ELSE Wakeup(<<"free">>) EXCEPT ![p] = <<"free">>]
    BY <1>8 DEF StartSleep
  <2>2. CallTypes'
    <3>1. (IF free = {} THEN chan ELSE Wakeup(<<"free">>)) \in [Hands -> Chans]
      BY <1>1, WakeupTypes DEF CallTypes
    <3>2. <<"free">> \in Chans
      BY Channels
    <3>3. chan' \in [Hands -> Chans]
      BY <2>1, <3>1, <3>2
    <3> QED
      BY <1>1, <2>1, <3>3 DEF CallTypes
  <2> QED
    BY <1>1, <2>1, <2>2, SameTypes, TypesJoin DEF dvars
<1>9. CASE Finish(p)
  <2>1. /\ chan' = Wakeup(<<"free">>) /\ UNCHANGED <<lru, avail, used, irq, intr, platter, pinned>>
        /\ free' = free \cup Chain(proc[p].id)
        /\ desc' = [i \in Descs |-> IF i \in Chain(proc[p].id) THEN {} ELSE desc[i]]
        /\ info' = [info EXCEPT ![proc[p].id] = NoRequest]
        /\ proc[p].pc = "wait"
    BY <1>9 DEF Finish, At
  <2>2. DriverTypes'
    <3>1. proc[p].id \in Descs
      BY Mine
    <3>2. Chain(proc[p].id) \subseteq Descs
      BY <3>1, <1>1 DEF Chain, DriverTypes
    <3>3. NoRequest \in Request
      BY DEF NoRequest, Request
    <3> QED
      BY <1>1, <2>1, <3>2, <3>3 DEF DriverTypes
  <2>3. proc' \in [Hands -> Process] /\ CacheTypes' /\ BlockTypes'
    <3>1. CASE buf[b].valid
      <4>1. UNCHANGED <<buf, latest>> /\ proc' \in [Hands -> Process]
        BY <1>9, <3>1, <1>3, FinishEffect DEF b
      <4> QED
        BY <4>1, <2>1, <1>1, SameTypes DEF bvars
    <3>2. CASE ~buf[b].valid
      <4>1. Same(b, {"valid", "data"}) /\ Uses(p, b) /\ proc' \in [Hands -> Process]
        BY <1>9, <3>2, <1>3, FinishEffect DEF b
      <4>2. BlockTypes'
        BY <1>1, <1>2, <4>1, <2>1, UsesTypes
      <4> QED
        BY <4>1, <4>2, <2>1, <1>4
    <3> QED
      BY <3>1, <3>2
  <2>4. CallTypes'
    BY <1>1, <2>1, <2>3, WakeupTypes DEF CallTypes
  <2> QED
    BY <2>2, <2>3, <2>4, TypesJoin
<1>10. CASE Pin(p)
  <2>1. Same(b, {"refcnt"}) /\ proc' \in [Hands -> Process] /\ pinned' = pinned \cup {buf[b].block}
    BY <1>10, <1>3, PinEffect DEF b
  <2>2. UNCHANGED <<lru, chan, free, desc, info, avail, used, irq, intr, platter, latest>> /\ proc[p].pc = "pin"
    BY <1>10 DEF Pin, dvars, At
  <2>3. BlockTypes' /\ CallTypes'
    BY <1>1, <1>2, <2>1, <2>2 DEF BlockTypes, CallTypes
  <2> QED
    BY <1>1, <1>4, <2>1, <2>2, <2>3, SameTypes, TypesJoin
<1>11. CASE Unpin(p)
  <2>1. Same(b, {"refcnt"}) /\ proc' \in [Hands -> Process] /\ pinned' = pinned \ {buf[b].block}
    BY <1>11, <1>3, UnpinEffect DEF b
  <2>2. UNCHANGED <<lru, chan, free, desc, info, avail, used, irq, intr, platter, latest>>
    BY <1>11 DEF Unpin, dvars
  <2>3. BlockTypes' /\ CallTypes'
    BY <1>1, <2>1, <2>2 DEF BlockTypes, CallTypes
  <2> QED
    BY <1>1, <1>4, <2>1, <2>2, <2>3, SameTypes, TypesJoin
<1>12. CASE Release(p)
  <2>1. Same(b, {"holder"}) /\ proc' \in [Hands -> Process]
    BY <1>12, <1>3, ReleaseEffect DEF b
  <2>2. /\ UNCHANGED <<lru, free, desc, info, avail, used, irq, intr, platter, latest, pinned>>
        /\ chan' = Wakeup(<<"lock", proc[p].b>>)
    BY <1>12 DEF Release, dvars
  <2>3. CallTypes'
    BY <1>1, <2>1, <2>2, WakeupTypes DEF CallTypes
  <2> QED
    BY <1>1, <1>4, <2>1, <2>2, <2>3, SameTypes, TypesJoin
<1>13. CASE Drop(p)
  <2>1. /\ Same(b, {"refcnt"}) /\ proc' \in [Hands -> Process]
        /\ lru' \in [1..NBUF -> Bufs] /\ \A c \in Bufs : \E j \in 1..NBUF : lru'[j] = c
    BY <1>13, DropEffect DEF b
  <2>2. UNCHANGED <<chan, free, desc, info, avail, used, irq, intr, platter, latest, pinned>>
    BY <1>13 DEF Drop, dvars
  <2>3. CacheTypes' /\ CallTypes'
    BY <1>1, <2>1, <2>2 DEF CacheTypes, CallTypes, Same
  <2> QED
    BY <1>1, <2>2, <2>3, SameTypes, TypesJoin
<1> QED
  BY <1>5, <1>6, <1>7, <1>8, <1>9, <1>10, <1>11, <1>12, <1>13 DEF Step

LEMMA TypesOther ==
  ASSUME DiskAssumption, Types, Calls, Chains, Requests,
         \/ \E p \in Hands : Kill(p) \/ \E op \in {"read", "write", "log", "install"}, k \in Blocks : Get(p, op, k)
         \/ \E id \in Descs : Device(id)
         \/ Handler
  PROVE  Types'
<1>1. CacheTypes /\ CallTypes /\ DriverTypes /\ BlockTypes
  BY TypesSplit
<1>2. CASE \E p \in Hands : Kill(p)
  <2>1. UNCHANGED <<bvars, proc, dvars, latest, pinned>> /\ \E p \in Hands : chan' = [chan EXCEPT ![p] = <<>>]
    BY <1>2 DEF Kill
  <2>2. CallTypes'
    BY <1>1, <2>1, Channels DEF CallTypes
  <2> QED
    BY <1>1, <2>1, <2>2, SameTypes, TypesJoin DEF dvars
<1>3. ASSUME NEW p \in Hands, NEW op \in {"read", "write", "log", "install"}, NEW k \in Blocks, Get(p, op, k) PROVE Types'
  <2>1. op \in Ops
    BY DEF Ops
  <2>2. (\E b \in Bufs : \E S : Same(b, S)) /\ proc' \in [Hands -> Process]
    BY <1>3, <2>1, GetEffect
  <2>3. UNCHANGED <<lru, chan, dvars, latest, pinned>>
    BY <1>3 DEF Get, Asks
  <2>4. CallTypes' /\ CacheTypes'
    BY <1>1, <2>2, <2>3 DEF CallTypes, CacheTypes, Same
  <2> QED
    BY <1>1, <2>3, <2>4, SameTypes, TypesJoin DEF dvars
<1>4. ASSUME NEW id \in Descs, Device(id) PROVE Types'
  <2>1. info[id].b \in Bufs /\ buf[info[id].b].block \in Blocks
    <3>1. id \in avail
      BY <1>4 DEF Device
    <3> QED
      BY <3>1, UnderWay
  <2>2. /\ avail' = avail \ {id} /\ used' = Append(used, id) /\ irq' = TRUE
        /\ \/ buf' = buf /\ platter' = [platter EXCEPT ![buf[info[id].b].block] = buf[info[id].b].data]
           \/ Same(info[id].b, {"data"}) /\ platter' = platter
    BY <1>4, <2>1, DeviceEffect
  <2>3. UNCHANGED <<lru, proc, chan, free, desc, info, intr, latest, pinned>>
    BY <1>4 DEF Device
  <2>4. CacheTypes'
    BY <1>1, <2>2, <2>3 DEF CacheTypes, Same
  <2>5. BlockTypes'
    <3>1. buf[info[id].b].data \in Int
      BY <1>1, <2>1, BufferFields DEF CacheTypes
    <3> QED
      BY <1>1, <2>1, <2>2, <2>3, <3>1 DEF BlockTypes
  <2>6. DriverTypes'
    BY <1>1, <2>2, <2>3 DEF DriverTypes
  <2> QED
    BY <1>1, <2>3, <2>4, <2>5, <2>6, SameTypes, TypesJoin
<1>5. CASE Scan
  <2>1. info[Head(used)].b \in Bufs
    BY <1>5, HeadUnderWay DEF Scan
  <2>2. \E b \in Bufs : Same(b, {"disk"}) /\ used # <<>> /\ used' = Tail(used) /\ chan' = Wakeup(<<"disk", b>>)
    BY <1>5, <2>1, ScanEffect DEF Scan
  <2>3. UNCHANGED <<lru, proc, free, desc, info, avail, irq, intr, platter, latest, pinned>>
    BY <1>5 DEF Scan
  <2>4. CallTypes'
    BY <1>1, <2>2, <2>3, WakeupTypes DEF CallTypes
  <2>5. DriverTypes'
    BY <1>1, <2>2, <2>3 DEF DriverTypes
  <2>6. CacheTypes'
    BY <1>1, <2>2, <2>3 DEF CacheTypes, Same
  <2> QED
    BY <1>1, <2>3, <2>4, <2>5, <2>6, SameTypes, TypesJoin
<1>6. CASE Ack \/ ScanEnd \/ Exit
  <2>1. /\ UNCHANGED <<bvars, proc, chan, free, desc, info, avail, used, platter, latest, pinned>>
        /\ irq' \in {irq, FALSE} /\ intr' \in {"none", "scan", "exit"}
    BY <1>6 DEF Ack, ScanEnd, Exit
  <2>2. DriverTypes'
    BY <1>1, <2>1 DEF DriverTypes
  <2> QED
    BY <1>1, <2>1, <2>2, SameTypes, TypesJoin
<1> QED
  BY <1>2, <1>3, <1>4, <1>5, <1>6 DEF Handler

-----------------------------------------------------------------------------
(* Buffers and their users.                                                  *)

\* Calls is about what a buffer holds, who has its lock, and where the processes are.
LEMMA CallsQuiet ==
  ASSUME Types, Calls, UNCHANGED proc,
         \A b \in Bufs : buf'[b].block = buf[b].block /\ buf'[b].holder = buf[b].holder
  PROVE  Calls'
<1>1. \A p \in Hands : proc[p].b \in Bufs
  BY Mine
<1> QED
  BY <1>1 DEF Calls, BlockOf, Buf

\* A process goes from one place where it has the lock to another, or takes it or
\* gives it up.
LEMMA CallsGo ==
  ASSUME DiskAssumption, Types, Calls, NEW p \in Hands, NEW pc \in PCs, Goes(p, pc),
         \A c \in Bufs : buf'[c].block = buf[c].block,
         \A c \in Bufs : c # proc[p].b => buf'[c].holder = buf[c].holder,
         proc[p].pc # "idle", pc # "idle", pc = "pin" => proc[p].op = "log", pc = "unpin" => proc[p].op = "install",
         buf[proc[p].b].holder \in {p, None},
         buf'[proc[p].b].holder = IF pc \in Holding THEN p ELSE None
  PROVE  Calls'
<1> DEFINE b == proc[p].b
<1>1. /\ \A q \in Hands : proc[q].b \in Bufs
      /\ \A q \in Hands : q # p => proc'[q] = proc[q]
      /\ proc'[p].pc = pc /\ proc'[p].op = proc[p].op /\ proc'[p].b = b
      /\ None \notin Hands
  BY Mine, NoneApart DEF Goes
<1>2. \A q \in Hands : proc'[q].pc = "idle" <=> proc'[q].op = None
  BY <1>1 DEF Calls
<1>3. \A q \in Hands : proc'[q].pc # "idle" => buf'[proc'[q].b].block \in Blocks
  BY <1>1 DEF Calls, BlockOf, Buf
<1>4. \A q \in Hands : (proc'[q].pc = "pin" => proc'[q].op = "log") /\ (proc'[q].pc = "unpin" => proc'[q].op = "install")
  BY <1>1 DEF Calls
<1>5. ASSUME NEW c \in Bufs, NEW q \in Hands PROVE buf'[c].holder = q <=> proc'[q].pc \in Holding /\ proc'[q].b = c
  <2>1. buf[c].holder = q <=> proc[q].pc \in Holding /\ proc[q].b = c
    BY DEF Calls
  <2>2. CASE q = p
    BY <1>1, <2>1, <2>2
  <2>3. CASE q # p
    BY <1>1, <2>1, <2>3
  <2> QED
    BY <2>2, <2>3
<1> QED
  BY <1>2, <1>3, <1>4, <1>5 DEF Calls, BlockOf, Buf

LEMMA CallsStep ==
  ASSUME DiskAssumption, Types, Calls, NEW p \in Hands, Step(p)
  PROVE  Calls'
<1> DEFINE b == proc[p].b
<1>1. b \in Bufs /\ None \notin Hands
  BY Mine, NoneApart
<1>2. \A q \in Hands : buf[b].holder = q <=> proc[q].pc \in Holding /\ proc[q].b = b
  BY <1>1 DEF Calls
<1>3. \A S : Same(b, S) => /\ "block" \notin S => \A c \in Bufs : buf'[c].block = buf[c].block
                           /\ "holder" \notin S => \A c \in Bufs : buf'[c].holder = buf[c].holder
                           /\ \A c \in Bufs : c # b => buf'[c].holder = buf[c].holder
  BY DEF Same
<1> HIDE DEF b
<1>5. CASE Acquire(p)
  <2>1. Same(b, {"holder", "data"}) /\ buf[b].holder = None /\ buf'[b].holder = p /\ proc[p].pc = "lock"
    BY <1>5, AcquireEffect DEF b, Acquire, At
  <2>2. \E pc \in {"start", "pin", "release"} : Goes(p, pc) /\ (pc = "pin" => proc[p].op = "log")
    BY <1>5, AcquireEffect DEF AfterRead
  <2>3. /\ \A c \in Bufs : buf'[c].block = buf[c].block
        /\ \A c \in Bufs : c # b => buf'[c].holder = buf[c].holder
    BY <1>3, <2>1
  <2>4. {"start", "pin", "release"} \subseteq Holding /\ Holding \subseteq PCs
    BY DEF Holding, PCs
  <2> QED
    BY <2>1, <2>2, <2>3, <2>4, CallsGo DEF b
<1>6. CASE AcquireSleep(p) \/ WaitSleep(p) \/ StartSleep(p)
  BY <1>6, CallsQuiet DEF AcquireSleep, WaitSleep, StartSleep, bvars
<1>7. CASE Start(p)
  <2>1. Same(b, {"disk"}) /\ Goes(p, "wait") /\ proc[p].pc = "start"
    BY <1>7, StartEffect DEF b, Start, At
  <2>2. "wait" \in Holding /\ "wait" \in PCs /\ "start" \in Holding
    BY DEF Holding, PCs
  <2>3. buf[b].holder = p
    BY <1>2, <2>1, <2>2 DEF b
  <2> QED
    BY <1>1, <1>3, <2>1, <2>2, <2>3, CallsGo DEF b
<1>8. CASE Finish(p)
  <2>1. proc[p].pc = "wait"
    BY <1>8 DEF Finish, At
  <2>2. buf[b].holder = p
    BY <1>2, <2>1 DEF b, Holding
  <2>3. \E pc \in {"start", "pin", "release", "unpin"} :
          Goes(p, pc) /\ (pc = "pin" => proc[p].op = "log") /\ (pc = "unpin" => proc[p].op = "install")
    <3>1. CASE buf[b].valid
      BY <1>8, <3>1, FinishEffect DEF b
    <3>2. CASE ~buf[b].valid
      BY <1>8, <3>2, FinishEffect DEF b, AfterRead
    <3> QED
      BY <3>1, <3>2
  <2>4. \A c \in Bufs : buf'[c].block = buf[c].block /\ buf'[c].holder = buf[c].holder
    <3>1. CASE buf[b].valid
      BY <1>8, <3>1, FinishEffect DEF b
    <3>2. CASE ~buf[b].valid
      BY <1>8, <3>2, <1>3, FinishEffect DEF b
    <3> QED
      BY <3>1, <3>2
  <2>5. {"start", "pin", "release", "unpin"} \subseteq Holding /\ Holding \subseteq PCs
    BY DEF Holding, PCs
  <2> QED
    BY <1>1, <2>1, <2>2, <2>3, <2>4, <2>5, CallsGo DEF b
<1>9. CASE Pin(p) \/ Unpin(p)
  <2>1. Same(b, {"refcnt"}) /\ Goes(p, "release") /\ proc[p].pc \in {"pin", "unpin"}
    BY <1>9, PinEffect, UnpinEffect DEF b, Pin, Unpin, At
  <2>2. "release" \in Holding /\ "release" \in PCs /\ proc[p].pc \in Holding
    BY <2>1 DEF Holding, PCs
  <2>3. buf[b].holder = p
    BY <1>2, <2>1, <2>2 DEF b
  <2> QED
    BY <1>1, <1>3, <2>1, <2>2, <2>3, CallsGo DEF b
<1>10. CASE Release(p)
  <2>1. Same(b, {"holder"}) /\ Goes(p, "drop") /\ buf'[b].holder = None /\ proc[p].pc = "release"
    BY <1>10, ReleaseEffect DEF b, Release, At
  <2>2. "release" \in Holding /\ "drop" \notin Holding /\ "drop" \in PCs
    BY DEF Holding, PCs
  <2>3. buf[b].holder = p
    BY <1>2, <2>1, <2>2 DEF b
  <2> QED
    BY <1>1, <1>3, <2>1, <2>2, <2>3, CallsGo DEF b
<1>11. CASE Drop(p)
  <2>1. /\ Same(b, {"refcnt"}) /\ (\A q \in Hands : q # p => proc'[q] = proc[q])
        /\ proc'[p] = Idle /\ proc[p].pc = "drop"
    BY <1>11, DropEffect DEF b, Drop, At
  <2>2. \A c \in Bufs : buf'[c].block = buf[c].block /\ buf'[c].holder = buf[c].holder
    BY <1>3, <2>1
  <2>3. Idle.pc = "idle" /\ Idle.op = None /\ "idle" \notin Holding /\ "drop" \notin Holding
    BY DEF Idle, Holding
  <2>4. \A q \in Hands : proc[q].b \in Bufs
    BY Mine
  <2>5. \A q \in Hands : proc'[q].pc = "idle" <=> proc'[q].op = None
    BY <2>1, <2>3 DEF Calls
  <2>6. \A q \in Hands : proc'[q].pc # "idle" => buf'[proc'[q].b].block \in Blocks
    BY <2>1, <2>2, <2>3, <2>4 DEF Calls, BlockOf, Buf
  <2>7. \A q \in Hands : (proc'[q].pc = "pin" => proc'[q].op = "log") /\ (proc'[q].pc = "unpin" => proc'[q].op = "install")
    BY <2>1, <2>3 DEF Calls
  <2>8. ASSUME NEW c \in Bufs, NEW q \in Hands PROVE buf'[c].holder = q <=> proc'[q].pc \in Holding /\ proc'[q].b = c
    BY <2>1, <2>2, <2>3 DEF Calls
  <2> QED
    BY <2>5, <2>6, <2>7, <2>8 DEF Calls, BlockOf, Buf
<1> QED
  BY <1>5, <1>6, <1>7, <1>8, <1>9, <1>10, <1>11 DEF Step

LEMMA CallsGet ==
  ASSUME DiskAssumption, Types, Calls, OneCopy, NEW p \in Hands, NEW op \in Ops \ {None}, NEW k \in Blocks, Get(p, op, k)
  PROVE  Calls'
<1>1. PICK b \in Bufs :
        /\ \/ buf[b].block = k /\ Same(b, {"refcnt"})
           \/ buf[b].refcnt = 0 /\ Same(b, {"block", "valid", "refcnt"}) /\ buf'[b].block = k
        /\ \A q \in Hands : q # p => proc'[q] = proc[q]
        /\ proc'[p].pc = "lock" /\ proc'[p].op = op /\ proc'[p].b = b
  BY GetEffect
<1>2. proc[p].pc = "idle"
  BY DEF Get, Asks
<1>3. \A c \in Bufs : (c # b => buf'[c].block = buf[c].block) /\ buf'[c].holder = buf[c].holder
  BY <1>1 DEF Same
<1>4. buf'[b].block = k
  BY <1>1 DEF Same
<1>5. \A q \in Hands : proc[q].b \in Bufs
  BY Mine
<1>6. "lock" \notin Holding /\ "idle" \notin Holding /\ None \notin Hands
  BY NoneApart DEF Holding
<1>7. \A q \in Hands : proc'[q].pc = "idle" <=> proc'[q].op = None
  BY <1>1 DEF Calls
<1>8. ASSUME NEW q \in Hands, proc'[q].pc # "idle" PROVE buf'[proc'[q].b].block \in Blocks
  BY <1>1, <1>3, <1>4, <1>5, <1>8 DEF Calls, BlockOf, Buf
<1>9. \A q \in Hands : (proc'[q].pc = "pin" => proc'[q].op = "log") /\ (proc'[q].pc = "unpin" => proc'[q].op = "install")
  BY <1>1 DEF Calls
<1>10. ASSUME NEW c \in Bufs, NEW q \in Hands PROVE buf'[c].holder = q <=> proc'[q].pc \in Holding /\ proc'[q].b = c
  BY <1>1, <1>2, <1>3, <1>6 DEF Calls
<1> QED
  BY <1>7, <1>8, <1>9, <1>10 DEF Calls, BlockOf, Buf

LEMMA CallsOther ==
  ASSUME DiskAssumption, Types, Calls, Requests,
         (\E p \in Hands : Kill(p)) \/ (\E id \in Descs : Device(id)) \/ Handler
  PROVE  Calls'
<1>1. CASE (\E p \in Hands : Kill(p)) \/ Ack \/ ScanEnd \/ Exit
  BY <1>1, CallsQuiet DEF Kill, Ack, ScanEnd, Exit, bvars
<1>2. ASSUME NEW id \in Descs, Device(id) PROVE Calls'
  <2>1. id \in avail /\ UNCHANGED proc
    BY <1>2 DEF Device
  <2>2. info[id].b \in Bufs /\ buf[info[id].b].block \in Blocks
    BY <2>1, UnderWay
  <2>3. buf' = buf \/ Same(info[id].b, {"data"})
    BY <1>2, <2>2, DeviceEffect
  <2> QED
    BY <2>1, <2>2, <2>3, CallsQuiet DEF Same
<1>3. CASE Scan
  <2>1. info[Head(used)].b \in Bufs
    BY <1>3, HeadUnderWay DEF Scan
  <2>2. Same(info[Head(used)].b, {"disk"}) /\ UNCHANGED proc
    BY <1>3, <2>1, ScanEffect DEF Scan
  <2> QED
    BY <2>1, <2>2, CallsQuiet DEF Same
<1> QED
  BY <1>1, <1>2, <1>3 DEF Handler

-----------------------------------------------------------------------------
(* References.                                                               *)

LEMMA UsersFinite ==
  ASSUME DiskAssumption, NEW b
  PROVE  IsFiniteSet(Users(b)) /\ Cardinality(Users(b)) \in Nat /\ Users(b) \subseteq Hands
<1>1. Users(b) \subseteq Hands /\ IsFiniteSet(Hands)
  BY DEF Users, DiskAssumption
<1>2. IsFiniteSet(Users(b))
  BY <1>1, FS_Subset
<1> QED
  BY <1>1, <1>2, FS_CardinalityType

LEMMA UsersGo ==
  ASSUME NEW p \in Hands, NEW pc, Goes(p, pc), proc[p].pc # "idle", pc # "idle"
  PROVE  \A b : Users(b)' = Users(b)
BY DEF Goes, Users

LEMMA UsersQuiet == ASSUME UNCHANGED proc PROVE \A b : Users(b)' = Users(b)
BY DEF Users

\* The counts are those of the users and of the log as long as neither changes.
LEMMA CopyKept ==
  ASSUME OneCopy, UNCHANGED pinned, \A b \in Bufs : Users(b)' = Users(b),
         \A b \in Bufs : buf'[b].block = buf[b].block /\ buf'[b].refcnt = buf[b].refcnt
  PROVE  OneCopy'
<1>1. \A b, c \in Bufs : b # c => buf'[b].block # buf'[c].block \/ buf'[b].block = None
  BY DEF OneCopy
<1>2. ASSUME NEW b \in Bufs PROVE buf'[b].refcnt = Cardinality(Users(b)') + (IF buf'[b].block \in pinned' THEN 1 ELSE 0)
  BY DEF OneCopy
<1> QED
  BY <1>1, <1>2, Zenon DEF OneCopy

LEMMA CopyStep ==
  ASSUME DiskAssumption, Types, Calls, OneCopy, Pins, NEW p \in Hands, Step(p)
  PROVE  OneCopy'
<1> DEFINE b == proc[p].b
<1>1. b \in Bufs /\ \A c \in Bufs : Cardinality(Users(c)) \in Nat
  BY Mine, UsersFinite
<1>2. \A S : Same(b, S) /\ "block" \notin S =>
        /\ \A c \in Bufs : buf'[c].block = buf[c].block
        /\ \A c \in Bufs : c # b => buf'[c].refcnt = buf[c].refcnt
        /\ "refcnt" \notin S => buf'[b].refcnt = buf[b].refcnt
  BY DEF Same
<1>3. \A pc : Goes(p, pc) /\ proc[p].pc # "idle" /\ pc # "idle" => \A c \in Bufs : Users(c)' = Users(c)
  BY UsersGo
<1>4. \A c \in Bufs : buf[c].refcnt = Cardinality(Users(c)) + (IF buf[c].block \in pinned THEN 1 ELSE 0)
  BY DEF OneCopy
<1>5. \A c, d \in Bufs : c # d => buf[c].block # buf[d].block \/ buf[c].block = None
  BY DEF OneCopy
<1> HIDE DEF b
<1>6. CASE Acquire(p) \/ Start(p) \/ Release(p)
  <2>1. /\ Same(b, {"holder", "data"}) \/ Same(b, {"disk"}) \/ Same(b, {"holder"})
        /\ \E pc \in {"start", "pin", "release", "wait", "drop"} : Goes(p, pc)
    BY <1>6, AcquireEffect, StartEffect, ReleaseEffect DEF b, AfterRead
  <2>2. proc[p].pc # "idle" /\ UNCHANGED pinned
    BY <1>6 DEF Acquire, Start, Release, At
  <2>3. \A c \in Bufs : buf'[c].block = buf[c].block /\ buf'[c].refcnt = buf[c].refcnt
    BY <1>2, <2>1
  <2>4. \A c \in Bufs : Users(c)' = Users(c)
    BY <1>3, <2>1, <2>2
  <2> QED
    BY <2>2, <2>3, <2>4, CopyKept
<1>7. CASE Finish(p)
  <2>1. /\ \A c \in Bufs : buf'[c].block = buf[c].block /\ buf'[c].refcnt = buf[c].refcnt
        /\ \E pc \in {"start", "pin", "release", "unpin"} : Goes(p, pc)
    <3>1. CASE buf[b].valid
      BY <1>7, <3>1, FinishEffect DEF b
    <3>2. CASE ~buf[b].valid
      BY <1>7, <3>2, <1>2, FinishEffect DEF b, AfterRead
    <3> QED
      BY <3>1, <3>2
  <2>2. proc[p].pc # "idle" /\ UNCHANGED pinned
    BY <1>7 DEF Finish, At
  <2>4. \A c \in Bufs : Users(c)' = Users(c)
    BY <1>3, <2>1, <2>2
  <2> QED
    BY <2>1, <2>2, <2>4, CopyKept
<1>8. CASE AcquireSleep(p) \/ StartSleep(p) \/ WaitSleep(p)
  BY <1>8, CopyKept, UsersQuiet DEF AcquireSleep, StartSleep, WaitSleep, bvars
<1>9. CASE Pin(p) \/ Unpin(p)
  <2>1. /\ Same(b, {"refcnt"}) /\ Goes(p, "release") /\ proc[p].pc # "idle"
        /\ \/ /\ buf'[b].refcnt = buf[b].refcnt + (IF buf[b].block \in pinned THEN 0 ELSE 1)
              /\ pinned' = pinned \cup {buf[b].block}
           \/ /\ buf'[b].refcnt = buf[b].refcnt - 1 /\ buf[b].block \in pinned
              /\ pinned' = pinned \ {buf[b].block}
    <3>1. CASE Pin(p)
      BY <3>1, PinEffect DEF b, Pin, At
    <3>2. CASE Unpin(p)
      <4>1. proc[p].pc = "unpin"
        BY <3>2 DEF Unpin, At
      <4>2. buf[b].block \in pinned
        BY <4>1 DEF b, Calls, Pins, BlockOf, Buf
      <4> QED
        BY <3>2, <4>1, <4>2, UnpinEffect DEF b
    <3> QED
      BY <1>9, <3>1, <3>2
  <2>2. /\ \A c \in Bufs : Users(c)' = Users(c) /\ buf'[c].block = buf[c].block
        /\ \A c \in Bufs : c # b => buf'[c].refcnt = buf[c].refcnt
    BY <1>2, <1>3, <2>1
  <2>3. buf[b].block \in Blocks /\ None \notin Blocks
    BY <2>1, NoneApart DEF Calls, b, BlockOf, Buf
  <2>4. ASSUME NEW c \in Bufs PROVE buf'[c].refcnt = Cardinality(Users(c)') + (IF buf'[c].block \in pinned' THEN 1 ELSE 0)
    <3>1. /\ Users(c)' = Users(c) /\ buf'[c].block = buf[c].block /\ Cardinality(Users(c)) \in Nat
          /\ buf[c].refcnt = Cardinality(Users(c)) + (IF buf[c].block \in pinned THEN 1 ELSE 0)
      BY <1>1, <1>4, <2>2
    <3>2. CASE c = b
      BY <2>1, <3>1, <3>2
    <3>3. CASE c # b
      <4>1. buf[c].block # buf[b].block
        BY <1>1, <1>5, <2>3, <3>3
      <4> QED
        BY <2>1, <2>2, <3>1, <3>3, <4>1
    <3> QED
      BY <3>2, <3>3
  <2>5. \A c, d \in Bufs : c # d => buf'[c].block # buf'[d].block \/ buf'[c].block = None
    BY <1>5, <2>2
  <2> QED
    BY <2>4, <2>5, Zenon DEF OneCopy
<1>10. CASE Drop(p)
  <2>1. /\ Same(b, {"refcnt"}) /\ buf'[b].refcnt = buf[b].refcnt - 1
        /\ (\A q \in Hands : q # p => proc'[q] = proc[q])
        /\ proc'[p] = Idle /\ proc[p].pc = "drop" /\ UNCHANGED pinned
    BY <1>10, DropEffect DEF b, Drop, At
  <2>2. \A c \in Bufs : buf'[c].block = buf[c].block /\ (c # b => buf'[c].refcnt = buf[c].refcnt)
    BY <1>2, <2>1
  <2>3. /\ \A c \in Bufs : c = b => Users(c)' = Users(c) \ {p} /\ p \in Users(c)
        /\ \A c \in Bufs : c # b => Users(c)' = Users(c)
    <3>1. Idle.pc = "idle"
      BY DEF Idle
    <3>2. p \in Users(b)
      BY <2>1 DEF Users, b
    <3>3. \A c \in Bufs, q \in Hands : q # p => (q \in Users(c)' <=> q \in Users(c))
      BY <2>1 DEF Users
    <3>4. \A c \in Bufs : p \notin Users(c)'
      BY <2>1, <3>1 DEF Users
    <3>5. \A c \in Bufs : c # b => p \notin Users(c)
      BY DEF Users, b
    <3>6. \A c \in Bufs : Users(c) \subseteq Hands /\ Users(c)' \subseteq Hands
      BY DEF Users
    <3>7. ASSUME NEW c \in Bufs, c = b PROVE Users(c)' = Users(c) \ {p} /\ p \in Users(c)
      BY <3>2, <3>3, <3>4, <3>6, <3>7
    <3>8. ASSUME NEW c \in Bufs, c # b PROVE Users(c)' = Users(c)
      BY <3>3, <3>4, <3>5, <3>6, <3>8
    <3> QED
      BY <3>7, <3>8
  <2>4. ASSUME NEW c \in Bufs, c = b PROVE Cardinality(Users(c)') = Cardinality(Users(c)) - 1
    <3>1. Users(c)' = Users(c) \ {p} /\ p \in Users(c) /\ IsFiniteSet(Users(c))
      BY <2>3, <2>4, UsersFinite
    <3>2. Cardinality(Users(c) \ {p}) = Cardinality(Users(c)) - 1
      BY <3>1, FS_RemoveElement
    <3> QED
      BY <3>1, <3>2
  <2>5. ASSUME NEW c \in Bufs PROVE buf'[c].refcnt = Cardinality(Users(c)') + (IF buf'[c].block \in pinned' THEN 1 ELSE 0)
    <3>1. CASE c = b
      <4>1. /\ buf[c].refcnt = Cardinality(Users(c)) + (IF buf[c].block \in pinned THEN 1 ELSE 0)
            /\ Cardinality(Users(c)) \in Nat /\ buf'[c].block = buf[c].block
            /\ Cardinality(Users(c)') = Cardinality(Users(c)) - 1
        BY <1>1, <1>4, <2>2, <2>4, <3>1
      <4>2. buf'[c].refcnt = buf[c].refcnt - 1 /\ pinned' = pinned
        BY <2>1, <3>1
      <4> QED
        BY <4>1, <4>2
    <3>2. CASE c # b
      BY <1>4, <2>1, <2>2, <2>3, <3>2
    <3> QED
      BY <3>1, <3>2
  <2>6. \A c, d \in Bufs : c # d => buf'[c].block # buf'[d].block \/ buf'[c].block = None
    BY <1>5, <2>2
  <2> QED
    BY <2>5, <2>6, Zenon DEF OneCopy
<1> QED
  BY <1>6, <1>7, <1>8, <1>9, <1>10 DEF Step

\* A buffer that is recycled has no users, and its block is not in the log.
LEMMA Unused ==
  ASSUME DiskAssumption, Types, OneCopy, NEW b \in Bufs, buf[b].refcnt = 0
  PROVE  Users(b) = {} /\ buf[b].block \notin pinned
<1>1. buf[b].refcnt = Cardinality(Users(b)) + (IF buf[b].block \in pinned THEN 1 ELSE 0)
  BY DEF OneCopy
<1>2. Cardinality(Users(b)) \in Nat /\ IsFiniteSet(Users(b))
  BY UsersFinite
<1>3. Cardinality(Users(b)) = 0 /\ buf[b].block \notin pinned
  BY <1>1, <1>2
<1> QED
  BY <1>2, <1>3, FS_EmptySet

LEMMA CopyGet ==
  ASSUME DiskAssumption, Types, Calls, OneCopy, Pins, NEW p \in Hands, NEW op \in Ops \ {None}, NEW k \in Blocks,
         Get(p, op, k)
  PROVE  OneCopy'
<1>1. PICK b \in Bufs :
        /\ \/ buf[b].block = k /\ Same(b, {"refcnt"}) /\ buf'[b].refcnt = buf[b].refcnt + 1
           \/ /\ \A c \in Bufs : buf[c].block # k
              /\ buf[b].refcnt = 0
              /\ Same(b, {"block", "valid", "refcnt"})
              /\ buf'[b].block = k /\ buf'[b].refcnt = 1
        /\ \A q \in Hands : q # p => proc'[q] = proc[q]
        /\ proc'[p].pc = "lock" /\ proc'[p].b = b
  BY GetEffect
<1>2. proc[p].pc = "idle" /\ UNCHANGED pinned
  BY DEF Get, Asks
<1>3. Users(b)' = Users(b) \cup {p} /\ p \notin Users(b) /\ \A c \in Bufs : c # b => Users(c)' = Users(c)
  BY <1>1, <1>2 DEF Users
<1>4. Cardinality(Users(b)') = Cardinality(Users(b)) + 1
  <2>1. Cardinality(Users(b) \cup {p}) = Cardinality(Users(b)) + 1
    BY <1>3, UsersFinite, FS_AddElement
  <2> QED
    BY <1>3, <2>1
<1>5. \A c \in Bufs : c # b => buf'[c].block = buf[c].block /\ buf'[c].refcnt = buf[c].refcnt
  BY <1>1 DEF Same
<1>6. buf'[b].block = k /\ \A c \in Bufs : c # b => buf[c].block # k
  <2>1. None \notin Blocks
    BY NoneApart
  <2> QED
    BY <1>1, <2>1 DEF OneCopy, Same
<1>7. \A c, d \in Bufs : c # d => buf'[c].block # buf'[d].block \/ buf'[c].block = None
  BY <1>5, <1>6 DEF OneCopy
<1>8. buf'[b].refcnt = Cardinality(Users(b)') + (IF k \in pinned THEN 1 ELSE 0)
  <2>1. CASE buf[b].block = k /\ buf'[b].refcnt = buf[b].refcnt + 1
    <3>1. buf[b].refcnt = Cardinality(Users(b)) + (IF k \in pinned THEN 1 ELSE 0) /\ Cardinality(Users(b)) \in Nat
      BY <2>1, UsersFinite DEF OneCopy
    <3> QED
      BY <2>1, <3>1, <1>4
  <2>2. CASE (\A c \in Bufs : buf[c].block # k) /\ buf[b].refcnt = 0 /\ buf'[b].refcnt = 1
    <3>1. Users(b) = {} /\ k \notin pinned
      BY <2>2, Unused DEF Pins
    <3>2. Cardinality(Users(b)) = 0
      BY <3>1, FS_EmptySet
    <3> QED
      BY <2>2, <3>1, <3>2, <1>4
  <2> QED
    BY <1>1, <2>1, <2>2
<1>9. ASSUME NEW c \in Bufs PROVE buf'[c].refcnt = Cardinality(Users(c)') + (IF buf'[c].block \in pinned' THEN 1 ELSE 0)
  <2>1. CASE c = b
    BY <1>2, <1>6, <1>8, <2>1
  <2>2. CASE c # b
    BY <1>2, <1>3, <1>5, <2>2 DEF OneCopy
  <2> QED
    BY <2>1, <2>2
<1> QED
  BY <1>7, <1>9, Zenon DEF OneCopy

LEMMA CopyOther ==
  ASSUME DiskAssumption, Types, Calls, OneCopy, Requests,
         (\E p \in Hands : Kill(p)) \/ (\E id \in Descs : Device(id)) \/ Handler
  PROVE  OneCopy'
<1>1. CASE (\E p \in Hands : Kill(p)) \/ Ack \/ ScanEnd \/ Exit
  BY <1>1, CopyKept, UsersQuiet DEF Kill, Ack, ScanEnd, Exit, bvars
<1>2. ASSUME NEW id \in Descs, Device(id) PROVE OneCopy'
  <2>1. id \in avail /\ UNCHANGED <<proc, pinned>>
    BY <1>2 DEF Device
  <2>2. info[id].b \in Bufs /\ buf[info[id].b].block \in Blocks
    BY <2>1, UnderWay
  <2>3. buf' = buf \/ Same(info[id].b, {"data"})
    BY <1>2, <2>2, DeviceEffect
  <2> QED
    BY <2>1, <2>2, <2>3, CopyKept, UsersQuiet DEF Same
<1>3. CASE Scan
  <2>1. info[Head(used)].b \in Bufs
    BY <1>3, HeadUnderWay DEF Scan
  <2>2. Same(info[Head(used)].b, {"disk"}) /\ UNCHANGED <<proc, pinned>>
    BY <1>3, <2>1, ScanEffect DEF Scan
  <2> QED
    BY <2>1, <2>2, CopyKept, UsersQuiet DEF Same
<1> QED
  BY <1>1, <1>2, <1>3 DEF Handler

-----------------------------------------------------------------------------
(* The blocks of the log.                                                    *)

InLog == pinned \cup {BlockOf(q) : q \in Doing("log")}

LEMMA RoomKept ==
  ASSUME DiskAssumption, Types, Pins, InLog' \subseteq InLog
  PROVE  Cardinality(pinned' \cup {BlockOf(q)' : q \in Doing("log")'}) <= MaxPins
<1>1. InLog \subseteq Blocks \cup {None}
  <2>1. \A q \in Hands : BlockOf(q) \in Blocks \cup {None}
    BY Mine, BufferFields DEF BlockOf
  <2> QED
    BY <2>1 DEF InLog, Doing, Types
<1>2. IsFiniteSet(InLog)
  <2>1. IsFiniteSet(Blocks \cup {None})
    BY FS_AddElement DEF DiskAssumption
  <2> QED
    BY <1>1, <2>1, FS_Subset
<1>3. IsFiniteSet(InLog') /\ Cardinality(InLog') <= Cardinality(InLog)
  BY <1>2, FS_Subset
<1>4. Cardinality(InLog) <= MaxPins
  BY DEF Pins, InLog
<1>5. Cardinality(InLog') \in Nat /\ Cardinality(InLog) \in Nat /\ MaxPins \in Nat
  BY <1>2, <1>3, FS_CardinalityType DEF DiskAssumption
<1>6. Cardinality(InLog') <= MaxPins
  BY <1>3, <1>4, <1>5
<1> QED
  BY <1>6 DEF InLog

\* Steps that neither change a block or an operation nor get to where an
\* installed block has to be pinned.
Pinning == {"lock", "start", "wait", "unpin"}
LEMMA PinsQuiet ==
  ASSUME DiskAssumption, Types, Pins, UNCHANGED pinned,
         \A b \in Bufs : buf'[b].block = buf[b].block,
         \A q \in Hands : proc'[q].op = proc[q].op /\ proc'[q].b = proc[q].b,
         \A q \in Hands : proc'[q].pc \in Pinning => proc[q].pc \in Pinning
  PROVE  Pins'
<1>1. \A q \in Hands : proc[q].b \in Bufs
  BY Mine
<1>2. \A q \in Hands : buf'[proc'[q].b].block = buf[proc[q].b].block
  BY <1>1
<1>3. \A k \in pinned' : \E b \in Bufs : buf'[b].block = k
  BY DEF Pins
<1>4. \A p, q \in Hands : proc'[p].op = "install" /\ proc'[q].op \in {"log", "install"} => p = q
  BY DEF Pins
<1>5. \A p \in Hands : proc'[p].op = "install" /\ proc'[p].pc \in Pinning => buf'[proc'[p].b].block \in pinned'
  BY <1>2 DEF Pins, Pinning, BlockOf, Buf
<1>6. InLog' \subseteq InLog
  BY <1>2 DEF InLog, Doing, BlockOf, Buf
<1>7. Cardinality(pinned' \cup {BlockOf(q)' : q \in Doing("log")'}) <= MaxPins
  BY <1>6, RoomKept
<1> QED
  BY <1>3, <1>4, <1>5, <1>7 DEF Pins, Pinning, BlockOf, Buf

LEMMA PinsStep ==
  ASSUME DiskAssumption, Types, Calls, OneCopy, Pins, NEW p \in Hands, Step(p)
  PROVE  Pins'
<1> DEFINE b == proc[p].b
<1>1. b \in Bufs /\ \A q \in Hands : proc[q].b \in Bufs
  BY Mine
<1>2. \A S : Same(b, S) /\ "block" \notin S => \A c \in Bufs : buf'[c].block = buf[c].block
  BY DEF Same
<1>3. \A pc : Goes(p, pc) => /\ \A q \in Hands : proc'[q].op = proc[q].op /\ proc'[q].b = proc[q].b
                             /\ \A q \in Hands : q # p => proc'[q].pc = proc[q].pc
                             /\ proc'[p].pc = pc
  BY DEF Goes
<1> HIDE DEF b
<1>4. CASE Acquire(p) \/ Start(p) \/ Release(p)
  <2>1. /\ Same(b, {"holder", "data"}) \/ Same(b, {"disk"}) \/ Same(b, {"holder"})
        /\ \E pc : Goes(p, pc) /\ (pc \in Pinning => proc[p].pc \in Pinning)
    <3>1. CASE Acquire(p)
      BY <3>1, AcquireEffect DEF b, Acquire, At, Pinning
    <3>2. CASE Start(p)
      BY <3>2, StartEffect DEF b, Start, At, Pinning
    <3>3. CASE Release(p)
      <4>1. Same(b, {"holder"}) /\ Goes(p, "drop")
        BY <3>3, ReleaseEffect DEF b
      <4>2. "drop" \notin Pinning
        BY DEF Pinning
      <4> QED
        BY <4>1, <4>2
    <3> QED
      BY <1>4, <3>1, <3>2, <3>3
  <2>2. UNCHANGED pinned
    BY <1>4 DEF Acquire, Start, Release
  <2>3. \A q \in Hands : proc'[q].pc \in Pinning => proc[q].pc \in Pinning
    BY <1>3, <2>1
  <2> QED
    BY <1>2, <1>3, <2>1, <2>2, <2>3, PinsQuiet
<1>5. CASE Finish(p)
  <2>1. /\ \A c \in Bufs : buf'[c].block = buf[c].block
        /\ \E pc : Goes(p, pc)
    <3>1. CASE buf[b].valid
      BY <1>5, <3>1, FinishEffect DEF b
    <3>2. CASE ~buf[b].valid
      BY <1>5, <3>2, <1>2, FinishEffect DEF b
    <3> QED
      BY <3>1, <3>2
  <2>2. proc[p].pc \in Pinning /\ UNCHANGED pinned
    BY <1>5 DEF Finish, At, Pinning
  <2>3. \A q \in Hands : proc'[q].pc \in Pinning => proc[q].pc \in Pinning
    BY <1>3, <2>1, <2>2
  <2> QED
    BY <1>3, <2>1, <2>2, <2>3, PinsQuiet
<1>6. CASE AcquireSleep(p) \/ StartSleep(p) \/ WaitSleep(p)
  BY <1>6, PinsQuiet DEF AcquireSleep, StartSleep, WaitSleep, bvars
<1>7. CASE Pin(p)
  <2>1. Same(b, {"refcnt"}) /\ Goes(p, "release") /\ pinned' = pinned \cup {buf[b].block} /\ proc[p].op = "log"
    BY <1>7, PinEffect DEF b, Pin, At, Calls
  <2>2. \A q \in Hands : buf'[proc'[q].b].block = buf[proc[q].b].block
    BY <1>1, <1>2, <1>3, <2>1
  <2>3. \A k \in pinned' : \E c \in Bufs : buf'[c].block = k
    BY <1>1, <1>2, <2>1 DEF Pins
  <2>4. \A q, r \in Hands : proc'[q].op = "install" /\ proc'[r].op \in {"log", "install"} => q = r
    BY <1>3, <2>1 DEF Pins
  <2>5. \A q \in Hands : proc'[q].op = "install" /\ proc'[q].pc \in Pinning => buf'[proc'[q].b].block \in pinned'
    BY <1>3, <2>1, <2>2 DEF Pins, Pinning, BlockOf, Buf
  <2>6. InLog' \subseteq InLog
    <3>1. p \in Doing("log") /\ BlockOf(p) = buf[b].block
      BY <2>1 DEF Doing, BlockOf, Buf, b
    <3>2. Doing("log")' = Doing("log") /\ \A q \in Hands : BlockOf(q)' = BlockOf(q)
      BY <1>3, <2>1, <2>2 DEF Doing, BlockOf, Buf
    <3> QED
      BY <2>1, <3>1, <3>2 DEF InLog, Doing
  <2>7. Cardinality(pinned' \cup {BlockOf(q)' : q \in Doing("log")'}) <= MaxPins
    BY <2>6, RoomKept
  <2> QED
    BY <2>3, <2>4, <2>5, <2>7 DEF Pins, Pinning, BlockOf, Buf
<1>8. CASE Unpin(p)
  <2>1. Same(b, {"refcnt"}) /\ Goes(p, "release") /\ pinned' = pinned \ {buf[b].block} /\ proc[p].op = "install"
    BY <1>8, UnpinEffect DEF b, Unpin, At, Calls
  <2>2. \A q \in Hands : buf'[proc'[q].b].block = buf[proc[q].b].block
    BY <1>1, <1>2, <1>3, <2>1
  <2>3. \A k \in pinned' : \E c \in Bufs : buf'[c].block = k
    BY <1>2, <2>1 DEF Pins
  <2>4. \A q, r \in Hands : proc'[q].op = "install" /\ proc'[r].op \in {"log", "install"} => q = r
    BY <1>3, <2>1 DEF Pins
  <2>5. \A q \in Hands : proc'[q].op = "install" => proc'[q].pc \notin Pinning
    BY <1>3, <2>1 DEF Pins, Pinning
  <2>6. InLog' \subseteq InLog
    <3>1. Doing("log")' = Doing("log") /\ \A q \in Hands : BlockOf(q)' = BlockOf(q)
      BY <1>3, <2>1, <2>2 DEF Doing, BlockOf, Buf
    <3> QED
      BY <2>1, <3>1 DEF InLog, Doing
  <2>7. Cardinality(pinned' \cup {BlockOf(q)' : q \in Doing("log")'}) <= MaxPins
    BY <2>6, RoomKept
  <2> QED
    BY <2>3, <2>4, <2>5, <2>7 DEF Pins, Pinning, BlockOf, Buf
<1>9. CASE Drop(p)
  <2>1. /\ Same(b, {"refcnt"}) /\ (\A q \in Hands : q # p => proc'[q] = proc[q])
        /\ proc'[p].op = None /\ UNCHANGED pinned
    BY <1>9, DropEffect DEF b, Drop, Idle
  <2>2. \A q \in Hands : q # p => buf'[proc'[q].b].block = buf[proc[q].b].block
    BY <1>1, <1>2, <2>1
  <2>3. \A k \in pinned' : \E c \in Bufs : buf'[c].block = k
    BY <1>2, <2>1 DEF Pins
  <2>4. \A q, r \in Hands : proc'[q].op = "install" /\ proc'[r].op \in {"log", "install"} => q = r
    BY <2>1 DEF Pins, None
  <2>5. \A q \in Hands : proc'[q].op = "install" /\ proc'[q].pc \in Pinning => buf'[proc'[q].b].block \in pinned'
    BY <2>1, <2>2 DEF Pins, Pinning, BlockOf, Buf, None
  <2>6. InLog' \subseteq InLog
    <3>1. Doing("log")' = Doing("log") \ {p} /\ \A q \in Hands : q # p => BlockOf(q)' = BlockOf(q)
      BY <2>1, <2>2 DEF Doing, BlockOf, Buf, None
    <3> QED
      BY <2>1, <3>1 DEF InLog, Doing
  <2>7. Cardinality(pinned' \cup {BlockOf(q)' : q \in Doing("log")'}) <= MaxPins
    BY <2>6, RoomKept
  <2> QED
    BY <2>3, <2>4, <2>5, <2>7 DEF Pins, Pinning, BlockOf, Buf
<1> QED
  BY <1>4, <1>5, <1>6, <1>7, <1>8, <1>9 DEF Step

\* bget() gives a block to a buffer that nobody uses.
LEMMA GetBlocks ==
  ASSUME DiskAssumption, Types, OneCopy, NEW p \in Hands, NEW op \in Ops \ {None}, NEW k \in Blocks, Get(p, op, k)
  PROVE  \E b \in Bufs :
           /\ proc'[p].b = b /\ proc'[p].op = op /\ proc'[p].pc = "lock" /\ proc'[p].id = proc[p].id
           /\ proc[p].pc = "idle"
           /\ \A q \in Hands : q # p => proc'[q] = proc[q]
           /\ buf'[b].block = k /\ buf'[b].holder = buf[b].holder /\ buf'[b].data = buf[b].data /\ buf'[b].disk = buf[b].disk
           /\ \A c \in Bufs : c # b => buf'[c] = buf[c]
           /\ \/ buf[b].block = k /\ buf'[b].valid = buf[b].valid
              \/ /\ Users(b) = {} /\ buf[b].block \notin pinned /\ ~buf'[b].valid
                 /\ \A c \in Bufs : buf[c].block # k
<1>1. PICK b \in Bufs :
        /\ \/ buf[b].block = k /\ Same(b, {"refcnt"})
           \/ /\ \A c \in Bufs : buf[c].block # k
              /\ buf[b].refcnt = 0
              /\ Same(b, {"block", "valid", "refcnt"})
              /\ buf'[b].block = k /\ ~buf'[b].valid
        /\ \A q \in Hands : q # p => proc'[q] = proc[q]
        /\ proc'[p].pc = "lock" /\ proc'[p].op = op /\ proc'[p].b = b /\ proc'[p].id = proc[p].id
  BY GetEffect
<1>2. proc[p].pc = "idle"
  BY DEF Get, Asks
<1>3. CASE buf[b].block = k /\ Same(b, {"refcnt"})
  BY <1>1, <1>2, <1>3 DEF Same
<1>4. CASE /\ \A c \in Bufs : buf[c].block # k
           /\ buf[b].refcnt = 0
           /\ Same(b, {"block", "valid", "refcnt"})
           /\ buf'[b].block = k /\ ~buf'[b].valid
  <2>1. Users(b) = {} /\ buf[b].block \notin pinned
    BY <1>4, Unused
  <2> QED
    BY <1>1, <1>2, <1>4, <2>1 DEF Same
<1> QED
  BY <1>1, <1>3, <1>4

LEMMA PinsGet ==
  ASSUME DiskAssumption, Types, Calls, OneCopy, Pins,
         NEW p \in Hands, NEW op \in Ops \ {None}, NEW k \in Blocks, Get(p, op, k)
  PROVE  Pins'
<1>1. PICK b \in Bufs :
        /\ proc'[p].b = b /\ proc'[p].op = op /\ proc'[p].pc = "lock" /\ proc[p].pc = "idle"
        /\ \A q \in Hands : q # p => proc'[q] = proc[q]
        /\ buf'[b].block = k
        /\ \A c \in Bufs : c # b => buf'[c] = buf[c]
        /\ \/ buf[b].block = k
           \/ Users(b) = {} /\ buf[b].block \notin pinned
  BY GetBlocks
<1>2. UNCHANGED pinned /\ LogAllows(op, k)
  BY DEF Get, Asks
<1>3. proc[p].op = None /\ \A q \in Hands : proc[q].b \in Bufs
  BY <1>1, Mine DEF Calls
<1>4. ASSUME NEW q \in Hands, q # p, proc[q].pc # "idle" PROVE buf'[proc'[q].b].block = buf[proc[q].b].block
  <2>1. CASE proc[q].b = b
    <3>1. q \in Users(b)
      BY <2>1, <1>4 DEF Users
    <3> QED
      BY <1>1, <1>4, <2>1, <3>1
  <2>2. CASE proc[q].b # b
    BY <1>1, <1>3, <1>4, <2>2
  <2> QED
    BY <2>1, <2>2
<1>5. \A q \in Hands : proc[q].op # None => proc[q].pc # "idle" /\ q # p
  BY <1>3 DEF Calls
<1>6. \A c \in pinned' : \E d \in Bufs : buf'[d].block = c
  <2> SUFFICES ASSUME NEW c \in pinned PROVE \E d \in Bufs : buf'[d].block = c
    BY <1>2
  <2>1. PICK d \in Bufs : buf[d].block = c
    BY DEF Pins
  <2> QED
    BY <1>1, <2>1
<1>7. \A q, r \in Hands : proc'[q].op = "install" /\ proc'[r].op \in {"log", "install"} => q = r
  <2>1. op = "install" => \A q \in Hands : proc[q].op \notin {"log", "install"}
    BY <1>2 DEF LogAllows, Doing
  <2>2. op = "log" => \A q \in Hands : proc[q].op # "install"
    BY <1>2 DEF LogAllows, Doing
  <2> QED
    BY <1>1, <2>1, <2>2 DEF Pins
<1>8. ASSUME NEW q \in Hands, proc'[q].op = "install", proc'[q].pc \in Pinning PROVE buf'[proc'[q].b].block \in pinned'
  <2>1. CASE q = p
    BY <1>1, <1>2, <1>8, <2>1 DEF LogAllows
  <2>2. CASE q # p
    <3>1. proc[q].op = "install" /\ proc[q].pc \in Pinning /\ proc[q].pc # "idle"
      BY <1>1, <1>8, <2>2 DEF Pinning
    <3>2. buf[proc[q].b].block \in pinned
      BY <3>1 DEF Pins, Pinning, BlockOf, Buf
    <3> QED
      BY <1>2, <1>4, <2>2, <3>1, <3>2
  <2> QED
    BY <2>1, <2>2
<1>9. Cardinality(pinned' \cup {BlockOf(q)' : q \in Doing("log")'}) <= MaxPins
  <2>1. \A q \in Doing("log") : q \in Hands /\ q # p /\ BlockOf(q)' = BlockOf(q)
    BY <1>4, <1>5 DEF Doing, BlockOf, Buf, None
  <2>2. CASE op = "log"
    <3>1. Doing("log")' = Doing("log") \cup {p}
      BY <1>1, <2>2 DEF Doing
    <3>2. BlockOf(p)' = k
      BY <1>1 DEF BlockOf, Buf
    <3>3. pinned' \cup {BlockOf(q)' : q \in Doing("log")'} = pinned \cup {k} \cup {BlockOf(q) : q \in Doing("log")}
      BY <1>2, <2>1, <3>1, <3>2
    <3> QED
      BY <1>2, <2>2, <3>3 DEF LogAllows
  <2>3. CASE op # "log"
    <3>1. Doing("log")' = Doing("log")
      BY <1>1, <1>3, <2>3 DEF Doing, None
    <3>2. InLog' \subseteq InLog
      BY <1>2, <2>1, <3>1 DEF InLog
    <3> QED
      BY <3>2, RoomKept
  <2> QED
    BY <2>2, <2>3
<1> QED
  BY <1>6, <1>7, <1>8, <1>9 DEF Pins, Pinning, BlockOf, Buf

LEMMA PinsOther ==
  ASSUME DiskAssumption, Types, Calls, Pins, Requests,
         (\E p \in Hands : Kill(p)) \/ (\E id \in Descs : Device(id)) \/ Handler
  PROVE  Pins'
<1>1. UNCHANGED <<proc, pinned>>
  BY DEF Kill, Device, Handler, Ack, Scan, ScanEnd, Exit
<1>2. \A b \in Bufs : buf'[b].block = buf[b].block
  <2>1. CASE (\E p \in Hands : Kill(p)) \/ Ack \/ ScanEnd \/ Exit
    BY <2>1 DEF Kill, Ack, ScanEnd, Exit, bvars
  <2>2. ASSUME NEW id \in Descs, Device(id) PROVE \A b \in Bufs : buf'[b].block = buf[b].block
    <3>1. info[id].b \in Bufs /\ buf[info[id].b].block \in Blocks
      BY <2>2, UnderWay DEF Device
    <3>2. buf' = buf \/ Same(info[id].b, {"data"})
      BY <2>2, <3>1, DeviceEffect
    <3> QED
      BY <3>2 DEF Same
  <2>3. CASE Scan
    <3>1. info[Head(used)].b \in Bufs
      BY <2>3, HeadUnderWay DEF Scan
    <3>2. Same(info[Head(used)].b, {"disk"})
      BY <2>3, <3>1, ScanEffect
    <3> QED
      BY <3>2 DEF Same
  <2> QED
    BY <2>1, <2>2, <2>3 DEF Handler
<1> QED
  BY <1>1, <1>2, PinsQuiet

-----------------------------------------------------------------------------
(* Descriptors.                                                              *)

LEMMA ChainIs ==
  ASSUME NEW i, NEW x, NEW y, IsChain(i, x, y)
  PROVE  Chain(i) = {i, x, y}
<1>1. desc[i] = {x} /\ desc[x] = {y}
  BY DEF IsChain
<1>2. {desc[j] : j \in desc[i]} = {{y}}
  BY <1>1
<1> QED
  BY <1>1, <1>2 DEF Chain

LEMMA InflightFinite ==
  ASSUME DiskAssumption
  PROVE  IsFiniteSet(Inflight) /\ Cardinality(Inflight) \in Nat
<1>1. IsFiniteSet(Hands) /\ Inflight \subseteq Hands
  BY DEF DiskAssumption, Inflight
<1> QED
  BY <1>1, FS_Subset, FS_CardinalityType

LEMMA FreeFinite ==
  ASSUME DiskAssumption, Types
  PROVE  IsFiniteSet(free) /\ Cardinality(free) \in Nat
<1>1. NUM - 1 \in Int
  BY DEF DiskAssumption
<1>2. IsFiniteSet(Descs) /\ free \subseteq Descs
  BY <1>1, FS_Interval DEF Descs, Types
<1> QED
  BY <1>2, FS_Subset, FS_CardinalityType

\* A chain whose descriptors stay as they are stays a chain.
LEMMA ChainKept ==
  ASSUME Chains, NEW q \in Inflight, proc'[q].id = proc[q].id,
         \A i \in Chain(proc[q].id) : desc'[i] = desc[i]
  PROVE  Chain(proc[q].id)' = Chain(proc[q].id) /\ (\E x, y \in Descs : IsChain(proc[q].id, x, y))'
<1>1. PICK x, y \in Descs : IsChain(proc[q].id, x, y)
  BY DEF Chains
<1>2. Chain(proc[q].id) = {proc[q].id, x, y}
  BY <1>1, ChainIs
<1>3. desc'[proc[q].id] = {x} /\ desc'[x] = {y} /\ desc'[y] = {}
  BY <1>1, <1>2 DEF IsChain
<1>4. {desc'[j] : j \in desc'[proc'[q].id]} = {{y}}
  BY <1>3
<1>5. Chain(proc[q].id)' = {proc[q].id, x, y}
  BY <1>3, <1>4 DEF Chain
<1>6. IsChain(proc[q].id, x, y)'
  BY <1>1, <1>3 DEF IsChain
<1> QED
  BY <1>2, <1>5, <1>6

LEMMA ChainsQuiet ==
  ASSUME Chains, UNCHANGED <<free, desc>>, Inflight' = Inflight, \A q \in Inflight : proc'[q].id = proc[q].id
  PROVE  Chains'
<1>1. \A q \in Inflight' : Chain(proc[q].id)' = Chain(proc[q].id) /\ (\E x, y \in Descs : IsChain(proc[q].id, x, y))'
  BY ChainKept
<1>2. \A q \in Inflight' : Chain(proc[q].id)' \cap free' = {}
  BY <1>1 DEF Chains
<1>3. \A q, r \in Inflight' : q # r => Chain(proc[q].id)' \cap Chain(proc[r].id)' = {}
  BY <1>1 DEF Chains
<1>4. Cardinality(free') = NUM - 3 * Cardinality(Inflight')
  BY DEF Chains
<1> QED
  BY <1>1, <1>2, <1>3, <1>4, Zenon DEF Chains

LEMMA ChainsStart ==
  ASSUME DiskAssumption, Types, Chains, NEW p \in Hands, Start(p)
  PROVE  Chains'
<1>1. PICK i1, i2, i3 \in free :
         /\ i1 # i2 /\ i1 # i3 /\ i2 # i3
         /\ free' = free \ {i1, i2, i3}
         /\ \A i \in Descs \ {i1, i2, i3} : desc'[i] = desc[i]
         /\ desc'[i1] = {i2} /\ desc'[i2] = {i3} /\ desc'[i3] = {}
         /\ proc'[p].id = i1
  <2> DEFINE b == proc[p].b
  <2>1. \E i1, i2, i3 \in free :
          /\ i1 # i2 /\ i1 # i3 /\ i2 # i3
          /\ free' = free \ {i1, i2, i3}
          /\ desc' \in [Descs -> SUBSET Descs]
          /\ \A i \in Descs \ {i1, i2, i3} : desc'[i] = desc[i]
          /\ desc'[i1] = {i2} /\ desc'[i2] = {i3} /\ desc'[i3] = {}
          /\ info' \in [Descs -> Request]
          /\ \A i \in Descs \ {i1} : info'[i] = info[i]
          /\ info'[i1] = [b |-> b, write |-> buf[b].valid]
          /\ avail' = avail \cup {i1}
          /\ proc'[p].id = i1
    BY StartEffect
  <2> QED
    BY <2>1
<1>2. Goes(p, "wait") /\ proc[p].pc = "start" /\ free \subseteq Descs
  BY StartEffect DEF Start, At, Types
<1>3. Inflight' = Inflight \cup {p} /\ p \notin Inflight /\ \A q \in Inflight : proc'[q] = proc[q] /\ q # p
  BY <1>2 DEF Inflight, Goes
<1>4. ASSUME NEW q \in Inflight
      PROVE  Chain(proc[q].id)' = Chain(proc[q].id) /\ (\E x, y \in Descs : IsChain(proc[q].id, x, y))'
  <2>1. Chain(proc[q].id) \cap free = {}
    BY DEF Chains
  <2>2. Chain(proc[q].id) \subseteq Descs
    <3>1. PICK x, y \in Descs : IsChain(proc[q].id, x, y)
      BY DEF Chains
    <3>2. proc[q].id \in Descs
      BY Mine DEF Inflight
    <3> QED
      BY <3>1, <3>2, ChainIs
  <2>3. \A i \in Chain(proc[q].id) : desc'[i] = desc[i]
    BY <1>1, <2>1, <2>2
  <2>4. proc'[q].id = proc[q].id
    BY <1>3
  <2> QED
    BY <2>3, <2>4, ChainKept
<1>5. Chain(proc[p].id)' = {i1, i2, i3} /\ (\E x, y \in Descs : IsChain(proc[p].id, x, y))'
  <2>1. IsChain(proc[p].id, i2, i3)'
    BY <1>1 DEF IsChain
  <2>2. {desc'[j] : j \in desc'[proc'[p].id]} = {{i3}}
    BY <1>1
  <2>3. Chain(proc[p].id)' = {i1, i2, i3}
    BY <1>1, <2>2 DEF Chain
  <2> QED
    BY <1>2, <2>1, <2>3
<1>6. \A q \in Inflight' : (\E x, y \in Descs : IsChain(proc[q].id, x, y))'
  BY <1>3, <1>4, <1>5
<1>7. \A q \in Inflight' : Chain(proc[q].id)' \cap free' = {}
  BY <1>1, <1>3, <1>4, <1>5 DEF Chains
<1>8. \A q, r \in Inflight' : q # r => Chain(proc[q].id)' \cap Chain(proc[r].id)' = {}
  <2>1. \A q \in Inflight : Chain(proc[q].id)' \cap Chain(proc[p].id)' = {}
    BY <1>4, <1>5 DEF Chains
  <2>2. \A q, r \in Inflight : q # r => Chain(proc[q].id)' \cap Chain(proc[r].id)' = {}
    BY <1>4 DEF Chains
  <2> QED
    BY <1>3, <2>1, <2>2
<1>9. Cardinality(free') = NUM - 3 * Cardinality(Inflight')
  <2>1. IsFiniteSet(free') /\ free = free' \cup {i1, i2, i3} /\ i1 \notin free' /\ i2 \notin free' /\ i3 \notin free'
    <3>1. IsFiniteSet(free') /\ free' \subseteq free
      BY <1>1, FreeFinite, FS_Subset
    <3> QED
      BY <1>1, <3>1
  <2>2. Cardinality(free) = Cardinality(free') + 3
    <3>1. IsFiniteSet(free') /\ i1 # i2 /\ i1 # i3 /\ i2 # i3 /\ i1 \notin free' /\ i2 \notin free' /\ i3 \notin free'
      BY <1>1, <2>1
    <3>2. Cardinality(free' \cup {i1, i2, i3}) = Cardinality(free') + 3
      BY <3>1, Triple
    <3> QED
      BY <2>1, <3>2
  <2>3. Cardinality(Inflight') = Cardinality(Inflight) + 1
    BY <1>3, InflightFinite, FS_AddElement
  <2>4. Cardinality(free) = NUM - 3 * Cardinality(Inflight) /\ NUM \in Nat
    BY DEF Chains, DiskAssumption
  <2>5. Cardinality(free') \in Nat /\ Cardinality(Inflight) \in Nat
    BY <2>1, FS_CardinalityType, InflightFinite
  <2> QED
    BY <2>2, <2>3, <2>4, <2>5
<1> QED
  BY <1>6, <1>7, <1>8, <1>9, Zenon DEF Chains

LEMMA ChainsFinish ==
  ASSUME DiskAssumption, Types, Chains, NEW p \in Hands, Finish(p)
  PROVE  Chains'
<1>1. p \in Inflight /\ free' = free \cup Chain(proc[p].id)
      /\ desc' = [i \in Descs |-> IF i \in Chain(proc[p].id) THEN {} ELSE desc[i]]
  BY DEF Finish, At, Inflight
<1>2. PICK x, y \in Descs : IsChain(proc[p].id, x, y)
  BY <1>1 DEF Chains
<1>3. Chain(proc[p].id) = {proc[p].id, x, y}
  BY <1>2, ChainIs
<1>4. \E pc \in {"start", "pin", "release", "unpin"} : Goes(p, pc)
  <2>1. CASE buf[proc[p].b].valid
    BY <2>1, FinishEffect
  <2>2. CASE ~buf[proc[p].b].valid
    BY <2>2, FinishEffect DEF AfterRead
  <2> QED
    BY <2>1, <2>2
<1>5. Inflight' = Inflight \ {p} /\ \A q \in Inflight' : proc'[q] = proc[q] /\ q # p
  BY <1>1, <1>4 DEF Inflight, Goes
<1>6. ASSUME NEW q \in Inflight'
      PROVE  Chain(proc[q].id)' = Chain(proc[q].id) /\ (\E u, v \in Descs : IsChain(proc[q].id, u, v))'
  <2>1. q \in Inflight /\ q # p
    BY <1>5
  <2>2. Chain(proc[q].id) \cap Chain(proc[p].id) = {}
    BY <1>1, <2>1 DEF Chains
  <2>3. Chain(proc[q].id) \subseteq Descs
    <3>1. PICK u, v \in Descs : IsChain(proc[q].id, u, v)
      BY <2>1 DEF Chains
    <3>2. proc[q].id \in Descs
      BY <2>1, Mine DEF Inflight
    <3> QED
      BY <3>1, <3>2, ChainIs
  <2>4. \A i \in Chain(proc[q].id) : desc'[i] = desc[i]
    BY <1>1, <2>2, <2>3
  <2>5. proc'[q].id = proc[q].id
    BY <1>5
  <2> QED
    BY <2>1, <2>4, <2>5, ChainKept
<1>7. \A q \in Inflight' : Chain(proc[q].id)' \cap free' = {}
  BY <1>1, <1>5, <1>6 DEF Chains
<1>8. \A q, r \in Inflight' : q # r => Chain(proc[q].id)' \cap Chain(proc[r].id)' = {}
  BY <1>5, <1>6 DEF Chains
<1>9. Cardinality(free') = NUM - 3 * Cardinality(Inflight')
  <2>1. Chain(proc[p].id) \cap free = {}
    BY <1>1 DEF Chains
  <2>2. proc[p].id # x /\ proc[p].id # y /\ x # y
    BY <1>2 DEF IsChain
  <2>3. Cardinality(free') = Cardinality(free) + 3
    <3>1. proc[p].id \notin free /\ x \notin free /\ y \notin free
      BY <1>3, <2>1
    <3>2. Cardinality(free \cup {proc[p].id, x, y}) = Cardinality(free) + 3
      BY <2>2, <3>1, FreeFinite, Triple
    <3> QED
      BY <1>1, <1>3, <3>2
  <2>4. Cardinality(Inflight') = Cardinality(Inflight) - 1
    BY <1>1, <1>5, InflightFinite, FS_RemoveElement
  <2>5. Cardinality(free) = NUM - 3 * Cardinality(Inflight) /\ NUM \in Nat
    BY DEF Chains, DiskAssumption
  <2>6. Cardinality(free) \in Nat /\ Cardinality(Inflight) \in Nat
    BY FreeFinite, InflightFinite
  <2> QED
    BY <2>3, <2>4, <2>5, <2>6
<1> QED
  BY <1>6, <1>7, <1>8, <1>9, Zenon DEF Chains

LEMMA ChainsNext ==
  ASSUME DiskAssumption, Types, Calls, Chains, Next
  PROVE  Chains'
<1> USE DEF Inflight
<1>1. ASSUME NEW p \in Hands, Step(p) PROVE Chains'
  <2>1. CASE Start(p)
    BY <2>1, ChainsStart
  <2>2. CASE Finish(p)
    BY <2>2, ChainsFinish
  <2>3. CASE Acquire(p) \/ Pin(p) \/ Unpin(p) \/ Release(p)
    <3>1. \E pc \in {"start", "pin", "release", "drop"} : Goes(p, pc)
      <4>1. CASE Acquire(p)
        BY <4>1, AcquireEffect DEF AfterRead
      <4>2. CASE Pin(p) \/ Unpin(p) \/ Release(p)
        BY <4>2, PinEffect, UnpinEffect, ReleaseEffect
      <4> QED
        BY <2>3, <4>1, <4>2
    <3>2. proc[p].pc # "wait" /\ UNCHANGED <<free, desc>>
      BY <2>3 DEF Acquire, Pin, Unpin, Release, At, dvars
    <3>3. Inflight' = Inflight /\ \A q \in Inflight : proc'[q].id = proc[q].id
      BY <3>1, <3>2 DEF Goes
    <3> QED
      BY <3>2, <3>3, ChainsQuiet
  <2>4. CASE AcquireSleep(p) \/ StartSleep(p) \/ WaitSleep(p)
    BY <2>4, ChainsQuiet DEF AcquireSleep, StartSleep, WaitSleep, dvars
  <2>5. CASE Drop(p)
    <3>1. (\A q \in Hands : q # p => proc'[q] = proc[q]) /\ proc'[p].pc = "idle"
      BY <2>5, DropEffect DEF Idle
    <3>2. proc[p].pc # "wait" /\ UNCHANGED <<free, desc>>
      BY <2>5 DEF Drop, At, dvars
    <3>3. Inflight' = Inflight /\ \A q \in Inflight : proc'[q].id = proc[q].id
      BY <3>1, <3>2
    <3> QED
      BY <3>2, <3>3, ChainsQuiet
  <2> QED
    BY <1>1, <2>1, <2>2, <2>3, <2>4, <2>5 DEF Step
<1>2. ASSUME NEW p \in Hands, NEW op \in {"read", "write", "log", "install"}, NEW k \in Blocks, Get(p, op, k) PROVE Chains'
  <2>1. (\A q \in Hands : q # p => proc'[q] = proc[q]) /\ proc'[p].pc = "lock"
    <3>1. op \in Ops
      BY DEF Ops
    <3> QED
      BY <1>2, <3>1, GetEffect
  <2>2. proc[p].pc = "idle" /\ UNCHANGED <<free, desc>>
    BY <1>2 DEF Get, Asks, dvars
  <2>3. Inflight' = Inflight /\ \A q \in Inflight : proc'[q].id = proc[q].id
    BY <2>1, <2>2
  <2> QED
    BY <2>2, <2>3, ChainsQuiet
<1>3. CASE (\E p \in Hands : Kill(p)) \/ (\E id \in Descs : Device(id)) \/ Handler
  <2>1. UNCHANGED <<proc, free, desc>>
    BY <1>3 DEF Kill, Device, Handler, Ack, Scan, ScanEnd, Exit, dvars
  <2> QED
    BY <2>1, ChainsQuiet
<1> QED
  BY <1>1, <1>2, <1>3 DEF Next

-----------------------------------------------------------------------------
(* Requests.                                                                 *)

LEMMA IdsApart ==
  ASSUME Chains
  PROVE  /\ \A p, q \in Inflight : proc[p].id = proc[q].id => p = q
         /\ \A p \in Inflight : proc[p].id \notin free
<1>1. \A p \in Inflight : proc[p].id \in Chain(proc[p].id)
  BY DEF Chain
<1> QED
  BY <1>1 DEF Chains

\* A buffer is locked by one process.
LEMMA Own ==
  ASSUME Types, Calls, NEW p \in Hands, NEW q \in Hands, proc[p].pc \in Holding, proc[q].pc \in Holding,
         proc[p].b = proc[q].b
  PROVE  p = q
<1>1. proc[p].b \in Bufs
  BY Mine
<1>2. buf[proc[p].b].holder = p /\ buf[proc[p].b].holder = q
  BY <1>1 DEF Calls
<1> QED
  BY <1>2

LEMMA AppendIds ==
  ASSUME used \in Seq(Descs), NEW id \in Descs, used' = Append(used, id), id \notin UsedIds,
         \A i, j \in 1..Len(used) : used[i] = used[j] => i = j
  PROVE  /\ UsedIds' = UsedIds \cup {id}
         /\ \A i, j \in 1..Len(used') : used'[i] = used'[j] => i = j
<1>1. /\ Len(used') = Len(used) + 1 /\ used'[Len(used) + 1] = id /\ Len(used) \in Nat
      /\ \A j \in 1..Len(used) : used'[j] = used[j]
  OBVIOUS
<1>2. 1..Len(used') = 1..Len(used) \cup {Len(used) + 1} /\ Len(used) + 1 \notin 1..Len(used)
  BY <1>1
<1>3. \A j \in 1..Len(used) : used[j] # id
  BY DEF UsedIds
<1>4. UsedIds' = UsedIds \cup {id}
  BY <1>1, <1>2 DEF UsedIds
<1>5. \A i, j \in 1..Len(used') : used'[i] = used'[j] => i = j
  BY <1>1, <1>2, <1>3
<1> QED
  BY <1>4, <1>5

LEMMA TailIds ==
  ASSUME used \in Seq(Descs), used # <<>>, used' = Tail(used),
         \A i, j \in 1..Len(used) : used[i] = used[j] => i = j
  PROVE  /\ UsedIds' = UsedIds \ {Head(used)} /\ Head(used) \in UsedIds
         /\ \A i, j \in 1..Len(used') : used'[i] = used'[j] => i = j
<1>1. /\ Len(used') = Len(used) - 1 /\ Head(used) = used[1] /\ Len(used) \in Nat \ {0}
      /\ \A j \in 1..Len(used') : used'[j] = used[j + 1]
  OBVIOUS
<1>2. \A j \in 1..Len(used') : j + 1 \in 1..Len(used) /\ j + 1 # 1
  BY <1>1
<1>3. \A i \in 1..Len(used) : i # 1 => i - 1 \in 1..Len(used') /\ used'[i - 1] = used[i]
  <2> SUFFICES ASSUME NEW i \in 1..Len(used), i # 1 PROVE i - 1 \in 1..Len(used') /\ used'[i - 1] = used[i]
    OBVIOUS
  <2>1. i - 1 \in 1..Len(used') /\ (i - 1) + 1 = i
    BY <1>1
  <2> QED
    BY <1>1, <2>1
<1>4. 1 \in 1..Len(used)
  BY <1>1
<1>5. UsedIds' \subseteq UsedIds \ {Head(used)}
  BY <1>1, <1>2, <1>4 DEF UsedIds
<1>6. UsedIds \ {Head(used)} \subseteq UsedIds'
  <2> SUFFICES ASSUME NEW i \in 1..Len(used), used[i] # Head(used) PROVE used[i] \in UsedIds'
    BY DEF UsedIds
  <2>1. i - 1 \in 1..Len(used') /\ used'[i - 1] = used[i]
    BY <1>1, <1>3
  <2> QED
    BY <2>1 DEF UsedIds
<1>7. Head(used) \in UsedIds
  BY <1>1, <1>4 DEF UsedIds
<1>8. ASSUME NEW i \in 1..Len(used'), NEW j \in 1..Len(used'), used'[i] = used'[j] PROVE i = j
  <2>1. used[i + 1] = used[j + 1] /\ i + 1 \in 1..Len(used) /\ j + 1 \in 1..Len(used)
    BY <1>1, <1>2, <1>8
  <2>2. i + 1 = j + 1
    BY <2>1
  <2> QED
    BY <2>2
<1> QED
  BY <1>5, <1>6, <1>7, <1>8

LEMMA RequestsQuiet ==
  ASSUME Types, Requests, UNCHANGED <<info, avail, used>>, Inflight' = Inflight,
         \A q \in Inflight : proc'[q].id = proc[q].id /\ proc'[q].b = proc[q].b,
         \A q \in Inflight : buf'[proc[q].b].valid = buf[proc[q].b].valid /\ buf'[proc[q].b].disk = buf[proc[q].b].disk
  PROVE  Requests'
<1>1. UsedIds' = UsedIds
  BY DEF UsedIds
<1>2. \A q \in Inflight' : info'[proc'[q].id] = [b |-> proc'[q].b, write |-> buf'[proc'[q].b].valid]
  BY DEF Requests, Buf
<1>3. \A q \in Inflight' : buf'[proc'[q].b].disk <=> (proc'[q].id \in avail' \/ proc'[q].id \in UsedIds')
  BY <1>1 DEF Requests, Buf
<1>4. avail' \cup UsedIds' \subseteq {proc'[q].id : q \in Inflight'}
  BY <1>1 DEF Requests
<1>5. avail' \cap UsedIds' = {} /\ \A i, j \in 1..Len(used') : used'[i] = used'[j] => i = j
  BY <1>1 DEF Requests
<1> QED
  BY <1>2, <1>3, <1>4, <1>5 DEF Requests, Buf

LEMMA RequestsStart ==
  ASSUME DiskAssumption, Types, Calls, Chains, Requests, NEW p \in Hands, Start(p)
  PROVE  Requests'
<1> DEFINE b == proc[p].b
<1>1. PICK i \in free :
         /\ info'[i] = [b |-> b, write |-> buf[b].valid] /\ \A j \in Descs \ {i} : info'[j] = info[j]
         /\ avail' = avail \cup {i}
         /\ proc'[p].id = i
  BY StartEffect
<1>2. Same(b, {"disk"}) /\ buf'[b].disk = TRUE /\ Goes(p, "wait") /\ proc[p].pc = "start" /\ UNCHANGED used
  BY StartEffect DEF Start, At
<1>3. b \in Bufs /\ \A q \in Hands : proc[q].b \in Bufs /\ proc[q].id \in Descs
  BY Mine
<1> HIDE DEF b
<1>4. Inflight' = Inflight \cup {p} /\ \A q \in Inflight : q # p /\ proc'[q] = proc[q] /\ q \in Hands
  BY <1>2 DEF Inflight, Goes
<1>5. ASSUME NEW q \in Inflight PROVE proc[q].id # i /\ proc[q].b # b
  <2>1. proc[q].pc \in Holding /\ proc[p].pc \in Holding /\ q # p
    BY <1>2, <1>4 DEF Inflight, Holding
  <2>2. proc[q].b # b
    BY <2>1, <1>4, Own DEF b
  <2> QED
    BY <2>2, IdsApart
<1>6. UsedIds' = UsedIds /\ i \notin avail /\ i \notin UsedIds
  <2>1. UsedIds' = UsedIds
    BY <1>2 DEF UsedIds
  <2>2. i \notin avail \cup UsedIds
    BY <1>5 DEF Requests
  <2> QED
    BY <2>1, <2>2
<1>7. proc'[p].b = b /\ buf'[b].valid = buf[b].valid
  BY <1>2 DEF Goes, Same, b
<1>8. \A q \in Inflight : buf'[proc[q].b] = buf[proc[q].b]
  BY <1>2, <1>3, <1>4, <1>5 DEF Same
<1>9. ASSUME NEW q \in Inflight' PROVE info'[proc'[q].id] = [b |-> proc'[q].b, write |-> buf'[proc'[q].b].valid]
  <2>1. CASE q = p
    BY <1>1, <1>7, <2>1
  <2>2. CASE q # p
    <3>1. q \in Inflight
      BY <1>4, <1>9, <2>2
    <3>2. info'[proc[q].id] = info[proc[q].id] /\ buf'[proc[q].b] = buf[proc[q].b] /\ proc'[q] = proc[q]
      BY <1>1, <1>3, <1>4, <1>5, <1>8, <3>1
    <3> QED
      BY <3>1, <3>2 DEF Requests, Buf
  <2> QED
    BY <2>1, <2>2
<1>10. ASSUME NEW q \in Inflight' PROVE buf'[proc'[q].b].disk <=> (proc'[q].id \in avail' \/ proc'[q].id \in UsedIds')
  <2>1. CASE q = p
    BY <1>1, <1>2, <1>7, <2>1
  <2>2. CASE q # p
    <3>1. q \in Inflight
      BY <1>4, <1>10, <2>2
    <3>2. buf'[proc[q].b] = buf[proc[q].b] /\ proc'[q] = proc[q] /\ (proc[q].id \in avail' <=> proc[q].id \in avail)
      BY <1>1, <1>4, <1>5, <1>8, <3>1
    <3> QED
      BY <1>6, <3>1, <3>2 DEF Requests, Buf
  <2> QED
    BY <2>1, <2>2
<1>11. avail' \cup UsedIds' \subseteq {proc'[q].id : q \in Inflight'}
  <2>1. \A q \in Inflight : proc'[q].id = proc[q].id
    BY <1>4
  <2>2. avail \cup UsedIds \subseteq {proc'[q].id : q \in Inflight}
    BY <2>1 DEF Requests
  <2> QED
    BY <1>1, <1>4, <1>6, <2>2
<1>12. avail' \cap UsedIds' = {} /\ \A j, k \in 1..Len(used') : used'[j] = used'[k] => j = k
  BY <1>1, <1>2, <1>6 DEF Requests
<1> QED
  BY <1>9, <1>10, <1>11, <1>12 DEF Requests, Buf

LEMMA RequestsFinish ==
  ASSUME DiskAssumption, Types, Calls, Chains, Requests, NEW p \in Hands, Finish(p)
  PROVE  Requests'
<1> DEFINE b == proc[p].b
<1>1. /\ info' = [info EXCEPT ![proc[p].id] = NoRequest] /\ UNCHANGED <<avail, used>>
      /\ proc[p].pc = "wait" /\ ~buf[b].disk
  BY DEF Finish, At, Buf
<1>2. /\ \E pc \in {"start", "pin", "release", "unpin"} : Goes(p, pc)
      /\ \A c \in Bufs : c # b => buf'[c] = buf[c]
  <2>1. CASE buf[b].valid
    BY <2>1, FinishEffect
  <2>2. CASE ~buf[b].valid
    BY <2>2, FinishEffect DEF AfterRead, Same
  <2> QED
    BY <2>1, <2>2
<1>3. \A q \in Hands : proc[q].b \in Bufs /\ proc[q].id \in Descs
  BY Mine
<1>4. p \in Inflight /\ Inflight' = Inflight \ {p} /\ \A q \in Inflight' : q \in Hands /\ q \in Inflight /\ q # p /\ proc'[q] = proc[q]
  BY <1>1, <1>2 DEF Inflight, Goes
<1>5. ASSUME NEW q \in Inflight' PROVE proc[q].id # proc[p].id /\ proc[q].b # b
  <2>1. proc[q].pc \in Holding /\ proc[p].pc \in Holding /\ q # p /\ q \in Inflight
    BY <1>1, <1>4 DEF Inflight, Holding
  <2>2. proc[q].b # b
    BY <2>1, <1>4, Own
  <2> QED
    BY <1>4, <2>1, <2>2, IdsApart
<1> HIDE DEF b
<1>6. proc[p].id \notin avail \cup UsedIds /\ UsedIds' = UsedIds
  BY <1>1, <1>4 DEF Requests, Buf, UsedIds, b
<1>7. ASSUME NEW q \in Inflight'
      PROVE  buf'[proc[q].b] = buf[proc[q].b] /\ info'[proc[q].id] = info[proc[q].id] /\ proc'[q] = proc[q] /\ q \in Inflight
  <2>1. info \in [Descs -> Request]
    BY DEF Types
  <2> QED
    BY <2>1, <1>1, <1>2, <1>3, <1>4, <1>5
<1>8. \A q \in Inflight' : info'[proc'[q].id] = [b |-> proc'[q].b, write |-> buf'[proc'[q].b].valid]
  BY <1>7 DEF Requests, Buf
<1>9. \A q \in Inflight' : buf'[proc'[q].b].disk <=> (proc'[q].id \in avail' \/ proc'[q].id \in UsedIds')
  BY <1>1, <1>6, <1>7 DEF Requests, Buf
<1>10. avail' \cup UsedIds' \subseteq {proc'[q].id : q \in Inflight'}
  <2> SUFFICES ASSUME NEW i \in avail \cup UsedIds PROVE \E q \in Inflight' : proc'[q].id = i
    BY <1>1, <1>6
  <2>1. PICK q \in Inflight : proc[q].id = i
    BY DEF Requests
  <2>2. q # p
    BY <1>6, <2>1
  <2> QED
    BY <1>4, <1>7, <2>1, <2>2
<1>11. avail' \cap UsedIds' = {} /\ \A j, k \in 1..Len(used') : used'[j] = used'[k] => j = k
  BY <1>1, <1>6 DEF Requests
<1> QED
  BY <1>8, <1>9, <1>10, <1>11 DEF Requests, Buf

LEMMA RequestsStep ==
  ASSUME DiskAssumption, Types, Calls, Chains, Requests, NEW p \in Hands, Step(p)
  PROVE  Requests'
<1> DEFINE b == proc[p].b
<1>1. b \in Bufs /\ \A q \in Hands : proc[q].b \in Bufs
  BY Mine
<1>2. \A S : Same(b, S) /\ "valid" \notin S /\ "disk" \notin S =>
        \A c \in Bufs : buf'[c].valid = buf[c].valid /\ buf'[c].disk = buf[c].disk
  BY DEF Same
<1>3. \A pc : Goes(p, pc) /\ proc[p].pc # "wait" /\ pc # "wait" =>
        Inflight' = Inflight /\ \A q \in Inflight : proc'[q].id = proc[q].id /\ proc'[q].b = proc[q].b
  BY DEF Goes, Inflight
<1>4. \A q \in Inflight : proc[q].b \in Bufs
  BY <1>1 DEF Inflight
<1> HIDE DEF b
<1>5. CASE Start(p)
  BY <1>5, RequestsStart
<1>6. CASE Finish(p)
  BY <1>6, RequestsFinish
<1>7. CASE Acquire(p) \/ Pin(p) \/ Unpin(p) \/ Release(p)
  <2>1. /\ \E pc \in {"start", "pin", "release", "drop"} : Goes(p, pc)
        /\ Same(b, {"holder", "data"}) \/ Same(b, {"refcnt"}) \/ Same(b, {"holder"})
    <3>1. CASE Acquire(p)
      BY <3>1, AcquireEffect DEF AfterRead, b
    <3>2. CASE Pin(p) \/ Unpin(p) \/ Release(p)
      BY <3>2, PinEffect, UnpinEffect, ReleaseEffect DEF b
    <3> QED
      BY <1>7, <3>1, <3>2
  <2>2. proc[p].pc # "wait" /\ UNCHANGED <<info, avail, used>>
    BY <1>7 DEF Acquire, Pin, Unpin, Release, At, dvars
  <2>3. \A c \in Bufs : buf'[c].valid = buf[c].valid /\ buf'[c].disk = buf[c].disk
    BY <1>2, <2>1
  <2>4. Inflight' = Inflight /\ \A q \in Inflight : proc'[q].id = proc[q].id /\ proc'[q].b = proc[q].b
    BY <1>3, <2>1, <2>2
  <2> QED
    BY <1>4, <2>2, <2>3, <2>4, RequestsQuiet
<1>8. CASE AcquireSleep(p) \/ StartSleep(p) \/ WaitSleep(p)
  BY <1>8, RequestsQuiet DEF AcquireSleep, StartSleep, WaitSleep, dvars, bvars, Inflight
<1>9. CASE Drop(p)
  <2>1. Same(b, {"refcnt"}) /\ (\A q \in Hands : q # p => proc'[q] = proc[q]) /\ proc'[p].pc = "idle"
    BY <1>9, DropEffect DEF Idle, b
  <2>2. proc[p].pc # "wait" /\ UNCHANGED <<info, avail, used>>
    BY <1>9 DEF Drop, At, dvars
  <2>3. \A c \in Bufs : buf'[c].valid = buf[c].valid /\ buf'[c].disk = buf[c].disk
    BY <1>2, <2>1
  <2>4. Inflight' = Inflight /\ \A q \in Inflight : proc'[q].id = proc[q].id /\ proc'[q].b = proc[q].b
    BY <2>1, <2>2 DEF Inflight
  <2> QED
    BY <1>4, <2>2, <2>3, <2>4, RequestsQuiet
<1> QED
  BY <1>5, <1>6, <1>7, <1>8, <1>9 DEF Step

LEMMA RequestsGet ==
  ASSUME DiskAssumption, Types, Calls, OneCopy, Requests,
         NEW p \in Hands, NEW op \in Ops \ {None}, NEW k \in Blocks, Get(p, op, k)
  PROVE  Requests'
<1>1. PICK b \in Bufs :
        /\ proc'[p].pc = "lock" /\ proc[p].pc = "idle"
        /\ \A q \in Hands : q # p => proc'[q] = proc[q]
        /\ buf'[b].disk = buf[b].disk
        /\ \A c \in Bufs : c # b => buf'[c] = buf[c]
        /\ Users(b) = {} \/ buf'[b].valid = buf[b].valid
  BY GetBlocks
<1>2. UNCHANGED <<info, avail, used>>
  BY DEF Get, Asks, dvars
<1>3. Inflight' = Inflight /\ \A q \in Inflight : proc'[q] = proc[q]
  BY <1>1 DEF Inflight
<1>4. ASSUME NEW q \in Inflight PROVE buf'[proc[q].b].valid = buf[proc[q].b].valid /\ buf'[proc[q].b].disk = buf[proc[q].b].disk
  <2>1. proc[q].b \in Bufs /\ q \in Users(proc[q].b)
    BY Mine DEF Inflight, Users
  <2> QED
    BY <1>1, <2>1
<1> QED
  BY <1>2, <1>3, <1>4, RequestsQuiet

LEMMA RequestsDevice ==
  ASSUME DiskAssumption, Types, Calls, Chains, Requests, NEW id \in Descs, Device(id)
  PROVE  Requests'
<1>1. id \in avail /\ UNCHANGED <<proc, info>>
  BY DEF Device
<1>2. info[id].b \in Bufs /\ buf[info[id].b].block \in Blocks
  BY <1>1, UnderWay
<1>3. avail' = avail \ {id} /\ used' = Append(used, id) /\ (buf' = buf \/ Same(info[id].b, {"data"}))
  BY <1>2, DeviceEffect
<1>4. id \notin UsedIds /\ used \in Seq(Descs) /\ \A i, j \in 1..Len(used) : used[i] = used[j] => i = j
  BY <1>1 DEF Requests, Types
<1>5. UsedIds' = UsedIds \cup {id} /\ \A i, j \in 1..Len(used') : used'[i] = used'[j] => i = j
  BY <1>3, <1>4, AppendIds
<1>6. \A q \in Hands : proc[q].b \in Bufs /\ buf'[proc[q].b].valid = buf[proc[q].b].valid /\ buf'[proc[q].b].disk = buf[proc[q].b].disk
  BY <1>3, Mine DEF Same
<1>7. Inflight' = Inflight /\ Inflight \subseteq Hands
  BY <1>1 DEF Inflight
<1>8. \A q \in Inflight' : info'[proc'[q].id] = [b |-> proc'[q].b, write |-> buf'[proc'[q].b].valid]
  BY <1>1, <1>6, <1>7 DEF Requests, Buf
<1>9. \A i : i \in avail' \/ i \in UsedIds' <=> i \in avail \/ i \in UsedIds
  BY <1>1, <1>3, <1>5
<1>10. \A q \in Inflight' : buf'[proc'[q].b].disk <=> (proc'[q].id \in avail' \/ proc'[q].id \in UsedIds')
  <2> SUFFICES ASSUME NEW q \in Inflight PROVE buf'[proc[q].b].disk <=> (proc[q].id \in avail' \/ proc[q].id \in UsedIds')
    BY <1>1, <1>7
  <2>1. buf[proc[q].b].disk <=> (proc[q].id \in avail \/ proc[q].id \in UsedIds)
    BY DEF Requests, Buf
  <2>2. buf'[proc[q].b].disk = buf[proc[q].b].disk
    BY <1>6, <1>7
  <2> QED
    BY <1>9, <2>1, <2>2
<1>11. avail' \cup UsedIds' \subseteq {proc'[q].id : q \in Inflight'}
  BY <1>1, <1>7, <1>9 DEF Requests
<1>12. avail' \cap UsedIds' = {}
  BY <1>3, <1>5 DEF Requests
<1> QED
  BY <1>5, <1>8, <1>10, <1>11, <1>12 DEF Requests, Buf

LEMMA RequestsScan ==
  ASSUME DiskAssumption, Types, Calls, Chains, Requests, Scan
  PROVE  Requests'
<1>1. used # <<>> /\ UNCHANGED <<proc, info, avail>>
  BY DEF Scan
<1>2. PICK p \in Inflight : proc[p].id = Head(used) /\ info[Head(used)].b = proc[p].b
  BY <1>1, HeadUnderWay
<1>3. info[Head(used)].b \in Bufs /\ \A q \in Hands : proc[q].b \in Bufs
  BY <1>1, HeadUnderWay, Mine
<1>4. Same(proc[p].b, {"disk"}) /\ buf'[proc[p].b].disk = FALSE /\ used' = Tail(used)
  BY <1>2, <1>3, ScanEffect
<1>5. used \in Seq(Descs) /\ \A i, j \in 1..Len(used) : used[i] = used[j] => i = j
  BY DEF Requests, Types
<1>6. /\ UsedIds' = UsedIds \ {Head(used)} /\ Head(used) \in UsedIds
      /\ \A i, j \in 1..Len(used') : used'[i] = used'[j] => i = j
  BY <1>1, <1>4, <1>5, TailIds
<1>7. Inflight' = Inflight /\ Inflight \subseteq Hands
  BY <1>1 DEF Inflight
<1>8. ASSUME NEW q \in Inflight, q # p PROVE proc[q].b # proc[p].b /\ proc[q].id # proc[p].id
  <2>1. proc[q].pc \in Holding /\ proc[p].pc \in Holding
    BY DEF Inflight, Holding
  <2>2. proc[q].b # proc[p].b
    BY <1>7, <1>8, <2>1, Own
  <2> QED
    BY <1>8, <2>2, IdsApart
<1>9. \A q \in Hands : buf'[proc[q].b].valid = buf[proc[q].b].valid /\ (proc[q].b # proc[p].b => buf'[proc[q].b].disk = buf[proc[q].b].disk)
  BY <1>3, <1>4 DEF Same
<1>10. \A q \in Inflight' : info'[proc'[q].id] = [b |-> proc'[q].b, write |-> buf'[proc'[q].b].valid]
  BY <1>1, <1>7, <1>9 DEF Requests, Buf
<1>11. ASSUME NEW q \in Inflight PROVE buf'[proc[q].b].disk <=> (proc[q].id \in avail \/ proc[q].id \in UsedIds')
  <2>1. buf[proc[q].b].disk <=> (proc[q].id \in avail \/ proc[q].id \in UsedIds)
    BY DEF Requests, Buf
  <2>2. CASE q = p
    <3>1. proc[p].id \notin avail /\ proc[p].id \notin UsedIds'
      BY <1>2, <1>6 DEF Requests
    <3> QED
      BY <1>4, <2>2, <3>1
  <2>3. CASE q # p
    <3>1. buf'[proc[q].b].disk = buf[proc[q].b].disk /\ proc[q].id # Head(used)
      BY <1>2, <1>7, <1>8, <1>9, <2>3
    <3> QED
      BY <1>6, <2>1, <3>1
  <2> QED
    BY <2>2, <2>3
<1>12. \A q \in Inflight' : buf'[proc'[q].b].disk <=> (proc'[q].id \in avail' \/ proc'[q].id \in UsedIds')
  BY <1>1, <1>7, <1>11
<1>13. avail' \cup UsedIds' \subseteq {proc'[q].id : q \in Inflight'} /\ avail' \cap UsedIds' = {}
  BY <1>1, <1>6, <1>7 DEF Requests
<1> QED
  BY <1>6, <1>10, <1>12, <1>13 DEF Requests, Buf

LEMMA RequestsOther ==
  ASSUME DiskAssumption, Types, Calls, Chains, Requests,
         (\E p \in Hands : Kill(p)) \/ (\E id \in Descs : Device(id)) \/ Handler
  PROVE  Requests'
<1>1. CASE (\E p \in Hands : Kill(p)) \/ Ack \/ ScanEnd \/ Exit
  BY <1>1, RequestsQuiet DEF Kill, Ack, ScanEnd, Exit, bvars, dvars, Inflight
<1> QED
  BY <1>1, RequestsDevice, RequestsScan DEF Handler

-----------------------------------------------------------------------------
(* The contents of blocks.                                                   *)

LEMMA Apart ==
  ASSUME DiskAssumption, OneCopy, NEW b \in Bufs, NEW c \in Bufs, b # c, buf[b].block \in Blocks
  PROVE  buf[c].block # buf[b].block
BY NoneApart DEF OneCopy

\* Steps that read and write nothing.
LEMMA DataQuiet ==
  ASSUME DiskAssumption, Types, Data, UNCHANGED <<platter, latest, pinned>>, avail \subseteq avail',
         \A b \in Bufs : /\ buf'[b].block = buf[b].block /\ buf'[b].valid = buf[b].valid
                         /\ buf'[b].data = buf[b].data /\ buf'[b].holder = buf[b].holder,
         \A q \in Inflight' : \/ q \in Inflight /\ proc'[q].b = proc[q].b /\ proc'[q].id = proc[q].id
                              \/ proc'[q].id \in avail',
         \A q \in Hands : proc'[q].pc \in {"pin", "unpin", "release"} => proc'[q].pc = proc[q].pc /\ proc'[q].b = proc[q].b
  PROVE  Data'
<1>1. \A q \in Hands : proc[q].b \in Bufs
  BY Mine
<1>2. \A b \in Bufs : buf'[b].valid => buf'[b].block \in Blocks /\ buf'[b].data = latest'[buf'[b].block]
  BY DEF Data
<1>3. ASSUME NEW k \in Blocks, platter'[k] # latest'[k]
      PROVE  \E b \in Bufs : buf'[b].block = k /\ buf'[b].valid /\ (buf'[b].holder # None \/ k \in pinned')
  BY <1>3 DEF Data
<1>4. ASSUME NEW q \in Inflight', proc'[q].id \notin avail' PROVE buf'[proc'[q].b].data = platter'[buf'[proc'[q].b].block]
  <2>1. q \in Inflight /\ proc'[q].b = proc[q].b /\ proc[q].id \notin avail /\ proc[q].b \in Bufs
    BY <1>1, <1>4 DEF Inflight
  <2>2. buf[proc[q].b].data = platter[buf[proc[q].b].block]
    BY <2>1 DEF Data, BlockOf, Buf
  <2> QED
    BY <2>1, <2>2
<1>5. \A q \in Hands : proc'[q].pc \in {"pin", "unpin", "release"} => buf'[proc'[q].b].valid
  BY <1>1 DEF Data, Buf
<1>6. \A q \in Hands : proc'[q].pc = "unpin" => platter'[buf'[proc'[q].b].block] = latest'[buf'[proc'[q].b].block]
  BY <1>1 DEF Data, BlockOf, Buf
<1>7. \A q \in Hands : proc'[q].pc = "release" =>
        buf'[proc'[q].b].block \in pinned' \/ platter'[buf'[proc'[q].b].block] = latest'[buf'[proc'[q].b].block]
  BY <1>1 DEF Data, BlockOf, Buf
<1> QED
  BY <1>2, <1>3, <1>4, <1>5, <1>6, <1>7 DEF Data, BlockOf, Buf

\* A caller gets the lock of a buffer, or its contents, and goes on.
LEMMA DataUse ==
  ASSUME DiskAssumption, Types, Calls, OneCopy, Data, NEW p \in Hands, NEW b \in Bufs, b = proc[p].b,
         UNCHANGED <<platter, pinned, avail>>, buf[b].block \in Blocks,
         \A c \in Bufs : c # b => buf'[c] = buf[c],
         buf'[b].block = buf[b].block, buf'[b].holder = p, Uses(p, b),
         buf'[b].valid => buf[b].data = latest[buf[b].block],
         platter[buf[b].block] # latest[buf[b].block] => buf[b].block \in pinned /\ buf'[b].valid,
         Goes(p, IF buf'[b].valid THEN AfterRead(proc[p].op) ELSE "start"),
         \A q \in Hands : q # p /\ proc[q].pc \in Holding => proc[q].b # b
  PROVE  Data'
<1> DEFINE k == buf[b].block
<1>1. latest \in [Blocks -> Int] /\ None \notin Hands /\ \A q \in Hands : proc[q].b \in Bufs
  BY Mine, NoneApart DEF Types
<1>2. \A c \in Bufs : c # b => buf[c].block # k
  BY Apart
<1>3. \A j \in Blocks : j # k => latest'[j] = latest[j]
  BY <1>1 DEF Uses
<1>4. \/ buf'[b].data = buf[b].data /\ latest' = latest
      \/ buf'[b].valid /\ buf'[b].data = buf[b].data + 1 /\ latest'[k] = latest[k] + 1 /\ proc[p].op # "read"
  BY <1>1 DEF Uses
<1>5. /\ \A q \in Hands : q # p => proc'[q] = proc[q]
      /\ proc'[p].b = b /\ proc'[p].pc = IF buf'[b].valid THEN AfterRead(proc[p].op) ELSE "start"
  BY DEF Goes
<1>6. ASSUME NEW q \in Hands, q # p, proc[q].pc \in Holding
      PROVE  /\ buf'[proc[q].b] = buf[proc[q].b] /\ proc'[q] = proc[q]
             /\ buf[proc[q].b].block \in Blocks /\ latest'[buf[proc[q].b].block] = latest[buf[proc[q].b].block]
  <2>1. proc[q].b # b /\ proc[q].b \in Bufs
    BY <1>1, <1>6
  <2>2. proc[q].pc # "idle"
    BY <1>6 DEF Holding
  <2>3. buf[proc[q].b].block \in Blocks
    BY <2>2 DEF Calls, BlockOf, Buf
  <2> QED
    BY <1>2, <1>3, <1>5, <1>6, <2>1, <2>3
<1>7. proc'[p].pc \in {"release", "pin", "start"} /\ (proc'[p].pc = "release" => proc[p].op = "read") /\ (proc'[p].pc # "start" => buf'[b].valid)
  BY <1>5 DEF AfterRead
<1> HIDE DEF k
<1>8. \A c \in Bufs : buf'[c].valid => buf'[c].block \in Blocks /\ buf'[c].data = latest'[buf'[c].block]
  <2>1. buf'[b].valid => buf'[b].data = latest'[k]
    BY <1>4 DEF k
  <2>2. ASSUME NEW c \in Bufs, c # b, buf'[c].valid PROVE buf'[c].block \in Blocks /\ buf'[c].data = latest'[buf'[c].block]
    BY <1>2, <1>3, <2>2 DEF Data
  <2> QED
    BY <2>1, <2>2 DEF k
<1>9. ASSUME NEW j \in Blocks, platter'[j] # latest'[j]
      PROVE  \E c \in Bufs : buf'[c].block = j /\ buf'[c].valid /\ (buf'[c].holder # None \/ j \in pinned')
  <2>1. CASE j = k
    <3>1. buf'[b].valid
      <4>1. CASE latest' = latest
        BY <1>9, <2>1, <4>1 DEF k
      <4> QED
        BY <1>4, <4>1
    <3> QED
      BY <1>1, <2>1, <3>1 DEF k
  <2>2. CASE j # k
    <3>1. platter[j] # latest[j]
      BY <1>3, <1>9, <2>2
    <3>2. PICK c \in Bufs : buf[c].block = j /\ buf[c].valid /\ (buf[c].holder # None \/ j \in pinned)
      BY <3>1 DEF Data
    <3>3. c # b
      BY <2>2, <3>2 DEF k
    <3> QED
      BY <3>2, <3>3
  <2> QED
    BY <2>1, <2>2
<1>10. ASSUME NEW q \in Inflight', proc'[q].id \notin avail' PROVE buf'[proc'[q].b].data = platter'[buf'[proc'[q].b].block]
  <2>1. q \in Hands /\ q # p /\ proc[q].pc = "wait" /\ proc[q].pc \in Holding
    BY <1>5, <1>7 DEF Inflight, Holding
  <2>2. buf[proc[q].b].data = platter[buf[proc[q].b].block]
    BY <1>6, <1>10, <2>1 DEF Data, Inflight, BlockOf, Buf
  <2> QED
    BY <1>6, <2>1, <2>2
<1>11. ASSUME NEW q \in Hands, proc'[q].pc \in {"pin", "unpin", "release"} PROVE buf'[proc'[q].b].valid
  <2>1. CASE q = p
    BY <1>5, <1>7, <1>11, <2>1
  <2>2. CASE q # p
    <3>1. proc[q].pc \in Holding /\ proc[q].pc \in {"pin", "unpin", "release"}
      BY <1>5, <1>11, <2>2 DEF Holding
    <3> QED
      BY <1>6, <2>2, <3>1 DEF Data, Buf
  <2> QED
    BY <2>1, <2>2
<1>12. ASSUME NEW q \in Hands, proc'[q].pc = "unpin" PROVE platter'[buf'[proc'[q].b].block] = latest'[buf'[proc'[q].b].block]
  <2>1. q # p /\ proc[q].pc = "unpin" /\ proc[q].pc \in Holding
    BY <1>5, <1>7, <1>12 DEF Holding
  <2>2. platter[buf[proc[q].b].block] = latest[buf[proc[q].b].block]
    BY <2>1 DEF Data, BlockOf, Buf
  <2> QED
    BY <1>6, <2>1, <2>2
<1>13. ASSUME NEW q \in Hands, proc'[q].pc = "release"
       PROVE  buf'[proc'[q].b].block \in pinned' \/ platter'[buf'[proc'[q].b].block] = latest'[buf'[proc'[q].b].block]
  <2>1. CASE q = p
    <3>1. latest' = latest
      BY <1>4, <1>7, <1>13, <2>1
    <3> QED
      BY <1>5, <2>1, <3>1
  <2>2. CASE q # p
    <3>1. proc[q].pc = "release" /\ proc[q].pc \in Holding
      BY <1>5, <1>13, <2>2 DEF Holding
    <3>2. buf[proc[q].b].block \in pinned \/ platter[buf[proc[q].b].block] = latest[buf[proc[q].b].block]
      BY <3>1 DEF Data, BlockOf, Buf
    <3> QED
      BY <1>6, <2>2, <3>1, <3>2
  <2> QED
    BY <2>1, <2>2
<1> QED
  BY <1>8, <1>9, <1>10, <1>11, <1>12, <1>13 DEF Data, BlockOf, Buf

\* What a process that waited finds when the request is done.
LEMMA Done ==
  ASSUME DiskAssumption, Types, Calls, OneCopy, Requests, Data, NEW p \in Inflight, ~Buf(p).disk
  PROVE  /\ BlockOf(p) \in Blocks /\ Buf(p).data = platter[BlockOf(p)]
         /\ platter[BlockOf(p)] = latest[BlockOf(p)]
<1>1. p \in Hands /\ proc[p].pc # "idle"
  BY DEF Inflight
<1>2. proc[p].b \in Bufs /\ BlockOf(p) \in Blocks
  BY <1>1, Mine DEF Calls
<1>3. proc[p].id \notin avail
  BY DEF Requests
<1>4. Buf(p).data = platter[BlockOf(p)]
  BY <1>3 DEF Data
<1>5. CASE Buf(p).valid
  <2>1. Buf(p).data = latest[BlockOf(p)]
    BY <1>2, <1>5 DEF Data, Buf, BlockOf
  <2> QED
    BY <1>2, <1>4, <2>1
<1>6. CASE ~Buf(p).valid
  <2> SUFFICES ASSUME platter[BlockOf(p)] # latest[BlockOf(p)] PROVE FALSE
    BY <1>2, <1>4
  <2>1. PICK c \in Bufs : buf[c].block = BlockOf(p) /\ buf[c].valid
    BY <1>2 DEF Data
  <2>2. c = proc[p].b
    BY <1>2, <2>1, Apart DEF BlockOf, Buf
  <2> QED
    BY <1>6, <2>1, <2>2 DEF Buf
<1> QED
  BY <1>5, <1>6

LEMMA OthersElsewhere ==
  ASSUME Types, Calls, NEW p \in Hands, buf[proc[p].b].holder \in {p, None}, None \notin Hands
  PROVE  \A q \in Hands : q # p /\ proc[q].pc \in Holding => proc[q].b # proc[p].b
<1> SUFFICES ASSUME NEW q \in Hands, q # p, proc[q].pc \in Holding, proc[q].b = proc[p].b PROVE FALSE
  OBVIOUS
<1>1. proc[q].b \in Bufs
  BY Mine
<1>2. buf[proc[q].b].holder = q
  BY <1>1 DEF Calls
<1> QED
  BY <1>2

LEMMA DataAcquire ==
  ASSUME DiskAssumption, Types, Calls, OneCopy, Data, NEW p \in Hands, Acquire(p)
  PROVE  Data'
<1>1. PICK b \in Bufs : b = proc[p].b
  BY Mine
<1>2. /\ Same(b, {"holder", "data"}) /\ buf[b].holder = None /\ buf'[b].holder = p /\ Uses(p, b)
      /\ Goes(p, IF buf[b].valid THEN AfterRead(proc[p].op) ELSE "start")
  BY <1>1, AcquireEffect
<1>3. UNCHANGED <<platter, pinned, avail>> /\ proc[p].pc = "lock"
  BY DEF Acquire, At, dvars
<1>4. buf[b].block \in Blocks /\ None \notin Hands
  BY <1>1, <1>3, NoneApart DEF Calls, BlockOf, Buf
<1>5. buf'[b].valid = buf[b].valid /\ buf'[b].block = buf[b].block /\ \A c \in Bufs : c # b => buf'[c] = buf[c]
  BY <1>2 DEF Same
<1>6. buf'[b].valid => buf[b].data = latest[buf[b].block]
  BY <1>5 DEF Data
<1>7. platter[buf[b].block] # latest[buf[b].block] => buf[b].block \in pinned /\ buf'[b].valid
  <2> SUFFICES ASSUME platter[buf[b].block] # latest[buf[b].block] PROVE buf[b].block \in pinned /\ buf'[b].valid
    OBVIOUS
  <2>1. PICK c \in Bufs : buf[c].block = buf[b].block /\ buf[c].valid /\ (buf[c].holder # None \/ buf[b].block \in pinned)
    BY <1>4 DEF Data
  <2>2. c = b
    BY <1>4, <2>1, Apart
  <2> QED
    BY <1>2, <1>5, <2>1, <2>2
<1>8. \A q \in Hands : q # p /\ proc[q].pc \in Holding => proc[q].b # b
  BY <1>1, <1>2, <1>4, OthersElsewhere
<1>9. Goes(p, IF buf'[b].valid THEN AfterRead(proc[p].op) ELSE "start")
  BY <1>2, <1>5
<1> QED
  BY <1>1, <1>2, <1>3, <1>4, <1>5, <1>6, <1>7, <1>8, <1>9, DataUse

LEMMA DataFinish ==
  ASSUME DiskAssumption, Types, Calls, OneCopy, Chains, Requests, Data, NEW p \in Hands, Finish(p)
  PROVE  Data'
<1>1. PICK b \in Bufs : b = proc[p].b
  BY Mine
<1>2. UNCHANGED <<platter, pinned, avail>> /\ p \in Inflight /\ ~Buf(p).disk /\ proc[p].pc = "wait" /\ proc[p].pc \in Holding
  BY DEF Finish, At, Inflight, Holding
<1>3. /\ buf[b].block \in Blocks /\ buf[b].data = platter[buf[b].block]
      /\ platter[buf[b].block] = latest[buf[b].block] /\ None \notin Hands /\ buf[b].holder = p
  BY <1>1, <1>2, Done, NoneApart DEF Buf, BlockOf, Calls
<1>4. \A q \in Hands : q # p /\ proc[q].pc \in Holding => proc[q].b # b
  BY <1>1, <1>3, OthersElsewhere
<1>5. CASE ~buf[b].valid
  <2>1. Same(b, {"valid", "data"}) /\ buf'[b].valid /\ Uses(p, b) /\ Goes(p, AfterRead(proc[p].op))
    BY <1>1, <1>5, FinishEffect
  <2>2. buf'[b].block = buf[b].block /\ buf'[b].holder = p /\ \A c \in Bufs : c # b => buf'[c] = buf[c]
    BY <1>3, <2>1 DEF Same
  <2>3. buf[b].data = latest[buf[b].block]
    BY <1>3
  <2>4. Goes(p, IF buf'[b].valid THEN AfterRead(proc[p].op) ELSE "start")
    BY <2>1
  <2> QED
    BY <1>1, <1>2, <1>3, <1>4, <2>1, <2>2, <2>3, <2>4, DataUse
<1>6. CASE buf[b].valid
  <2>1. buf' = buf /\ latest' = latest /\ \E pc \in {"unpin", "release"} : Goes(p, pc)
    BY <1>1, <1>6, FinishEffect
  <2>2. \A q \in Hands : q # p => proc'[q] = proc[q]
    BY <2>1 DEF Goes
  <2>3. proc'[p].pc \in {"unpin", "release"} /\ proc'[p].b = b
    BY <1>1, <2>1 DEF Goes
  <2>4. ASSUME NEW q \in Inflight', proc'[q].id \notin avail' PROVE buf'[proc'[q].b].data = platter'[buf'[proc'[q].b].block]
    <3>1. q \in Inflight /\ q # p
      BY <2>2, <2>3 DEF Inflight
    <3> QED
      BY <1>2, <2>1, <2>2, <2>4, <3>1 DEF Data, BlockOf, Buf, Inflight
  <2>5. ASSUME NEW q \in Hands, proc'[q].pc \in {"pin", "unpin", "release"} PROVE buf'[proc'[q].b].valid
    BY <1>6, <2>1, <2>2, <2>3, <2>5 DEF Data, Buf
  <2>6. ASSUME NEW q \in Hands, proc'[q].pc = "unpin" PROVE platter'[buf'[proc'[q].b].block] = latest'[buf'[proc'[q].b].block]
    BY <1>2, <1>3, <2>1, <2>2, <2>3, <2>6 DEF Data, BlockOf, Buf
  <2>7. ASSUME NEW q \in Hands, proc'[q].pc = "release"
        PROVE  buf'[proc'[q].b].block \in pinned' \/ platter'[buf'[proc'[q].b].block] = latest'[buf'[proc'[q].b].block]
    BY <1>2, <1>3, <2>1, <2>2, <2>3, <2>7 DEF Data, BlockOf, Buf
  <2>8. \A c \in Bufs : buf'[c].valid => buf'[c].block \in Blocks /\ buf'[c].data = latest'[buf'[c].block]
    BY <2>1 DEF Data
  <2>9. \A k \in Blocks : platter'[k] # latest'[k] =>
          \E c \in Bufs : buf'[c].block = k /\ buf'[c].valid /\ (buf'[c].holder # None \/ k \in pinned')
    BY <1>2, <2>1 DEF Data
  <2> QED
    BY <2>4, <2>5, <2>6, <2>7, <2>8, <2>9 DEF Data, BlockOf, Buf
<1> QED
  BY <1>5, <1>6

\* bpin() of a block whose changes are in the buffer; bunpin() and brelse() of one
\* whose changes are on the disk.
LEMMA DataPut ==
  ASSUME DiskAssumption, Types, Calls, OneCopy, Pins, Data, NEW p \in Hands, Pin(p) \/ Unpin(p) \/ Release(p)
  PROVE  Data'
<1>1. PICK b \in Bufs : b = proc[p].b
  BY Mine
<1>2. UNCHANGED <<platter, latest, avail>> /\ proc[p].pc \in {"pin", "unpin", "release"}
  BY DEF Pin, Unpin, Release, At, dvars
<1>3. buf[b].block \in Blocks /\ None \notin Hands /\ buf[b].holder = p
  BY <1>1, <1>2, NoneApart DEF Calls, BlockOf, Buf, Holding
<1>4. /\ \A c \in Bufs : buf'[c].block = buf[c].block /\ buf'[c].valid = buf[c].valid /\ buf'[c].data = buf[c].data
      /\ \A c \in Bufs : c # b => buf'[c].holder = buf[c].holder
      /\ \A j \in Blocks : j # buf[b].block => (j \in pinned' <=> j \in pinned)
      /\ \E pc \in {"release", "drop"} : Goes(p, pc)
      /\ proc'[p].pc = "release" => buf[b].block \in pinned' \/ proc[p].pc = "unpin"
      /\ buf'[b].holder = p \/ (proc[p].pc = "release" /\ pinned' = pinned)
  <2>1. CASE Pin(p)
    <3>1. Same(b, {"refcnt"}) /\ pinned' = pinned \cup {buf[b].block} /\ Goes(p, "release")
      BY <1>1, <2>1, PinEffect
    <3> QED
      BY <1>3, <3>1 DEF Same
  <2>2. CASE Unpin(p)
    <3>1. Same(b, {"refcnt"}) /\ pinned' = pinned \ {buf[b].block} /\ Goes(p, "release") /\ proc[p].pc = "unpin"
      BY <1>1, <2>2, UnpinEffect DEF Unpin, At
    <3> QED
      BY <1>3, <3>1 DEF Same
  <2>3. CASE Release(p)
    <3>1. Same(b, {"holder"}) /\ pinned' = pinned /\ Goes(p, "drop") /\ proc[p].pc = "release" /\ proc'[p].pc = "drop"
      BY <1>1, <2>3, ReleaseEffect DEF Release, At, Goes
    <3> QED
      BY <3>1 DEF Same
  <2> QED
    BY <2>1, <2>2, <2>3
<1>5. /\ \A q \in Hands : q # p => proc'[q] = proc[q]
      /\ proc'[p].pc \in {"release", "drop"} /\ proc'[p].b = b
  BY <1>1, <1>4 DEF Goes
<1>6. ASSUME NEW q \in Hands, q # p, proc[q].pc \in Holding
      PROVE  proc[q].b \in Bufs /\ (buf[proc[q].b].block \in pinned' <=> buf[proc[q].b].block \in pinned)
  <2>1. proc[q].b # b /\ proc[q].b \in Bufs /\ proc[q].pc # "idle"
    BY <1>1, <1>3, <1>6, OthersElsewhere, Mine DEF Holding
  <2>2. buf[proc[q].b].block # buf[b].block /\ buf[proc[q].b].block \in Blocks
    BY <1>3, <2>1, Apart DEF Calls, BlockOf, Buf
  <2> QED
    BY <1>4, <2>1, <2>2
<1>7. \A c \in Bufs : buf'[c].valid => buf'[c].block \in Blocks /\ buf'[c].data = latest'[buf'[c].block]
  BY <1>2, <1>4 DEF Data
<1>8. ASSUME NEW j \in Blocks, platter'[j] # latest'[j]
      PROVE  \E c \in Bufs : buf'[c].block = j /\ buf'[c].valid /\ (buf'[c].holder # None \/ j \in pinned')
  <2>1. PICK c \in Bufs : buf[c].block = j /\ buf[c].valid /\ (buf[c].holder # None \/ j \in pinned)
    BY <1>2, <1>8 DEF Data
  <2>2. CASE c = b
    <3>1. buf'[b].holder = p \/ j \in pinned'
      <4>1. CASE proc[p].pc = "release" /\ pinned' = pinned
        <5>1. buf[b].block \in pinned \/ platter[buf[b].block] = latest[buf[b].block]
          BY <1>1, <4>1 DEF Data, BlockOf, Buf
        <5> QED
          BY <1>2, <1>8, <2>1, <2>2, <4>1, <5>1
      <4> QED
        BY <1>4, <4>1
    <3> QED
      BY <1>3, <1>4, <2>1, <2>2, <3>1
  <2>3. CASE c # b
    <3>1. j # buf[b].block
      BY <1>3, <2>1, <2>3, Apart
    <3> QED
      BY <1>4, <2>1, <2>3, <3>1
  <2> QED
    BY <2>2, <2>3
<1>9. ASSUME NEW q \in Inflight', proc'[q].id \notin avail' PROVE buf'[proc'[q].b].data = platter'[buf'[proc'[q].b].block]
  <2>1. q \in Hands /\ q # p /\ q \in Inflight /\ proc'[q] = proc[q] /\ proc[q].id \notin avail /\ proc[q].b \in Bufs
    BY <1>2, <1>5, <1>9, Mine DEF Inflight
  <2>2. buf[proc[q].b].data = platter[buf[proc[q].b].block]
    BY <2>1 DEF Data, BlockOf, Buf
  <2> QED
    BY <1>2, <1>4, <2>1, <2>2
<1>10. ASSUME NEW q \in Hands, proc'[q].pc \in {"pin", "unpin", "release"} PROVE buf'[proc'[q].b].valid
  <2>1. proc'[q].b = proc[q].b /\ proc[q].pc \in {"pin", "unpin", "release"} /\ proc[q].b \in Bufs
    BY <1>1, <1>2, <1>5, <1>10, Mine
  <2> QED
    BY <1>4, <2>1 DEF Data, Buf
<1>11. ASSUME NEW q \in Hands, proc'[q].pc = "unpin" PROVE platter'[buf'[proc'[q].b].block] = latest'[buf'[proc'[q].b].block]
  <2>1. proc'[q] = proc[q] /\ proc[q].b \in Bufs
    BY <1>5, <1>11, Mine
  <2>2. platter[buf[proc[q].b].block] = latest[buf[proc[q].b].block]
    BY <1>11, <2>1 DEF Data, BlockOf, Buf
  <2> QED
    BY <1>2, <1>4, <2>1, <2>2
<1>12. ASSUME NEW q \in Hands, proc'[q].pc = "release"
       PROVE  buf'[proc'[q].b].block \in pinned' \/ platter'[buf'[proc'[q].b].block] = latest'[buf'[proc'[q].b].block]
  <2>1. CASE q = p
    <3>1. proc[p].pc = "unpin" => platter[buf[b].block] = latest[buf[b].block]
      BY <1>1 DEF Data, BlockOf, Buf
    <3> QED
      BY <1>2, <1>4, <1>5, <1>12, <2>1, <3>1
  <2>2. CASE q # p
    <3>1. proc'[q] = proc[q] /\ proc[q].pc = "release" /\ proc[q].pc \in Holding
      BY <1>5, <1>12, <2>2 DEF Holding
    <3>2. buf[proc[q].b].block \in pinned \/ platter[buf[proc[q].b].block] = latest[buf[proc[q].b].block]
      BY <3>1 DEF Data, BlockOf, Buf
    <3> QED
      BY <1>2, <1>4, <1>6, <2>2, <3>1, <3>2
  <2> QED
    BY <2>1, <2>2
<1> QED
  BY <1>7, <1>8, <1>9, <1>10, <1>11, <1>12 DEF Data, BlockOf, Buf

LEMMA DataStep ==
  ASSUME DiskAssumption, Types, Calls, OneCopy, Pins, Chains, Requests, Data, NEW p \in Hands, Step(p)
  PROVE  Data'
<1>1. CASE Acquire(p) \/ Finish(p)
  BY <1>1, DataAcquire, DataFinish
<1>2. CASE Pin(p) \/ Unpin(p) \/ Release(p)
  BY <1>2, DataPut
<1>3. CASE AcquireSleep(p) \/ StartSleep(p) \/ WaitSleep(p)
  BY <1>3, DataQuiet DEF AcquireSleep, StartSleep, WaitSleep, dvars, bvars, Inflight
<1>4. CASE Start(p)
  <2>1. Same(proc[p].b, {"disk"}) /\ Goes(p, "wait") /\ avail \subseteq avail' /\ proc'[p].id \in avail'
    <3>1. \E i \in free : avail' = avail \cup {i} /\ proc'[p].id = i
      BY <1>4, StartEffect
    <3> QED
      BY <1>4, <3>1, StartEffect
  <2>2. UNCHANGED <<platter, latest, pinned>>
    BY <1>4 DEF Start
  <2>3. \A b \in Bufs : /\ buf'[b].block = buf[b].block /\ buf'[b].valid = buf[b].valid
                        /\ buf'[b].data = buf[b].data /\ buf'[b].holder = buf[b].holder
    BY <2>1 DEF Same
  <2>4. \A q \in Hands : q # p => proc'[q] = proc[q]
    BY <2>1 DEF Goes
  <2>5. \A q \in Inflight' : \/ q \in Inflight /\ proc'[q].b = proc[q].b /\ proc'[q].id = proc[q].id
                           \/ proc'[q].id \in avail'
    BY <2>1, <2>4 DEF Inflight
  <2>6. \A q \in Hands : proc'[q].pc \in {"pin", "unpin", "release"} => proc'[q].pc = proc[q].pc /\ proc'[q].b = proc[q].b
    BY <2>1, <2>4 DEF Goes
  <2> QED
    BY <2>1, <2>2, <2>3, <2>5, <2>6, DataQuiet
<1>5. CASE Drop(p)
  <2>1. Same(proc[p].b, {"refcnt"}) /\ (\A q \in Hands : q # p => proc'[q] = proc[q]) /\ proc'[p].pc = "idle"
    BY <1>5, DropEffect DEF Idle
  <2>2. UNCHANGED <<platter, latest, pinned, avail>>
    BY <1>5 DEF Drop, dvars
  <2>3. \A b \in Bufs : /\ buf'[b].block = buf[b].block /\ buf'[b].valid = buf[b].valid
                        /\ buf'[b].data = buf[b].data /\ buf'[b].holder = buf[b].holder
    BY <2>1 DEF Same
  <2>4. \A q \in Inflight' : q \in Inflight /\ proc'[q].b = proc[q].b /\ proc'[q].id = proc[q].id
    BY <2>1 DEF Inflight
  <2>5. \A q \in Hands : proc'[q].pc \in {"pin", "unpin", "release"} => proc'[q].pc = proc[q].pc /\ proc'[q].b = proc[q].b
    BY <2>1
  <2> QED
    BY <2>2, <2>3, <2>4, <2>5, DataQuiet
<1> QED
  BY <1>1, <1>2, <1>3, <1>4, <1>5 DEF Step

LEMMA DataGet ==
  ASSUME DiskAssumption, Types, Calls, OneCopy, Data,
         NEW p \in Hands, NEW op \in Ops \ {None}, NEW k \in Blocks, Get(p, op, k)
  PROVE  Data'
<1>1. PICK b \in Bufs :
        /\ proc'[p].pc = "lock" /\ proc[p].pc = "idle"
        /\ \A q \in Hands : q # p => proc'[q] = proc[q]
        /\ buf'[b].block = k /\ buf'[b].holder = buf[b].holder /\ buf'[b].data = buf[b].data
        /\ \A c \in Bufs : c # b => buf'[c] = buf[c]
        /\ \/ buf[b].block = k /\ buf'[b].valid = buf[b].valid
           \/ Users(b) = {} /\ buf[b].block \notin pinned /\ ~buf'[b].valid
  BY GetBlocks
<1>2. UNCHANGED <<platter, latest, pinned, avail>>
  BY DEF Get, Asks, dvars
<1>3. CASE buf[b].block = k /\ buf'[b].valid = buf[b].valid
  <2>1. \A c \in Bufs : /\ buf'[c].block = buf[c].block /\ buf'[c].valid = buf[c].valid
                        /\ buf'[c].data = buf[c].data /\ buf'[c].holder = buf[c].holder
    BY <1>1, <1>3
  <2>2. \A q \in Inflight' : q \in Inflight /\ proc'[q].b = proc[q].b /\ proc'[q].id = proc[q].id
    BY <1>1 DEF Inflight
  <2>3. \A q \in Hands : proc'[q].pc \in {"pin", "unpin", "release"} => proc'[q].pc = proc[q].pc /\ proc'[q].b = proc[q].b
    BY <1>1
  <2> QED
    BY <1>2, <2>1, <2>2, <2>3, DataQuiet
<1>4. CASE Users(b) = {} /\ buf[b].block \notin pinned /\ ~buf'[b].valid
  <2>1. buf[b].holder = None
    <3>1. buf[b].holder \in Hands \cup {None}
      BY BufferFields DEF Types
    <3>2. \A q \in Hands : buf[b].holder = q => q \in Users(b)
      BY DEF Calls, Users, Holding
    <3> QED
      BY <1>4, <3>1, <3>2
  <2>2. ASSUME NEW q \in Hands, q # p, proc[q].pc # "idle" PROVE proc'[q] = proc[q] /\ buf'[proc[q].b] = buf[proc[q].b]
    <3>1. proc[q].b \in Bufs /\ q \in Users(proc[q].b)
      BY <2>2, Mine DEF Users
    <3> QED
      BY <1>1, <1>4, <2>2, <3>1
  <2>3. \A c \in Bufs : buf'[c].valid => buf'[c].block \in Blocks /\ buf'[c].data = latest'[buf'[c].block]
    BY <1>1, <1>2, <1>4 DEF Data
  <2>4. ASSUME NEW j \in Blocks, platter'[j] # latest'[j]
        PROVE  \E c \in Bufs : buf'[c].block = j /\ buf'[c].valid /\ (buf'[c].holder # None \/ j \in pinned')
    <3>1. PICK c \in Bufs : buf[c].block = j /\ buf[c].valid /\ (buf[c].holder # None \/ j \in pinned)
      BY <1>2, <2>4 DEF Data
    <3>2. c # b
      BY <1>4, <2>1, <3>1
    <3> QED
      BY <1>1, <1>2, <3>1, <3>2
  <2>5. ASSUME NEW q \in Inflight', proc'[q].id \notin avail' PROVE buf'[proc'[q].b].data = platter'[buf'[proc'[q].b].block]
    <3>1. q \in Hands /\ q # p /\ proc[q].pc = "wait" /\ q \in Inflight
      BY <1>1 DEF Inflight
    <3> QED
      BY <1>2, <2>2, <2>5, <3>1 DEF Data, BlockOf, Buf
  <2>6. ASSUME NEW q \in Hands, proc'[q].pc \in {"pin", "unpin", "release"}
        PROVE  q # p /\ proc[q].pc # "idle" /\ proc[q].pc \in {"pin", "unpin", "release"} /\ proc'[q].pc = proc[q].pc
    BY <1>1, <2>6
  <2>7. \A q \in Hands : proc'[q].pc \in {"pin", "unpin", "release"} => buf'[proc'[q].b].valid
    BY <2>2, <2>6 DEF Data, Buf
  <2>8. \A q \in Hands : proc'[q].pc = "unpin" => platter'[buf'[proc'[q].b].block] = latest'[buf'[proc'[q].b].block]
    BY <1>2, <2>2, <2>6 DEF Data, BlockOf, Buf
  <2>9. \A q \in Hands : proc'[q].pc = "release" =>
          buf'[proc'[q].b].block \in pinned' \/ platter'[buf'[proc'[q].b].block] = latest'[buf'[proc'[q].b].block]
    BY <1>2, <2>2, <2>6 DEF Data, BlockOf, Buf
  <2> QED
    BY <2>3, <2>4, <2>5, <2>7, <2>8, <2>9 DEF Data, BlockOf, Buf
<1> QED
  BY <1>1, <1>3, <1>4

\* The device writes a block that is locked with its last version, or reads into a
\* buffer that nobody looks at yet.
LEMMA DataDevice ==
  ASSUME DiskAssumption, Types, Calls, OneCopy, Chains, Requests, Data, NEW id \in Descs, Device(id)
  PROVE  Data'
<1>1. id \in avail /\ UNCHANGED <<proc, latest, pinned>>
  BY DEF Device
<1>2. PICK p \in Inflight : proc[p].id = id /\ info[id].b = proc[p].b /\ info[id].write = Buf(p).valid
  BY <1>1, UnderWay
<1>3. PICK b \in Bufs : b = proc[p].b
  BY Mine DEF Inflight
<1>4. info[id].b = b /\ buf[b].block \in Blocks /\ info[id].write = buf[b].valid
  BY <1>1, <1>2, <1>3, UnderWay DEF Buf
<1>5. /\ avail' = avail \ {id}
      /\ IF buf[b].valid
         THEN buf' = buf /\ platter' = [platter EXCEPT ![buf[b].block] = buf[b].data]
         ELSE Same(b, {"data"}) /\ buf'[b].data = platter[buf[b].block] /\ platter' = platter
  BY <1>4, DeviceEffect
<1>6. p \in Hands /\ proc[p].pc \in Holding /\ buf[b].holder = p /\ None \notin Hands
  BY <1>3, NoneApart DEF Inflight, Holding, Calls
<1>7. ASSUME NEW q \in Hands, q # p, proc[q].pc \in Holding
      PROVE  proc[q].b \in Bufs /\ proc[q].b # b /\ buf[proc[q].b].block # buf[b].block
  <2>1. proc[q].b \in Bufs /\ proc[q].b # b
    BY <1>3, <1>6, <1>7, Own, Mine
  <2> QED
    BY <1>4, <2>1, Apart
<1>8. platter \in [Blocks -> Int]
  BY DEF Types
<1>9. /\ \A c \in Bufs : buf'[c].block = buf[c].block /\ buf'[c].valid = buf[c].valid /\ buf'[c].holder = buf[c].holder
      /\ \A c \in Bufs : c # b \/ buf[c].valid => buf'[c] = buf[c]
      /\ buf'[b].data = platter'[buf[b].block]
      /\ \A j \in Blocks : j # buf[b].block => platter'[j] = platter[j]
      /\ platter'[buf[b].block] \in {platter[buf[b].block], latest[buf[b].block]}
  <2>1. CASE buf[b].valid
    <3>1. buf[b].data = latest[buf[b].block]
      BY <2>1 DEF Data
    <3> QED
      BY <1>4, <1>5, <1>8, <2>1, <3>1
  <2>2. CASE ~buf[b].valid
    BY <1>5, <2>2 DEF Same
  <2> QED
    BY <2>1, <2>2
<1>10. \A c \in Bufs : buf'[c].valid => buf'[c].block \in Blocks /\ buf'[c].data = latest'[buf'[c].block]
  BY <1>1, <1>9 DEF Data
<1>11. ASSUME NEW j \in Blocks, platter'[j] # latest'[j]
       PROVE  \E c \in Bufs : buf'[c].block = j /\ buf'[c].valid /\ (buf'[c].holder # None \/ j \in pinned')
  <2>1. platter[j] # latest[j]
    BY <1>1, <1>9, <1>11
  <2>2. PICK c \in Bufs : buf[c].block = j /\ buf[c].valid /\ (buf[c].holder # None \/ j \in pinned)
    BY <2>1 DEF Data
  <2> QED
    BY <1>1, <1>9, <2>2
<1>12. ASSUME NEW q \in Inflight', proc'[q].id \notin avail' PROVE buf'[proc'[q].b].data = platter'[buf'[proc'[q].b].block]
  <2>1. q \in Inflight /\ q \in Hands /\ proc[q].pc \in Holding /\ proc'[q] = proc[q]
    BY <1>1 DEF Inflight, Holding
  <2>2. CASE q = p
    BY <1>3, <1>9, <2>1, <2>2
  <2>3. CASE q # p
    <3>1. proc[q].id \notin avail
      BY <1>2, <1>5, <1>12, <2>1, <2>3, IdsApart
    <3>2. buf[proc[q].b].data = platter[buf[proc[q].b].block]
      BY <2>1, <3>1 DEF Data, BlockOf, Buf
    <3>3. buf[proc[q].b].block \in Blocks
      BY <2>1 DEF Calls, Holding, BlockOf, Buf
    <3> QED
      BY <1>7, <1>9, <2>1, <2>3, <3>2, <3>3
  <2> QED
    BY <2>2, <2>3
<1>13. \A q \in Hands : proc[q].b \in Bufs /\ (proc[q].pc # "idle" => buf[proc[q].b].block \in Blocks)
  BY Mine DEF Calls, BlockOf, Buf
<1>14. \A q \in Hands : proc'[q].pc \in {"pin", "unpin", "release"} => buf'[proc'[q].b].valid
  BY <1>1, <1>9, <1>13 DEF Data, Buf
<1>15. \A j \in Blocks : platter[j] = latest[j] => platter'[j] = latest'[j]
  BY <1>1, <1>9
<1>16. \A q \in Hands : proc'[q].pc = "unpin" => platter'[buf'[proc'[q].b].block] = latest'[buf'[proc'[q].b].block]
  BY <1>1, <1>9, <1>13, <1>15 DEF Data, BlockOf, Buf
<1>17. \A q \in Hands : proc'[q].pc = "release" =>
         buf'[proc'[q].b].block \in pinned' \/ platter'[buf'[proc'[q].b].block] = latest'[buf'[proc'[q].b].block]
  BY <1>1, <1>9, <1>13, <1>15 DEF Data, BlockOf, Buf
<1> QED
  BY <1>10, <1>11, <1>12, <1>14, <1>16, <1>17 DEF Data, BlockOf, Buf

LEMMA DataOther ==
  ASSUME DiskAssumption, Types, Calls, OneCopy, Chains, Requests, Data,
         (\E p \in Hands : Kill(p)) \/ (\E id \in Descs : Device(id)) \/ Handler
  PROVE  Data'
<1>1. CASE (\E p \in Hands : Kill(p)) \/ Ack \/ ScanEnd \/ Exit
  BY <1>1, DataQuiet DEF Kill, Ack, ScanEnd, Exit, bvars, dvars, Inflight
<1>2. CASE Scan
  <2>1. info[Head(used)].b \in Bufs
    BY <1>2, HeadUnderWay DEF Scan
  <2>2. Same(info[Head(used)].b, {"disk"}) /\ UNCHANGED <<proc, avail, platter, latest, pinned>>
    BY <1>2, <2>1, ScanEffect DEF Scan
  <2>3. \A b \in Bufs : /\ buf'[b].block = buf[b].block /\ buf'[b].valid = buf[b].valid
                        /\ buf'[b].data = buf[b].data /\ buf'[b].holder = buf[b].holder
    BY <2>2 DEF Same
  <2> QED
    BY <2>2, <2>3, DataQuiet DEF Inflight
<1> QED
  BY <1>1, <1>2, DataDevice DEF Handler

-----------------------------------------------------------------------------
(* Sleepers.                                                                 *)

\* A sleeper is woken, or what it waits for is still not there.
LEMMA SleepersKept ==
  ASSUME Types, Sleepers,
         \A q \in Hands : chan'[q] # <<>> =>
           /\ chan'[q] = chan[q] /\ proc'[q].pc = proc[q].pc /\ proc'[q].b = proc[q].b
           /\ chan[q] = <<"free">> => Cardinality(free') < 3
           /\ chan[q] = <<"lock", proc[q].b>> => buf'[proc[q].b].holder # None
           /\ chan[q] = <<"disk", proc[q].b>> => buf'[proc[q].b].disk
  PROVE  Sleepers'
<1>1. ASSUME NEW q \in Hands, chan'[q] # <<>>
      PROVE  \/ chan'[q] = <<"free">> /\ proc'[q].pc = "start" /\ Cardinality(free') < 3
             \/ chan'[q] = <<"lock", proc'[q].b>> /\ proc'[q].pc = "lock" /\ buf'[proc'[q].b].holder # None
             \/ chan'[q] = <<"disk", proc'[q].b>> /\ proc'[q].pc = "wait" /\ buf'[proc'[q].b].disk
  BY <1>1 DEF Sleepers
<1> QED
  BY <1>1 DEF Sleepers, Buf

\* Steps in which a process that is awake goes on, and nobody loses a lock, a
\* descriptor or a request.
LEMMA SleepersQuiet ==
  ASSUME Types, Sleepers, NEW p \in Hands, chan[p] = <<>>, UNCHANGED <<chan, free>>,
         \A q \in Hands : q # p => proc'[q] = proc[q],
         \A b \in Bufs : (buf[b].holder # None => buf'[b].holder # None) /\ (buf[b].disk => buf'[b].disk)
  PROVE  Sleepers'
<1>1. \A q \in Hands : proc[q].b \in Bufs
  BY Mine
<1>2. ASSUME NEW q \in Hands, chan'[q] # <<>>
      PROVE  /\ chan'[q] = chan[q] /\ proc'[q].pc = proc[q].pc /\ proc'[q].b = proc[q].b
             /\ chan[q] = <<"free">> => Cardinality(free') < 3
             /\ chan[q] = <<"lock", proc[q].b>> => buf'[proc[q].b].holder # None
             /\ chan[q] = <<"disk", proc[q].b>> => buf'[proc[q].b].disk
  <2>1. q # p /\ chan[q] # <<>>
    BY <1>2
  <2>2. \/ chan[q] = <<"free">> /\ proc[q].pc = "start" /\ Cardinality(free) < 3
        \/ chan[q] = <<"lock", proc[q].b>> /\ proc[q].pc = "lock" /\ buf[proc[q].b].holder # None
        \/ chan[q] = <<"disk", proc[q].b>> /\ proc[q].pc = "wait" /\ buf[proc[q].b].disk
    BY <2>1 DEF Sleepers, Buf
  <2> QED
    BY <1>1, <2>1, <2>2
<1> QED
  BY <1>2, SleepersKept

\* p goes to sleep.
LEMMA SleepersMore ==
  ASSUME Types, Sleepers, NEW p \in Hands, NEW c, UNCHANGED <<buf, free>>, UNCHANGED proc,
         chan'[p] = c, \A q \in Hands : q # p => chan'[q] \in {chan[q], <<>>},
         \/ c = <<"free">> /\ proc[p].pc = "start" /\ Cardinality(free) < 3
         \/ c = <<"lock", proc[p].b>> /\ proc[p].pc = "lock" /\ Buf(p).holder # None
         \/ c = <<"disk", proc[p].b>> /\ proc[p].pc = "wait" /\ Buf(p).disk
  PROVE  Sleepers'
<1>1. ASSUME NEW q \in Hands, chan'[q] # <<>>
      PROVE  \/ chan'[q] = <<"free">> /\ proc[q].pc = "start" /\ Cardinality(free) < 3
             \/ chan'[q] = <<"lock", proc[q].b>> /\ proc[q].pc = "lock" /\ Buf(q).holder # None
             \/ chan'[q] = <<"disk", proc[q].b>> /\ proc[q].pc = "wait" /\ Buf(q).disk
  <2>1. CASE q = p
    BY <2>1
  <2>2. CASE q # p
    <3>1. chan'[q] = chan[q] /\ chan[q] # <<>>
      BY <1>1, <2>2
    <3> QED
      BY <3>1 DEF Sleepers
  <2> QED
    BY <2>1, <2>2
<1> QED
  BY <1>1 DEF Sleepers, Buf

LEMMA Woken ==
  ASSUME Types, NEW c, NEW q \in Hands
  PROVE  Wakeup(c)[q] = IF chan[q] = c THEN <<>> ELSE chan[q]
BY DEF Wakeup

LEMMA SleepersStart ==
  ASSUME DiskAssumption, Types, Sleepers, NEW p \in Hands, Start(p)
  PROVE  Sleepers'
<1>1. Same(proc[p].b, {"disk"}) /\ buf'[proc[p].b].disk = TRUE /\ Goes(p, "wait")
  BY StartEffect
<1>2. chan' = [chan EXCEPT ![p] = <<"disk", proc[p].b>>] /\ Cardinality(free) >= 3 /\ Cardinality(free) \in Nat
  BY FreeFinite DEF Start
<1>3. chan \in [Hands -> Chans] /\ \A q \in Hands : proc[q].b \in Bufs
  BY Mine DEF Types
<1>4. ASSUME NEW q \in Hands, chan'[q] # <<>>
      PROVE  \/ chan'[q] = <<"lock", proc'[q].b>> /\ proc'[q].pc = "lock" /\ buf'[proc'[q].b].holder # None
             \/ chan'[q] = <<"disk", proc'[q].b>> /\ proc'[q].pc = "wait" /\ buf'[proc'[q].b].disk
  <2>1. CASE q = p
    BY <1>1, <1>2, <1>3, <2>1 DEF Goes
  <2>2. CASE q # p
    <3>1. chan'[q] = chan[q] /\ proc'[q] = proc[q] /\ chan[q] # <<>>
      BY <1>1, <1>2, <1>3, <1>4, <2>2 DEF Goes
    <3>2. ~(Cardinality(free) < 3)
      BY <1>2
    <3>3. \/ chan[q] = <<"lock", proc[q].b>> /\ proc[q].pc = "lock" /\ buf[proc[q].b].holder # None
          \/ chan[q] = <<"disk", proc[q].b>> /\ proc[q].pc = "wait" /\ buf[proc[q].b].disk
      BY <3>1, <3>2 DEF Sleepers, Buf
    <3>4. buf'[proc[q].b].holder = buf[proc[q].b].holder /\ (buf[proc[q].b].disk => buf'[proc[q].b].disk)
      BY <1>1, <1>3 DEF Same
    <3> QED
      BY <3>1, <3>3, <3>4
  <2> QED
    BY <2>1, <2>2
<1> QED
  BY <1>4 DEF Sleepers, Buf

LEMMA SleepersFinish ==
  ASSUME DiskAssumption, Types, Sleepers, NEW p \in Hands, Finish(p)
  PROVE  Sleepers'
<1>1. chan' = Wakeup(<<"free">>) /\ chan[p] = <<>>
  BY DEF Finish, At
<1>2. (\A q \in Hands : q # p => proc'[q] = proc[q]) /\ \A c \in Bufs : buf'[c].holder = buf[c].holder /\ buf'[c].disk = buf[c].disk
  <2>1. CASE buf[proc[p].b].valid
    <3>1. buf' = buf /\ \E pc : Goes(p, pc)
      BY <2>1, FinishEffect
    <3> QED
      BY <3>1 DEF Goes
  <2>2. CASE ~buf[proc[p].b].valid
    <3>1. Same(proc[p].b, {"valid", "data"}) /\ \E pc : Goes(p, pc)
      BY <2>2, FinishEffect
    <3> QED
      BY <3>1 DEF Goes, Same
  <2> QED
    BY <2>1, <2>2
<1>3. \A q \in Hands : chan'[q] = IF chan[q] = <<"free">> THEN <<>> ELSE chan[q]
  BY <1>1, Woken
<1>4. ASSUME NEW q \in Hands, chan'[q] # <<>>
      PROVE  /\ chan'[q] = chan[q] /\ proc'[q].pc = proc[q].pc /\ proc'[q].b = proc[q].b
             /\ chan[q] = <<"free">> => Cardinality(free') < 3
             /\ chan[q] = <<"lock", proc[q].b>> => buf'[proc[q].b].holder # None
             /\ chan[q] = <<"disk", proc[q].b>> => buf'[proc[q].b].disk
  <2>1. chan'[q] = chan[q] /\ chan[q] # <<"free">> /\ q # p /\ chan[q] # <<>>
    BY <1>1, <1>3, <1>4
  <2>2. proc[q].b \in Bufs
    BY Mine
  <2>3. \/ chan[q] = <<"lock", proc[q].b>> /\ buf[proc[q].b].holder # None /\ chan[q] # <<"disk", proc[q].b>>
        \/ chan[q] = <<"disk", proc[q].b>> /\ buf[proc[q].b].disk /\ chan[q] # <<"lock", proc[q].b>>
    BY <2>1 DEF Sleepers, Buf
  <2> QED
    BY <1>2, <2>1, <2>2, <2>3
<1> QED
  BY <1>4, SleepersKept

LEMMA SleepersRelease ==
  ASSUME DiskAssumption, Types, Sleepers, NEW p \in Hands, Release(p)
  PROVE  Sleepers'
<1>1. chan' = Wakeup(<<"lock", proc[p].b>>) /\ chan[p] = <<>> /\ UNCHANGED free
  BY DEF Release, At, dvars
<1>2. Same(proc[p].b, {"holder"}) /\ \A q \in Hands : q # p => proc'[q] = proc[q]
  BY ReleaseEffect DEF Goes
<1>3. \A q \in Hands : chan'[q] = IF chan[q] = <<"lock", proc[p].b>> THEN <<>> ELSE chan[q]
  BY <1>1, Woken
<1>4. ASSUME NEW q \in Hands, chan'[q] # <<>>
      PROVE  /\ chan'[q] = chan[q] /\ proc'[q].pc = proc[q].pc /\ proc'[q].b = proc[q].b
             /\ chan[q] = <<"free">> => Cardinality(free') < 3
             /\ chan[q] = <<"lock", proc[q].b>> => buf'[proc[q].b].holder # None
             /\ chan[q] = <<"disk", proc[q].b>> => buf'[proc[q].b].disk
  <2>1. chan'[q] = chan[q] /\ chan[q] # <<"lock", proc[p].b>> /\ q # p /\ chan[q] # <<>>
    BY <1>1, <1>3, <1>4
  <2>2. proc[q].b \in Bufs
    BY Mine
  <2>3. \/ chan[q] = <<"free">> /\ Cardinality(free) < 3 /\ chan[q] # <<"disk", proc[q].b>> /\ chan[q] # <<"lock", proc[q].b>>
        \/ chan[q] = <<"lock", proc[q].b>> /\ buf[proc[q].b].holder # None /\ chan[q] # <<"disk", proc[q].b>> /\ chan[q] # <<"free">>
        \/ chan[q] = <<"disk", proc[q].b>> /\ buf[proc[q].b].disk /\ chan[q] # <<"lock", proc[q].b>> /\ chan[q] # <<"free">>
    BY <2>1 DEF Sleepers, Buf
  <2>4. /\ chan[q] = <<"lock", proc[q].b>> => proc[q].b # proc[p].b
        /\ proc[q].b # proc[p].b => buf'[proc[q].b].holder = buf[proc[q].b].holder
        /\ buf'[proc[q].b].disk = buf[proc[q].b].disk
    BY <1>2, <2>1, <2>2 DEF Same
  <2> QED
    BY <1>1, <1>2, <2>1, <2>2, <2>3, <2>4
<1> QED
  BY <1>4, SleepersKept

LEMMA SleepersStep ==
  ASSUME DiskAssumption, Types, Calls, Sleepers, NEW p \in Hands, Step(p)
  PROVE  Sleepers'
<1>1. proc[p].b \in Bufs /\ None \notin Hands /\ chan \in [Hands -> Chans]
  BY Mine, NoneApart DEF Types
<1>2. CASE Start(p) \/ Finish(p) \/ Release(p)
  BY <1>2, SleepersStart, SleepersFinish, SleepersRelease
<1>3. CASE AcquireSleep(p)
  BY <1>1, <1>3, SleepersMore DEF AcquireSleep, At, bvars, dvars
<1>4. CASE WaitSleep(p)
  BY <1>1, <1>4, SleepersMore DEF WaitSleep, At, bvars, dvars
<1>5. CASE StartSleep(p)
  <2>1. /\ chan' = [IF free = {} THEN chan ELSE Wakeup(<<"free">>) EXCEPT ![p] = <<"free">>]
        /\ UNCHANGED <<buf, free>> /\ UNCHANGED proc /\ proc[p].pc = "start" /\ Cardinality(free) < 3
    BY <1>5 DEF StartSleep, At, bvars, dvars
  <2>2. CASE free = {}
    BY <1>1, <2>1, <2>2, SleepersMore
  <2>3. CASE free # {}
    <3>1. chan' = [Wakeup(<<"free">>) EXCEPT ![p] = <<"free">>]
      BY <2>1, <2>3
    <3>2. Wakeup(<<"free">>) \in [Hands -> Chans] /\ \A q \in Hands : Wakeup(<<"free">>)[q] \in {chan[q], <<>>}
      BY TypesSplit, WakeupTypes, Woken
    <3>3. chan'[p] = <<"free">> /\ \A q \in Hands : q # p => chan'[q] \in {chan[q], <<>>}
      BY <3>1, <3>2
    <3> QED
      BY <2>1, <3>3, SleepersMore
  <2> QED
    BY <2>2, <2>3
<1>6. CASE Acquire(p) \/ Pin(p) \/ Unpin(p) \/ Drop(p)
  <2>1. chan[p] = <<>> /\ UNCHANGED <<chan, free>>
    BY <1>6 DEF Acquire, Pin, Unpin, Drop, At, dvars
  <2>2. /\ Same(proc[p].b, {"refcnt"}) \/ (Same(proc[p].b, {"holder", "data"}) /\ buf'[proc[p].b].holder = p)
        /\ \A q \in Hands : q # p => proc'[q] = proc[q]
    <3>1. CASE Acquire(p)
      BY <3>1, AcquireEffect DEF Goes
    <3>2. CASE Pin(p) \/ Unpin(p)
      BY <3>2, PinEffect, UnpinEffect DEF Goes
    <3>3. CASE Drop(p)
      BY <3>3, DropEffect
    <3> QED
      BY <1>6, <3>1, <3>2, <3>3
  <2>3. \A b \in Bufs : (buf[b].holder # None => buf'[b].holder # None) /\ (buf[b].disk => buf'[b].disk)
    BY <1>1, <2>2 DEF Same
  <2> QED
    BY <2>1, <2>2, <2>3, SleepersQuiet
<1> QED
  BY <1>2, <1>3, <1>4, <1>5, <1>6 DEF Step

LEMMA SleepersGet ==
  ASSUME DiskAssumption, Types, Calls, OneCopy, Sleepers,
         NEW p \in Hands, NEW op \in Ops \ {None}, NEW k \in Blocks, Get(p, op, k)
  PROVE  Sleepers'
<1>1. PICK b \in Bufs :
        /\ proc[p].pc = "idle"
        /\ \A q \in Hands : q # p => proc'[q] = proc[q]
        /\ buf'[b].holder = buf[b].holder /\ buf'[b].disk = buf[b].disk
        /\ \A c \in Bufs : c # b => buf'[c] = buf[c]
  BY GetBlocks
<1>2. UNCHANGED <<chan, free>>
  BY DEF Get, Asks, dvars
<1>3. chan[p] = <<>>
  BY <1>1 DEF Sleepers
<1>4. \A c \in Bufs : (buf[c].holder # None => buf'[c].holder # None) /\ (buf[c].disk => buf'[c].disk)
  BY <1>1
<1> QED
  BY <1>1, <1>2, <1>3, <1>4, SleepersQuiet

LEMMA SleepersScan ==
  ASSUME DiskAssumption, Types, Calls, Requests, Sleepers, Scan
  PROVE  Sleepers'
<1>1. PICK b \in Bufs : b = info[Head(used)].b
  BY HeadUnderWay DEF Scan
<1>2. Same(b, {"disk"}) /\ chan' = Wakeup(<<"disk", b>>) /\ UNCHANGED <<proc, free>>
  BY <1>1, ScanEffect DEF Scan
<1>3. \A q \in Hands : chan'[q] = IF chan[q] = <<"disk", b>> THEN <<>> ELSE chan[q]
  BY <1>2, Woken
<1>4. ASSUME NEW q \in Hands, chan'[q] # <<>>
      PROVE  /\ chan'[q] = chan[q] /\ proc'[q].pc = proc[q].pc /\ proc'[q].b = proc[q].b
             /\ chan[q] = <<"free">> => Cardinality(free') < 3
             /\ chan[q] = <<"lock", proc[q].b>> => buf'[proc[q].b].holder # None
             /\ chan[q] = <<"disk", proc[q].b>> => buf'[proc[q].b].disk
  <2>1. chan'[q] = chan[q] /\ chan[q] # <<"disk", b>> /\ chan[q] # <<>>
    BY <1>3, <1>4
  <2>2. proc[q].b \in Bufs
    BY Mine
  <2>3. \/ chan[q] = <<"free">> /\ Cardinality(free) < 3 /\ chan[q] # <<"disk", proc[q].b>> /\ chan[q] # <<"lock", proc[q].b>>
        \/ chan[q] = <<"lock", proc[q].b>> /\ buf[proc[q].b].holder # None /\ chan[q] # <<"disk", proc[q].b>> /\ chan[q] # <<"free">>
        \/ chan[q] = <<"disk", proc[q].b>> /\ buf[proc[q].b].disk /\ chan[q] # <<"lock", proc[q].b>> /\ chan[q] # <<"free">>
    BY <2>1 DEF Sleepers, Buf
  <2>4. /\ chan[q] = <<"disk", proc[q].b>> => proc[q].b # b
        /\ proc[q].b # b => buf'[proc[q].b].disk = buf[proc[q].b].disk
        /\ buf'[proc[q].b].holder = buf[proc[q].b].holder
    BY <1>2, <2>1, <2>2 DEF Same
  <2> QED
    BY <1>2, <2>1, <2>2, <2>3, <2>4
<1> QED
  BY <1>4, SleepersKept

LEMMA SleepersOther ==
  ASSUME DiskAssumption, Types, Calls, Requests, Sleepers,
         (\E p \in Hands : Kill(p)) \/ (\E id \in Descs : Device(id)) \/ Handler
  PROVE  Sleepers'
<1>1. CASE Ack \/ ScanEnd \/ Exit
  BY <1>1 DEF Ack, ScanEnd, Exit, bvars, Sleepers, Buf
<1>2. ASSUME NEW p \in Hands, Kill(p) PROVE Sleepers'
  <2>1. UNCHANGED <<buf, free, proc>> /\ chan' = [chan EXCEPT ![p] = <<>>] /\ chan \in [Hands -> Chans]
    BY <1>2 DEF Kill, bvars, dvars, Types
  <2>2. \A q \in Hands : chan'[q] # <<>> => chan'[q] = chan[q]
    BY <2>1
  <2> QED
    BY <2>1, <2>2 DEF Sleepers, Buf
<1>3. ASSUME NEW id \in Descs, Device(id) PROVE Sleepers'
  <2>1. id \in avail /\ UNCHANGED <<proc, chan, free>>
    BY <1>3 DEF Device
  <2>2. info[id].b \in Bufs /\ buf[info[id].b].block \in Blocks
    BY <2>1, UnderWay
  <2>3. buf' = buf \/ Same(info[id].b, {"data"})
    BY <1>3, <2>2, DeviceEffect
  <2>4. \A b \in Bufs : buf'[b].holder = buf[b].holder /\ buf'[b].disk = buf[b].disk
    BY <2>3 DEF Same
  <2>5. \A q \in Hands : proc[q].b \in Bufs
    BY Mine
  <2> QED
    BY <2>1, <2>4, <2>5 DEF Sleepers, Buf
<1> QED
  BY <1>1, <1>2, <1>3, SleepersScan DEF Handler

-----------------------------------------------------------------------------
(* The invariant.                                                            *)

LEMMA SeenNext ==
  ASSUME CompletionSeen, Next
  PROVE  CompletionSeen'
<1>1. ASSUME NEW p \in Hands, Step(p) PROVE UNCHANGED <<used, irq, intr>>
  BY <1>1 DEF Step, Acquire, AcquireSleep, Start, StartSleep, Finish, WaitSleep, Pin, Unpin, Release, Drop, dvars
<1>2. CASE UNCHANGED <<used, irq, intr>>
  BY <1>2 DEF CompletionSeen
<1>3. ASSUME NEW p \in Hands, Kill(p) \/ \E op \in {"read", "write", "log", "install"}, k \in Blocks : Get(p, op, k)
      PROVE  UNCHANGED <<used, irq, intr>>
  BY <1>3 DEF Kill, Get, Asks, dvars
<1>4. CASE \E id \in Descs : Device(id)
  BY <1>4 DEF Device, CompletionSeen
<1>5. CASE Handler
  BY <1>5 DEF Handler, Ack, Scan, ScanEnd, Exit, CompletionSeen
<1> QED
  BY <1>1, <1>2, <1>3, <1>4, <1>5 DEF Next

LEMMA InitTypes == ASSUME DiskAssumption, Init PROVE Types
<1>1. NBUF \in Nat \ {0} /\ NUM \in Nat \ {0}
  BY DEF DiskAssumption
<1>2. buf \in [Bufs -> Buffer]
  BY DEF Init, Buffer
<1>3. lru \in [1..NBUF -> Bufs]
  <2>1. \A k \in 1..NBUF : NBUF + 1 - k \in 1..NBUF
    BY <1>1
  <2> QED
    BY <2>1 DEF Init, Bufs
<1>4. ASSUME NEW b \in Bufs PROVE \E j \in 1..NBUF : lru[j] = b
  <2>1. NBUF + 1 - b \in 1..NBUF /\ NBUF + 1 - (NBUF + 1 - b) = b
    BY <1>1 DEF Bufs
  <2>2. lru[NBUF + 1 - b] = NBUF + 1 - (NBUF + 1 - b)
    BY <2>1 DEF Init, Bufs
  <2> QED
    BY <2>1, <2>2
<1>5. proc \in [Hands -> Process]
  <2>1. Idle \in Process
    BY <1>1 DEF Idle, Process, PCs, Ops, Bufs, Descs
  <2> QED
    BY <2>1 DEF Init
<1>6. chan \in [Hands -> Chans]
  BY Channels DEF Init
<1>7. /\ free \subseteq Descs /\ avail \subseteq Descs /\ used \in Seq(Descs)
      /\ irq \in BOOLEAN /\ intr \in {"none", "scan", "exit"}
  <2>1. free = Descs /\ avail = {} /\ used = <<>> /\ irq = FALSE /\ intr = "none"
    BY Zenon DEF Init
  <2>2. <<>> \in Seq(Descs)
    OBVIOUS
  <2>3. used \in Seq(Descs)
    BY <2>1, <2>2, Zenon
  <2>4. irq \in BOOLEAN
    BY <2>1, Zenon
  <2> QED
    BY <2>1, <2>3, <2>4
<1>9. desc \in [Descs -> SUBSET Descs]
  BY DEF Init
<1>10. info \in [Descs -> Request]
  <2>1. NoRequest \in Request
    BY DEF NoRequest, Request
  <2> QED
    BY <2>1 DEF Init
<1>8. platter \in [Blocks -> Int] /\ latest \in [Blocks -> Int] /\ pinned \subseteq Blocks
  BY DEF Init
<1> QED
  BY <1>2, <1>3, <1>4, <1>5, <1>6, <1>7, <1>8, <1>9, <1>10 DEF Types

LEMMA InitInv == ASSUME DiskAssumption, Init PROVE Inv
<1>1. Types
  BY InitTypes
<1>2. \A p \in Hands : proc[p] = Idle /\ proc[p].pc = "idle" /\ proc[p].op = None /\ chan[p] = <<>>
  BY DEF Init, Idle
<1>3. \A b \in Bufs : buf[b].block = None /\ buf[b].refcnt = 0 /\ buf[b].valid = FALSE /\ buf[b].holder = None
  BY DEF Init
<1>4. Calls
  <2>1. None \notin Hands /\ "idle" \notin Holding
    BY NoneApart DEF Holding
  <2> QED
    BY <1>2, <1>3, <2>1 DEF Calls
<1>5. OneCopy
  <2>1. \A b \in Bufs : Cardinality(Users(b)) = 0
    <3>1. \A b : Users(b) = {}
      BY <1>2 DEF Users
    <3> QED
      BY <3>1, FS_EmptySet
  <2>2. pinned = {}
    BY DEF Init
  <2> QED
    BY <1>3, <2>1, <2>2 DEF OneCopy
<1>6. Pins
  <2>1. pinned = {} /\ Doing("log") = {} /\ MaxPins \in Nat
    BY <1>2 DEF Init, Doing, None, DiskAssumption
  <2>2. pinned \cup {BlockOf(q) : q \in Doing("log")} = {}
    BY <2>1
  <2>3. Cardinality(pinned \cup {BlockOf(q) : q \in Doing("log")}) <= MaxPins
    BY <2>1, <2>2, FS_EmptySet
  <2>4. \A p, q \in Hands : proc[p].op # "install"
    BY <1>2 DEF None
  <2> QED
    BY <2>1, <2>3, <2>4 DEF Pins
<1>7. Inflight = {} /\ avail = {} /\ used = <<>> /\ UsedIds = {}
  BY <1>2 DEF Inflight, Init, UsedIds
<1>8. Chains
  <2>1. NUM - 1 \in Int /\ NUM \in Nat \ {0}
    BY DEF DiskAssumption
  <2>2. Cardinality(0..NUM - 1) = NUM
    <3>1. Cardinality(0..NUM - 1) = IF 0 > NUM - 1 THEN 0 ELSE NUM - 1 - 0 + 1
      BY <2>1, FS_Interval
    <3> QED
      BY <2>1, <3>1
  <2>3. Cardinality(Inflight) = 0 /\ Cardinality(free) = NUM
    BY <1>7, <2>2, FS_EmptySet DEF Init, Descs
  <2> QED
    BY <1>7, <2>1, <2>3 DEF Chains
<1>9. Requests
  BY <1>7 DEF Requests
<1>10. Data
  <2>1. \A k \in Blocks : platter[k] = latest[k]
    BY DEF Init
  <2> QED
    BY <1>2, <1>3, <1>7, <2>1 DEF Data
<1>11. Sleepers /\ CompletionSeen
  BY <1>2, <1>7 DEF Sleepers, CompletionSeen
<1> QED
  BY <1>1, <1>4, <1>5, <1>6, <1>8, <1>9, <1>10, <1>11 DEF Inv

LEMMA NextInv == ASSUME DiskAssumption, Inv, Next PROVE Inv'
<1>1. Types /\ Calls /\ OneCopy /\ Pins /\ Chains /\ Requests /\ Data /\ Sleepers /\ CompletionSeen
  BY DEF Inv
<1>2. Chains' /\ CompletionSeen'
  BY <1>1, ChainsNext, SeenNext
<1>3. ASSUME NEW p \in Hands, Step(p)
      PROVE  Types' /\ Calls' /\ OneCopy' /\ Pins' /\ Requests' /\ Data' /\ Sleepers'
  BY <1>1, <1>3, TypesStep, CallsStep, CopyStep, PinsStep, RequestsStep, DataStep, SleepersStep
<1>4. ASSUME NEW p \in Hands, NEW op \in {"read", "write", "log", "install"}, NEW k \in Blocks, Get(p, op, k)
      PROVE  Types' /\ Calls' /\ OneCopy' /\ Pins' /\ Requests' /\ Data' /\ Sleepers'
  <2>1. op \in Ops \ {None}
    BY DEF Ops, None
  <2>2. Types'
    BY <1>1, <1>4, TypesOther
  <2> QED
    BY <1>1, <1>4, <2>1, <2>2, CallsGet, CopyGet, PinsGet, RequestsGet, DataGet, SleepersGet
<1>5. CASE (\E p \in Hands : Kill(p)) \/ (\E id \in Descs : Device(id)) \/ Handler
  <2>1. Types'
    BY <1>1, <1>5, TypesOther
  <2> QED
    BY <1>1, <1>2, <1>5, <2>1, CallsOther, CopyOther, PinsOther, RequestsOther, DataOther, SleepersOther DEF Inv
<1> QED
  BY <1>2, <1>3, <1>4, <1>5 DEF Next, Inv

LEMMA StutterInv == ASSUME Inv, UNCHANGED vars PROVE Inv'
<1>1. /\ UNCHANGED <<buf, lru, proc, chan, free, desc, info, avail, used>>
      /\ UNCHANGED <<irq, intr, platter, latest, pinned>>
  BY DEF vars, bvars, dvars
<1> USE <1>1
<1>2. Types /\ Calls /\ OneCopy /\ Pins /\ Chains /\ Requests /\ Data /\ Sleepers /\ CompletionSeen
  BY DEF Inv
<1>3. Types'
  BY <1>2 DEF Types
<1>4. Calls' /\ OneCopy'
  BY <1>2 DEF Calls, OneCopy, Users, BlockOf, Buf
<1>5. Pins'
  BY <1>2 DEF Pins, Doing, BlockOf, Buf
<1>6. Chains'
  BY <1>2, ChainsQuiet DEF Inflight
<1>7. Requests'
  BY <1>2 DEF Requests, UsedIds, Inflight, Buf
<1>8. Data'
  BY <1>2 DEF Data, Inflight, BlockOf, Buf
<1>9. Sleepers' /\ CompletionSeen'
  BY <1>2 DEF Sleepers, CompletionSeen, Buf
<1> QED
  BY <1>3, <1>4, <1>5, <1>6, <1>7, <1>8, <1>9 DEF Inv

-----------------------------------------------------------------------------
(* What follows from it.                                                     *)

LEMMA InvTypeOK == ASSUME DiskAssumption, Inv PROVE TypeOK
<1>1. Types /\ OneCopy /\ Chains /\ Requests
  BY DEF Inv
<1>2. ASSUME NEW b \in Bufs PROVE buf[b].refcnt \in Nat /\ buf[b].block \in Blocks \cup {None}
  <2>1. buf[b].block \in Blocks \cup {None}
    BY <1>1, BufferFields DEF Types
  <2>2. /\ buf[b].refcnt = Cardinality(Users(b)) + (IF buf[b].block \in pinned THEN 1 ELSE 0)
        /\ Cardinality(Users(b)) \in Nat
    BY <1>1, UsersFinite DEF OneCopy
  <2> QED
    BY <2>1, <2>2
<1>3. ToSet(lru) = Bufs
  <2>1. lru \in [1..NBUF -> Bufs] /\ \A b \in Bufs : \E j \in 1..NBUF : lru[j] = b
    BY <1>1 DEF Types
  <2> QED
    BY <2>1 DEF ToSet
<1>4. free \subseteq Descs /\ avail \subseteq Descs \ free
  <2>1. free \subseteq Descs /\ avail \subseteq Descs
    BY <1>1 DEF Types
  <2>2. \A i \in avail : \E p \in Inflight : proc[p].id = i
    BY <1>1 DEF Requests
  <2>3. \A p \in Inflight : proc[p].id \notin free
    BY <1>1, IdsApart
  <2> QED
    BY <2>1, <2>2, <2>3
<1> QED
  BY <1>2, <1>3, <1>4 DEF TypeOK

LEMMA InvSeesLatest == ASSUME DiskAssumption, Inv PROVE SeesLatest
<1>1. Types /\ Data
  BY DEF Inv
<1>2. ASSUME NEW p \in Hands, proc[p].pc \in {"pin", "unpin", "release"} PROVE Buf(p).data = latest[BlockOf(p)]
  <2>1. proc[p].b \in Bufs /\ buf[proc[p].b].valid
    BY <1>1, <1>2, Mine DEF Data, Buf
  <2> QED
    BY <1>1, <2>1 DEF Data, BlockOf, Buf
<1>3. ASSUME NEW k \in Blocks, platter[k] # latest[k]
      PROVE  \E b \in Cached(k) : buf[b].data = latest[k] /\ (buf[b].holder # None \/ k \in pinned)
  <2>1. PICK b \in Bufs : buf[b].block = k /\ buf[b].valid /\ (buf[b].holder # None \/ k \in pinned)
    BY <1>1, <1>3 DEF Data
  <2>2. buf[b].data = latest[k]
    BY <1>1, <2>1 DEF Data
  <2> QED
    BY <2>1, <2>2 DEF Cached
<1> QED
  BY <1>2, <1>3 DEF SeesLatest

LEMMA InvDescriptors == ASSUME DiskAssumption, Inv PROVE DescriptorsExact
<1>1. Chains
  BY DEF Inv
<1>2. ASSUME NEW p \in Inflight PROVE Cardinality(Chain(proc[p].id)) = 3
  <2>1. PICK x, y \in Descs : IsChain(proc[p].id, x, y)
    BY <1>1 DEF Chains
  <2>2. Chain(proc[p].id) = {proc[p].id, x, y} /\ proc[p].id # x /\ proc[p].id # y /\ x # y
    BY <2>1, ChainIs DEF IsChain
  <2>3. Cardinality({proc[p].id, x, y}) = 3
    BY <2>2, TripleOnly
  <2> QED
    BY <2>2, <2>3
<1> QED
  BY <1>1, <1>2 DEF DescriptorsExact, Chains

LEMMA InvNoLostWakeup == ASSUME DiskAssumption, Inv PROVE NoLostWakeup
<1> SUFFICES ASSUME NEW p \in Hands, chan[p] # <<>>
             PROVE  CASE chan[p][1] = "free" -> Cardinality(free) < 3
                      [] chan[p][1] = "lock" -> Buf(p).holder # None
                      [] chan[p][1] = "disk" -> Buf(p).disk
  BY DEF NoLostWakeup
<1>1. \/ chan[p] = <<"free">> /\ Cardinality(free) < 3
      \/ chan[p] = <<"lock", proc[p].b>> /\ Buf(p).holder # None
      \/ chan[p] = <<"disk", proc[p].b>> /\ Buf(p).disk
  BY DEF Inv, Sleepers
<1>2. CASE chan[p] = <<"free">> /\ Cardinality(free) < 3
  BY <1>2
<1>3. CASE chan[p] = <<"lock", proc[p].b>> /\ Buf(p).holder # None
  BY <1>3
<1>4. CASE chan[p] = <<"disk", proc[p].b>> /\ Buf(p).disk
  BY <1>4
<1> QED
  BY <1>1, <1>2, <1>3, <1>4
=============================================================================
