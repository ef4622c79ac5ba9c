-------------------------------- MODULE Disk --------------------------------
(***************************************************************************)
(* The buffer cache (kernel/bio.c), its sleep locks (kernel/sleeplock.c) and *)
(* the disk driver (kernel/virtio_disk.c) with the device it drives.         *)
(*                                                                          *)
(* A hand is what a process does with one buffer: bread(), then nothing      *)
(* ("read"), bwrite() ("write"), the change and bpin() of log_write()        *)
(* ("log"), or the bwrite() and bunpin() of install_trans() ("install"),     *)
(* then brelse().  A process has two buffers at a time in write_log(), in    *)
(* install_trans(), and when bmap() or itrunc() has the indirect block: then *)
(* one of its hands rests while the other moves.                             *)
(* A step is a critical section of bcache.lock, of a sleep lock's spin lock  *)
(* or of vdisk_lock.  The contents of a block are the number of its version. *)
(***************************************************************************)
EXTENDS Integers, Sequences, SequencesExt, FiniteSets

CONSTANTS
  Hands,
  Processes,     \* the sets of hands that are those of one process
  Blocks,
  LogBlocks,     \* external: those of the log itself, which alone bypass it
  IndirectBlocks,\* external: those that bmap() and itrunc() read addresses from
  NBUF,          \* buffers
  NUM,           \* descriptors
  MaxPins,       \* external: blocks in the log at a time
  MaxChanges     \* bound: changes started

DiskAssumption ==
  /\ IsFiniteSet(Hands) /\ IsFiniteSet(Blocks) /\ "none" \notin Hands \cup Blocks
  /\ Processes \subseteq SUBSET Hands /\ LogBlocks \cap IndirectBlocks = {}
  /\ NBUF \in Nat \ {0} /\ NUM \in Nat \ {0} /\ MaxPins \in Nat

VARIABLES
  buf,      \* each buffer: block, refcnt, valid, holder, data, disk
  lru,      \* the list of buffers, the most recently used first
  proc,     \* each hand: pc, op, its buffer b and its first descriptor id
  chan,     \* what the process of each hand sleeps on there, if it does
  free,     \* descriptors that are free
  desc,     \* each descriptor's next, if it has one: a set
  info,     \* requests by their first descriptor: buffer and direction
  avail,    \* requests that the device has not done
  used,     \* done requests that the driver has not seen, in order
  irq, intr,\* interrupt pending; where the handler is
  platter,  \* the blocks on the disk
  latest,   \* history: the last version of each block
  pinned    \* external: blocks of the log

bvars == <<buf, lru>>
dvars == <<free, desc, info, avail, used, irq, intr, platter>>
vars == <<bvars, proc, chan, dvars, latest, pinned>>

None == "none"
NoRequest == [b |-> 0, write |-> FALSE]
Idle == [pc |-> "idle", op |-> None, b |-> 1, id |-> 0]
Bufs == 1..NBUF
Descs == 0..NUM - 1

Init ==
  /\ buf = [b \in Bufs |-> [block |-> None, refcnt |-> 0, valid |-> FALSE,
                            holder |-> None, data |-> 0, disk |-> FALSE]]
  /\ lru = [k \in Bufs |-> NBUF + 1 - k]
  /\ proc = [p \in Hands |-> Idle]
  /\ chan = [p \in Hands |-> <<>>]
  /\ free = Descs /\ desc = [i \in Descs |-> {}] /\ info = [i \in Descs |-> NoRequest]
  /\ avail = {} /\ used = <<>> /\ irq = FALSE /\ intr = "none"
  /\ platter = [k \in Blocks |-> 0] /\ latest = [k \in Blocks |-> 0]
  /\ pinned = {}

At(p, pc) == proc[p].pc = pc /\ chan[p] = <<>>
Buf(p) == buf[proc[p].b]
Go(p, pc) == proc' = [proc EXCEPT ![p].pc = pc]
Wakeup(c) == [q \in Hands |-> IF chan[q] = c THEN <<>> ELSE chan[q]]
BlockOf(p) == Buf(p).block
Doing(op) == {p \in Hands : proc[p].op = op}

-----------------------------------------------------------------------------
(* bget().                                                                  *)
Cached(k) == {b \in Bufs : buf[b].block = k}

\* The least recently used buffer that nobody refers to.
\* Mutant: the least recently used one that is not locked.
RecycleUnlocked ==
  LET S == {j \in 1..NBUF : buf[lru[j]].holder = None} IN
    {lru[j] : j \in {j \in S : \A i \in S : i <= j}}
Recycle ==
  LET S == {j \in 1..NBUF : buf[lru[j]].refcnt = 0} IN
    {lru[j] : j \in {j \in S : \A i \in S : i <= j}}

Changes == FoldFunction(+, 0, latest) + Cardinality(Doing("log") \cup Doing("write"))

\* External, begin_op() and commit(): the log has room, and its blocks are
\* installed while nobody changes them.
LogAllows(op, k) ==
  /\ op \in {"log", "install"} => k \notin LogBlocks
  /\ op = "log" => /\ Doing("install") = {} /\ Changes < MaxChanges
                   /\ Cardinality(pinned \cup {k} \cup {BlockOf(q) : q \in Doing("log")}) <= MaxPins
  /\ op = "install" => k \in pinned /\ Doing("log") \cup Doing("install") = {}
  /\ op = "write" => k \in LogBlocks /\ Changes < MaxChanges

\* bread() after acquiresleep(), and the change that the caller makes.
AfterRead(op) == CASE op = "read" -> "release" [] op = "log" -> "pin" [] OTHER -> "start"

\* The other hands of the process that p is of, and where a hand can rest: its
\* buffer is locked and read.
Others(p) == UNION {S \in Processes : p \in S} \ {p}
Rests(q) ==
  \/ proc[q].pc = "idle"
  \/ proc[q].pc = AfterRead(proc[q].op) /\ chan[q] = <<>> /\ Buf(q).valid
  \/ proc[q].pc = "release"
\* The second buffer of a process beside the one that q has: write_log() (log.c:74-75)
\* and install_trans() (log.c:184-185), balloc() in bmap() and bfree() in itrunc().
Beside(q, op, k) ==
  \/ proc[q].pc = "idle"
  \/ /\ Rests(q) /\ proc[q].pc = AfterRead(proc[q].op)
     /\ \/ proc[q].op = "write" /\ op = "read" /\ k \in pinned
        \/ proc[q].op = "read" /\ BlockOf(q) \in LogBlocks /\ op = "install"
        \/ /\ proc[q].op \in {"read", "log"} /\ BlockOf(q) \in IndirectBlocks
           /\ op \in {"read", "log"} /\ k \notin IndirectBlocks \cup LogBlocks

\* p is about to call bread() of block k.
Asks(p, op, k) ==
  /\ proc[p].pc = "idle" /\ LogAllows(op, k)
  /\ \A q \in Others(p) : Beside(q, op, k)
Get(p, op, k) ==
  /\ Asks(p, op, k)
  /\ \E b \in IF Cached(k) # {} THEN Cached(k) ELSE Recycle :
       /\ buf' = IF buf[b].block = k THEN [buf EXCEPT ![b].refcnt = @ + 1]
                 ELSE [buf EXCEPT ![b].block = k, ![b].valid = FALSE, ![b].refcnt = 1]
       /\ proc' = [proc EXCEPT ![p] = [@ EXCEPT !.pc = "lock", !.op = op, !.b = b]]
  /\ UNCHANGED <<lru, chan, dvars, latest, pinned>>

\* The buffer is locked; if it is valid the caller changes it or not.
Have(p, B) ==
  LET change == B.valid /\ proc[p].op \in {"write", "log"} IN
    /\ buf' = [buf EXCEPT ![proc[p].b] = IF change THEN [B EXCEPT !.data = @ + 1] ELSE B]
    /\ latest' = IF change THEN [latest EXCEPT ![B.block] = @ + 1] ELSE latest
    /\ Go(p, IF B.valid THEN AfterRead(proc[p].op) ELSE "start")

\* acquiresleep().
Acquire(p) ==
  /\ At(p, "lock") /\ Buf(p).holder = None
  /\ Have(p, [Buf(p) EXCEPT !.holder = p])
  /\ UNCHANGED <<lru, chan, dvars, pinned>>
AcquireSleep(p) ==
  /\ At(p, "lock") /\ Buf(p).holder # None
  /\ chan' = [chan EXCEPT ![p] = <<"lock", proc[p].b>>]
  /\ UNCHANGED <<bvars, proc, dvars, latest, pinned>>

-----------------------------------------------------------------------------
(* virtio_disk_rw(): a read when the buffer is not valid, else a write.      *)
Unlocked == intr = "none"   \* vdisk_lock is held by the handler otherwise

\* alloc_desc() takes the lowest one.
Lowest(S) == CHOOSE i \in S : \A j \in S : i <= j
Start(p) ==
  /\ At(p, "start") /\ Unlocked /\ Cardinality(free) >= 3
  /\ LET i1 == Lowest(free) i2 == Lowest(free \ {i1}) i3 == Lowest(free \ {i1, i2})
         b == proc[p].b IN
       /\ free' = free \ {i1, i2, i3}
       /\ desc' = [desc EXCEPT ![i1] = {i2}, ![i2] = {i3}, ![i3] = {}]
       /\ info' = [info EXCEPT ![i1] = [b |-> b, write |-> Buf(p).valid]]
       /\ avail' = avail \cup {i1}
       /\ buf' = [buf EXCEPT ![b].disk = TRUE]
       /\ proc' = [proc EXCEPT ![p].pc = "wait", ![p].id = i1]
       /\ chan' = [chan EXCEPT ![p] = <<"disk", b>>]
  /\ UNCHANGED <<lru, used, irq, intr, platter, latest, pinned>>
\* One or two are given back, which wakes the others, before the sleep.
StartSleep(p) ==
  /\ At(p, "start") /\ Unlocked /\ Cardinality(free) < 3
  /\ chan' = [IF free = {} THEN chan ELSE Wakeup(<<"free">>) EXCEPT ![p] = <<"free">>]
  /\ UNCHANGED <<bvars, proc, dvars, latest, pinned>>

\* free_chain(id).
\* Mutant: the status descriptor is forgotten.
ChainShort(i) == {i} \cup desc[i]
Chain(i) == {i} \cup desc[i] \cup UNION {desc[j] : j \in desc[i]}

Finish(p) ==
  /\ At(p, "wait") /\ Unlocked /\ ~Buf(p).disk
  /\ LET c == Chain(proc[p].id) IN
       /\ free' = free \cup c
       /\ desc' = [i \in Descs |-> IF i \in c THEN {} ELSE desc[i]]
       /\ info' = [info EXCEPT ![proc[p].id] = NoRequest]
       /\ chan' = Wakeup(<<"free">>)
  /\ IF Buf(p).valid
     THEN Go(p, IF proc[p].op = "install" THEN "unpin" ELSE "release") /\ UNCHANGED <<buf, latest>>
     ELSE Have(p, [Buf(p) EXCEPT !.valid = TRUE])
  /\ UNCHANGED <<lru, avail, used, irq, intr, platter, pinned>>
\* Woken by kill(): back to sleep.
WaitSleep(p) ==
  /\ At(p, "wait") /\ Unlocked /\ Buf(p).disk
  /\ chan' = [chan EXCEPT ![p] = <<"disk", proc[p].b>>]
  /\ UNCHANGED <<bvars, proc, dvars, latest, pinned>>

\* External: the device does any of the requests, and interrupts.
Device(id) ==
  LET r == info[id] B == buf[r.b] IN
    /\ id \in avail /\ avail' = avail \ {id}
    /\ IF r.write THEN platter' = [platter EXCEPT ![B.block] = B.data] /\ UNCHANGED buf
       ELSE buf' = [buf EXCEPT ![r.b].data = platter[B.block]] /\ UNCHANGED platter
    /\ used' = Append(used, id) /\ irq' = TRUE
    /\ UNCHANGED <<lru, proc, chan, free, desc, info, intr, latest, pinned>>

\* virtio_disk_intr(): acknowledge, then look at the used ring until it is
\* empty, while the device goes on.
Ack ==
  /\ irq /\ intr = "none"
  /\ irq' = FALSE /\ intr' = "scan"
  /\ UNCHANGED <<bvars, proc, chan, free, desc, info, avail, used, platter, latest, pinned>>
Scan ==
  /\ intr = "scan" /\ used # <<>>
  /\ LET b == info[Head(used)].b IN
       /\ buf' = [buf EXCEPT ![b].disk = FALSE]
       /\ chan' = Wakeup(<<"disk", b>>)
  /\ used' = Tail(used)
  /\ UNCHANGED <<lru, proc, free, desc, info, avail, irq, intr, platter, latest, pinned>>
ScanEnd ==
  /\ intr = "scan" /\ used = <<>>
  /\ intr' = "exit"
  /\ UNCHANGED <<bvars, proc, chan, free, desc, info, avail, used, irq, platter, latest, pinned>>
\* Mutant: the interrupt is acknowledged last.
ExitAcks ==
  /\ intr = "exit"
  /\ intr' = "none" /\ irq' = FALSE
  /\ UNCHANGED <<bvars, proc, chan, free, desc, info, avail, used, platter, latest, pinned>>
Exit ==
  /\ intr = "exit"
  /\ intr' = "none"
  /\ UNCHANGED <<bvars, proc, chan, free, desc, info, avail, used, irq, platter, latest, pinned>>

-----------------------------------------------------------------------------
(* bpin() of log_write(), which pins a block once, and bunpin().             *)
Pin(p) ==
  /\ At(p, "pin")
  /\ buf' = IF BlockOf(p) \in pinned THEN buf ELSE [buf EXCEPT ![proc[p].b].refcnt = @ + 1]
  /\ pinned' = pinned \cup {BlockOf(p)}
  /\ Go(p, "release")
  /\ UNCHANGED <<lru, chan, dvars, latest>>
Unpin(p) ==
  /\ At(p, "unpin")
  /\ buf' = [buf EXCEPT ![proc[p].b].refcnt = @ - 1]
  /\ pinned' = pinned \ {BlockOf(p)}
  /\ Go(p, "release")
  /\ UNCHANGED <<lru, chan, dvars, latest>>

\* brelse(): releasesleep(), then the reference.
\* Mutant: nobody is woken.
ReleaseSilently(p) ==
  /\ At(p, "release")
  /\ buf' = [buf EXCEPT ![proc[p].b].holder = None]
  /\ Go(p, "drop")
  /\ UNCHANGED <<lru, chan, dvars, latest, pinned>>
Release(p) ==
  /\ At(p, "release")
  /\ buf' = [buf EXCEPT ![proc[p].b].holder = None]
  /\ chan' = Wakeup(<<"lock", proc[p].b>>)
  /\ Go(p, "drop")
  /\ UNCHANGED <<lru, dvars, latest, pinned>>
\* b is taken out of the list and put in front.
ToFront(b) ==
  LET i == CHOOSE j \in 1..NBUF : lru[j] = b IN
    [j \in 1..NBUF |-> IF j = 1 THEN b ELSE IF j <= i THEN lru[j - 1] ELSE lru[j]]
\* Mutant: the count is cleared, whoever else refers to the buffer.
DropClears(p) ==
  LET b == proc[p].b IN
    /\ At(p, "drop")
    /\ buf' = [buf EXCEPT ![b].refcnt = 0]
    /\ lru' = ToFront(b)
    /\ proc' = [proc EXCEPT ![p] = Idle]
    /\ UNCHANGED <<chan, dvars, latest, pinned>>
Drop(p) ==
  LET b == proc[p].b IN
    /\ At(p, "drop")
    /\ buf' = [buf EXCEPT ![b].refcnt = @ - 1]
    /\ lru' = IF buf[b].refcnt = 1 THEN ToFront(b) ELSE lru
    /\ proc' = [proc EXCEPT ![p] = Idle]
    /\ UNCHANGED <<chan, dvars, latest, pinned>>

\* kill() makes a sleeper runnable, whatever it sleeps on.
Kill(p) ==
  /\ chan[p] # <<>>
  /\ chan' = [chan EXCEPT ![p] = <<>>]
  /\ UNCHANGED <<bvars, proc, dvars, latest, pinned>>

\* A process does one thing at a time.
Step(p) ==
  /\ \A q \in Others(p) : Rests(q)
  /\ \/ Acquire(p) \/ AcquireSleep(p) \/ Start(p) \/ StartSleep(p) \/ Finish(p) \/ WaitSleep(p)
     \/ Pin(p) \/ Unpin(p) \/ Release(p) \/ Drop(p)
Handler == Ack \/ Scan \/ ScanEnd \/ Exit
Next ==
  \/ \E p \in Hands : Step(p) \/ Kill(p) \/ \E op \in {"read", "write", "log", "install"}, k \in Blocks : Get(p, op, k)
  \/ \E id \in Descs : Device(id)
  \/ Handler

Spec == Init /\ [][Next]_vars

-----------------------------------------------------------------------------
Inflight == {p \in Hands : proc[p].pc = "wait"}
Users(b) == {p \in Hands : proc[p].pc # "idle" /\ proc[p].b = b}

TypeOK ==
  /\ \A b \in Bufs : buf[b].refcnt \in Nat /\ buf[b].block \in Blocks \cup {None}
  /\ ToSet(lru) = Bufs /\ free \subseteq Descs /\ avail \subseteq Descs \ free

\* A block is in one buffer, and the buffer is the one that its users have:
\* two processes never change two copies of a block (bio.c:65-88).
OneCopy ==
  /\ \A b, c \in Bufs : b # c => buf[b].block # buf[c].block \/ buf[b].block = None
  /\ \A b \in Bufs :
       buf[b].refcnt = Cardinality(Users(b)) + (IF buf[b].block \in pinned THEN 1 ELSE 0)

\* A pinned block's changes are in its buffer, and other changes are on the
\* disk when they are unlocked: who has read a block has its last version,
\* whatever the device did first and whichever buffer was recycled.
SeesLatest ==
  /\ \A p \in Hands : proc[p].pc \in {"pin", "unpin", "release"} => Buf(p).data = latest[BlockOf(p)]
  /\ \A k \in Blocks : platter[k] # latest[k] =>
       \E b \in Cached(k) : buf[b].data = latest[k] /\ (buf[b].holder # None \/ k \in pinned)

\* The descriptors in use are those of the requests under way, three each.
DescriptorsExact ==
  /\ \A p \in Inflight : Cardinality(Chain(proc[p].id)) = 3 /\ Chain(proc[p].id) \cap free = {}
  /\ Cardinality(free) = NUM - 3 * Cardinality(Inflight)

\* Nobody sleeps on what is there: a lock that is free, descriptors, or a
\* request that is complete.
NoLostWakeup == \A p \in Hands : chan[p] # <<>> =>
  CASE chan[p][1] = "free" -> Cardinality(free) < 3
    [] chan[p][1] = "lock" -> Buf(p).holder # None
    [] chan[p][1] = "disk" -> Buf(p).disk

\* A completed request is looked at: the handler has it before it, or another
\* interrupt comes, whatever interrupts are merged (virtio_disk.c:299-305).
CompletionSeen == used # <<>> => irq \/ intr = "scan"
=============================================================================
