-------------------------------- MODULE Log --------------------------------
(***************************************************************************)
(* The write-ahead log of kernel/log.c over the buffer cache of             *)
(* kernel/bio.c.  Processes run file-system calls between begin_op and      *)
(* end_op; the last one to leave commits for all of them; the machine may   *)
(* stop between any two disk writes and recovers when it boots.             *)
(*                                                                          *)
(* One action is one critical section under log.lock, or one iteration of a *)
(* loop that writes a disk block.  A block write is atomic and synchronous  *)
(* (virtio_disk_rw sleeps until the device has finished).                   *)
(***************************************************************************)
EXTENDS Integers, Sequences, FiniteSets

CONSTANTS
  Proc,         \* processes that make file-system calls
  Block,        \* home blocks: every disk block outside the log
  Val,          \* contents of a block
  Absent,       \* "the block is in no buffer"
  NoBlock,      \* "the process holds no buffer"
  MAXOPBLOCKS,  \* blocks begin_op reserves for one call
  LOGSIZE,      \* capacity of the in-memory header
  NLOG,         \* sb.nlog: log blocks on disk, the header block included
  OpBlocks      \* distinct blocks one call really writes

ASSUME ConstantsAssumption ==
  /\ MAXOPBLOCKS \in Nat /\ LOGSIZE \in Nat \ {0} /\ NLOG \in Nat /\ OpBlocks \in Nat
  /\ Absent \notin Val
  /\ NoBlock \notin Block
  /\ IsFiniteSet(Proc)
  /\ IsFiniteSet(Block)

VARIABLES
  disk,         \* home blocks on disk
  head,         \* header block on disk: the block numbers of a committed transaction
  logdata,      \* log blocks on disk
  cache,        \* b->data of the buffer that holds a block, or Absent
  refcnt,       \* b->refcnt of that buffer
  lh,           \* log.lh: block numbers logged so far, lh.n = Len(lh)
  outstanding,  \* log.outstanding
  committing,   \* log.committing
  pc,           \* where each process is
  cur,          \* the block whose buffer the process has locked
  tail,         \* the loop variable of write_log and install_trans
  wrote         \* the distinct blocks the process's current call has logged

vars == <<disk, head, logdata, cache, refcnt, lh, outstanding, committing, pc, cur, tail, wrote>>

InCall   == {"op", "held", "dirty", "logged", "panic"}
InCommit == {"write_log", "write_head", "install", "clear", "finish"}
InBoot   == {"off", "r_head", "r_install", "r_clear"}
PC       == {"idle", "begin", "asleep"} \cup InCall \cup InCommit \cup InBoot

TypeOK ==
  /\ disk \in [Block -> Val]
  /\ head \in Seq(Block)
  /\ logdata \in [1..LOGSIZE -> Val]
  /\ cache \in [Block -> Val \cup {Absent}]
  /\ refcnt \in [Block -> Int]
  /\ lh \in Seq(Block)
  /\ outstanding \in 0..Cardinality(Proc)
  /\ committing \in BOOLEAN
  /\ pc \in [Proc -> PC]
  /\ cur \in [Proc -> Block \cup {NoBlock}]
  /\ tail \in [Proc -> Nat]
  /\ wrote \in [Proc -> SUBSET Block]

Logged(seq, b) == \E i \in DOMAIN seq : seq[i] = b

\* What bread(b) finds: the buffer if there is one, the disk otherwise.
Contents(b) == IF cache[b] = Absent THEN disk[b] ELSE cache[b]

\* wakeup(&log): every process asleep in begin_op looks again.
WakeAll(f) == [q \in Proc |-> IF f[q] = "asleep" THEN "begin" ELSE f[q]]

Booting == \E p \in Proc : pc[p] \in InBoot

-----------------------------------------------------------------------------
(* Start of the machine: memory is empty, p is the first process and runs    *)
(* fsinit -> initlog -> recover_from_log before any other process exists.    *)
BootPC(p) == [q \in Proc |-> IF q = p THEN "r_head" ELSE "off"]

Init ==
  /\ disk \in [Block -> Val]
  /\ head = <<>>
  /\ logdata \in {[i \in 1..LOGSIZE |-> v] : v \in Val}
  /\ cache = [b \in Block |-> Absent]
  /\ refcnt = [b \in Block |-> 0]
  /\ lh = <<>>
  /\ outstanding = 0
  /\ committing = FALSE
  /\ pc \in {BootPC(p) : p \in Proc}
  /\ cur = [q \in Proc |-> NoBlock]
  /\ tail = [q \in Proc |-> 1]
  /\ wrote = [q \in Proc |-> {}]

\* Power loss, reboot() or shutdown(): the disk keeps what was written.
Crash(p) ==
  /\ cache' = [b \in Block |-> Absent]
  /\ refcnt' = [b \in Block |-> 0]
  /\ lh' = <<>>
  /\ outstanding' = 0
  /\ committing' = FALSE
  /\ pc' = BootPC(p)
  /\ cur' = [q \in Proc |-> NoBlock]
  /\ tail' = [q \in Proc |-> 1]
  /\ wrote' = [q \in Proc |-> {}]
  /\ UNCHANGED <<disk, head, logdata>>

-----------------------------------------------------------------------------
(* begin_op: one turn of its loop.                                          *)
\* Mutants: a call may begin during a commit; the reservation forgets what is
\* logged.
MustWaitForgetsCommit == Len(lh) + (outstanding + 1) * MAXOPBLOCKS > LOGSIZE
MustWaitForgetsLogged == committing \/ (outstanding + 1) * MAXOPBLOCKS > LOGSIZE

MustWait == committing \/ Len(lh) + (outstanding + 1) * MAXOPBLOCKS > LOGSIZE

\* Mutant: counts the caller before it has been admitted.
BeginSleepCounted(p) ==
  /\ pc[p] \in {"idle", "begin"}
  /\ MustWait
  /\ outstanding' = outstanding + 1
  /\ pc' = [pc EXCEPT ![p] = "asleep"]
  /\ UNCHANGED <<disk, head, logdata, cache, refcnt, lh, committing, cur, tail, wrote>>

BeginSleep(p) ==
  /\ pc[p] \in {"idle", "begin"}
  /\ MustWait
  /\ pc' = [pc EXCEPT ![p] = "asleep"]
  /\ UNCHANGED <<disk, head, logdata, cache, refcnt, lh, outstanding, committing, cur, tail, wrote>>

BeginAdmit(p) ==
  /\ pc[p] \in {"idle", "begin"}
  /\ ~MustWait
  /\ outstanding' = outstanding + 1
  /\ pc' = [pc EXCEPT ![p] = "op"]
  /\ wrote' = [wrote EXCEPT ![p] = {}]
  /\ UNCHANGED <<disk, head, logdata, cache, refcnt, lh, committing, cur, tail>>

-----------------------------------------------------------------------------
(* Inside a call: bread, modify, log_write, brelse.                         *)
Unlocked(b) == \A q \in Proc : cur[q] # b

Bread(p, b) ==
  /\ pc[p] = "op"
  /\ Unlocked(b)
  /\ cur' = [cur EXCEPT ![p] = b]
  /\ cache' = [cache EXCEPT ![b] = Contents(b)]
  /\ refcnt' = [refcnt EXCEPT ![b] = @ + 1]
  /\ pc' = [pc EXCEPT ![p] = "held"]
  /\ UNCHANGED <<disk, head, logdata, lh, outstanding, committing, tail, wrote>>

\* The call changes b->data.  The guard is its side of the bargain: no call
\* writes more than OpBlocks distinct blocks.
Modify(p, v) ==
  /\ pc[p] = "held"
  /\ Cardinality(wrote[p] \cup {cur[p]}) <= OpBlocks
  /\ cache' = [cache EXCEPT ![cur[p]] = v]
  /\ pc' = [pc EXCEPT ![p] = "dirty"]
  /\ UNCHANGED <<disk, head, logdata, refcnt, lh, outstanding, committing, cur, tail, wrote>>

TooBig == Len(lh) >= LOGSIZE \/ Len(lh) >= NLOG - 1

\* Mutant: pins the buffer at every log_write.
RecordPinsAgain(b) ==
  /\ lh' = IF Logged(lh, b) THEN lh ELSE Append(lh, b)
  /\ refcnt' = [refcnt EXCEPT ![b] = @ + 1]

\* The block is recorded and its buffer pinned once, however often it is
\* written before the commit (absorption).
Record(b) ==
  IF Logged(lh, b)
  THEN UNCHANGED <<lh, refcnt>>
  ELSE /\ lh' = Append(lh, b)
       /\ refcnt' = [refcnt EXCEPT ![b] = @ + 1]

LogWrite(p) ==
  /\ pc[p] = "dirty"
  /\ IF TooBig \/ outstanding < 1
     THEN /\ pc' = [pc EXCEPT ![p] = "panic"]
          /\ UNCHANGED <<lh, refcnt, wrote>>
     ELSE /\ Record(cur[p])
          /\ wrote' = [wrote EXCEPT ![p] = @ \cup {cur[p]}]
          /\ pc' = [pc EXCEPT ![p] = "logged"]
  /\ UNCHANGED <<disk, head, logdata, cache, outstanding, committing, cur, tail>>

Brelse(p) ==
  /\ pc[p] \in {"held", "logged"}
  /\ refcnt' = [refcnt EXCEPT ![cur[p]] = @ - 1]
  /\ cur' = [cur EXCEPT ![p] = NoBlock]
  /\ pc' = [pc EXCEPT ![p] = "op"]
  /\ UNCHANGED <<disk, head, logdata, cache, lh, outstanding, committing, tail, wrote>>

-----------------------------------------------------------------------------
(* end_op, first critical section.                                          *)
\* Mutant: the freed reservation wakes nobody.
EndOpLeaveSilently(p) ==
  /\ pc[p] = "op"
  /\ outstanding # 1
  /\ outstanding' = outstanding - 1
  /\ pc' = [pc EXCEPT ![p] = IF committing THEN "panic" ELSE "idle"]
  /\ UNCHANGED <<disk, head, logdata, cache, refcnt, lh, committing, cur, tail, wrote>>

\* Others are still in a call: give the reservation back and wake waiters.
EndOpLeave(p) ==
  /\ pc[p] = "op"
  /\ outstanding # 1
  /\ outstanding' = outstanding - 1
  /\ pc' = IF committing
           THEN [pc EXCEPT ![p] = "panic"]
           ELSE WakeAll([pc EXCEPT ![p] = "idle"])
  /\ UNCHANGED <<disk, head, logdata, cache, refcnt, lh, committing, cur, tail, wrote>>

\* Last one out: this process commits, unless nothing was logged.
EndOpCommit(p) ==
  /\ pc[p] = "op"
  /\ outstanding = 1
  /\ outstanding' = 0
  /\ committing' = TRUE
  /\ pc' = [pc EXCEPT ![p] = IF committing THEN "panic"
                             ELSE IF lh = <<>> THEN "finish" ELSE "write_log"]
  /\ tail' = [tail EXCEPT ![p] = 1]
  /\ UNCHANGED <<disk, head, logdata, cache, refcnt, lh, cur, wrote>>

-----------------------------------------------------------------------------
(* commit().  One action per block written to disk.                         *)
Advance(p, here, next) ==
  /\ tail' = [tail EXCEPT ![p] = IF tail[p] = Len(lh) THEN 1 ELSE @ + 1]
  /\ pc' = [pc EXCEPT ![p] = IF tail[p] = Len(lh) THEN next ELSE here]

\* Mutant: installs before the header is on disk.
WriteLogThenInstall(p) ==
  /\ pc[p] = "write_log"
  /\ logdata' = [logdata EXCEPT ![tail[p]] = Contents(lh[tail[p]])]
  /\ Advance(p, "write_log", "install")
  /\ UNCHANGED <<disk, head, cache, refcnt, lh, outstanding, committing, cur, wrote>>

WriteLog(p) ==
  /\ pc[p] = "write_log"
  /\ LET b == lh[tail[p]] IN
       /\ Unlocked(b)
       /\ logdata' = [logdata EXCEPT ![tail[p]] = Contents(b)]
       /\ cache' = [cache EXCEPT ![b] = Contents(b)]
  /\ Advance(p, "write_log", "write_head")
  /\ UNCHANGED <<disk, head, refcnt, lh, outstanding, committing, cur, wrote>>

\* The header reaches the disk: the transaction is committed.
WriteHead(p) ==
  /\ pc[p] = "write_head"
  /\ head' = lh
  /\ pc' = [pc EXCEPT ![p] = "install"]
  /\ UNCHANGED <<disk, logdata, cache, refcnt, lh, outstanding, committing, cur, tail, wrote>>

\* install_trans: copy log block `tail' to its home and to the buffer.
CopyHome(p) ==
  LET b == lh[tail[p]] IN
    /\ Unlocked(b)
    /\ disk' = [disk EXCEPT ![b] = logdata[tail[p]]]
    /\ cache' = [cache EXCEPT ![b] = logdata[tail[p]]]

InstallTrans(p) ==
  /\ pc[p] = "install"
  /\ CopyHome(p)
  /\ refcnt' = [refcnt EXCEPT ![lh[tail[p]]] = @ - 1]
  /\ Advance(p, "install", "clear")
  /\ UNCHANGED <<head, logdata, lh, outstanding, committing, cur, wrote>>

\* Mutant: the second write_head is missing.
ClearHeadInMemory(p) ==
  /\ pc[p] = "clear"
  /\ lh' = <<>>
  /\ pc' = [pc EXCEPT ![p] = "finish"]
  /\ UNCHANGED <<disk, head, logdata, cache, refcnt, outstanding, committing, cur, tail, wrote>>

ClearHead(p) ==
  /\ pc[p] = "clear"
  /\ lh' = <<>>
  /\ head' = <<>>
  /\ pc' = [pc EXCEPT ![p] = "finish"]
  /\ UNCHANGED <<disk, logdata, cache, refcnt, outstanding, committing, cur, tail, wrote>>

\* end_op, second critical section.
FinishCommit(p) ==
  /\ pc[p] = "finish"
  /\ committing' = FALSE
  /\ pc' = WakeAll([pc EXCEPT ![p] = "idle"])
  /\ UNCHANGED <<disk, head, logdata, cache, refcnt, lh, outstanding, cur, tail, wrote>>

-----------------------------------------------------------------------------
(* recover_from_log, run by the first process before any other exists.      *)
\* Mutant: recovery forgets to install.
ReadHeadNoInstall(p) ==
  /\ pc[p] = "r_head"
  /\ lh' = head
  /\ pc' = [pc EXCEPT ![p] = "r_clear"]
  /\ UNCHANGED <<disk, head, logdata, cache, refcnt, outstanding, committing, cur, tail, wrote>>

ReadHead(p) ==
  /\ pc[p] = "r_head"
  /\ lh' = head
  /\ pc' = [pc EXCEPT ![p] = IF head = <<>> THEN "r_clear" ELSE "r_install"]
  /\ UNCHANGED <<disk, head, logdata, cache, refcnt, outstanding, committing, cur, tail, wrote>>

RecoverInstall(p) ==
  /\ pc[p] = "r_install"
  /\ CopyHome(p)
  /\ Advance(p, "r_install", "r_clear")
  /\ UNCHANGED <<head, logdata, refcnt, lh, outstanding, committing, cur, wrote>>

RecoverClear(p) ==
  /\ pc[p] = "r_clear"
  /\ lh' = <<>>
  /\ head' = <<>>
  /\ pc' = [q \in Proc |-> "idle"]
  /\ UNCHANGED <<disk, logdata, cache, refcnt, outstanding, committing, cur, tail, wrote>>

-----------------------------------------------------------------------------
(* Other users of the buffer cache: a read outside any transaction brings a *)
(* block in, and bget reuses the buffer of a block nobody refers to.        *)
ReadBlock(b) ==
  /\ ~Booting
  /\ Unlocked(b)
  /\ cache[b] = Absent
  /\ cache' = [cache EXCEPT ![b] = disk[b]]
  /\ UNCHANGED <<disk, head, logdata, refcnt, lh, outstanding, committing, pc, cur, tail, wrote>>

Recycle(b) ==
  /\ cache[b] # Absent
  /\ refcnt[b] = 0
  /\ cache' = [cache EXCEPT ![b] = Absent]
  /\ UNCHANGED <<disk, head, logdata, refcnt, lh, outstanding, committing, pc, cur, tail, wrote>>

-----------------------------------------------------------------------------
BeginOp(p) == BeginSleep(p) \/ BeginAdmit(p)

Update(p) ==
  \/ \E b \in Block : Bread(p, b)
  \/ \E v \in Val : Modify(p, v)
  \/ LogWrite(p)
  \/ Brelse(p)

EndOp(p) == EndOpLeave(p) \/ EndOpCommit(p)

Commit(p) ==
  \/ WriteLog(p)
  \/ WriteHead(p)
  \/ InstallTrans(p)
  \/ ClearHead(p)
  \/ FinishCommit(p)

Recover(p) == ReadHead(p) \/ RecoverInstall(p) \/ RecoverClear(p)

Next ==
  \/ \E p \in Proc : BeginOp(p) \/ Update(p) \/ EndOp(p) \/ Commit(p) \/ Recover(p) \/ Crash(p)
  \/ \E b \in Block : ReadBlock(b) \/ Recycle(b)

Spec == Init /\ [][Next]_vars

(***************************************************************************)
(* Fairness: a runnable process is scheduled (round robin in scheduler()),  *)
(* the disk answers, and a call in progress reaches its end_op: every       *)
(* caller of begin_op runs a bounded number of block updates.               *)
(***************************************************************************)
Fairness ==
  \A p \in Proc :
    /\ WF_vars(pc[p] = "begin" /\ BeginOp(p))
    /\ WF_vars(LogWrite(p) \/ Brelse(p))
    /\ SF_vars(EndOp(p))
    /\ WF_vars(Commit(p))
    /\ WF_vars(Recover(p))

LiveSpec == Spec /\ Fairness

-----------------------------------------------------------------------------
(* Properties.                                                              *)

\* What a reboot would find: the home blocks, overlaid with the log when the
\* header on disk names a transaction.
Durable ==
  [b \in Block |-> IF Logged(head, b)
                  THEN logdata[CHOOSE i \in DOMAIN head : head[i] = b]
                  ELSE disk[b]]

Current == [b \in Block |-> IF Booting THEN Durable[b] ELSE Contents(b)]

Active == {p \in Proc : pc[p] \in InCall}

\* The log implements the atomic disk: commit is the one disk write of
\* write_head, and neither the copying before and after it, nor recovery,
\* nor a crash inside any of them, changes what is durable.
Atomic == INSTANCE AtomicDisk
            WITH durable <- Durable, current <- Current, active <- Active
AtomicSpec == Atomic!ASpec

\* The sizes for which the reservation is enough: a call stays below its
\* reservation, and the on-disk log has room for what may be admitted.
LogRoom ==
  /\ OpBlocks < MAXOPBLOCKS
  /\ LOGSIZE - (MAXOPBLOCKS - OpBlocks) < NLOG - 1

\* None of the panics of log_write and end_op is reachable: the reservation
\* made by begin_op leaves room for every call it admits.
NoPanic == \A p \in Proc : pc[p] # "panic"

\* Whenever no call is in progress and no commit is running, everything that
\* was written is durable and the log on disk is empty.
QuiescentDurable ==
  (outstanding = 0 /\ ~committing /\ ~Booting) => head = <<>> /\ Current = Durable

\* A block is pinned from its first log_write until install_trans has copied
\* it home, and at no other time; otherwise only the holder refers to it.
Pinned(b) ==
  \E i \in DOMAIN lh :
    /\ lh[i] = b
    /\ \A p \in Proc : pc[p] \notin {"clear", "r_install", "r_clear"}
    /\ \A p \in Proc : pc[p] = "install" => tail[p] <= i

RefcntExact ==
  \A b \in Block :
    refcnt[b] = (IF Pinned(b) THEN 1 ELSE 0) + (IF Unlocked(b) THEN 0 ELSE 1)

\* Write-ahead: a home block on disk changes only to the contents that the
\* header on disk already promises for it.
WriteAhead ==
  [][\A b \in Block : disk'[b] # disk[b] =>
        \E i \in DOMAIN head : head[i] = b /\ disk'[b] = logdata[i]]_vars

\* The blocks that calls in progress may still add to the log, one pair for
\* each: the space they have been promised.
Promised == {s \in Proc \X (1..OpBlocks) :
               pc[s[1]] \in InCall /\ s[2] > Cardinality(wrote[s[1]])}

\* The log never promises more than it has: what is logged plus what may
\* still be logged leaves free what the admitted calls reserve in excess.
LogSpace ==
  Active # {} =>
    Len(lh) + Cardinality(Promised) <= LOGSIZE - (MAXOPBLOCKS - OpBlocks)

\* No wakeup is lost: a process asleep in begin_op is woken.
SleepersWake == \A p \in Proc : pc[p] = "asleep" ~> pc[p] # "asleep"
=============================================================================
