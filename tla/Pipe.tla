-------------------------------- MODULE Pipe --------------------------------
(***************************************************************************)
(* One pipe of kernel/pipe.c, from pipealloc until kfree, used by processes  *)
(* that share its two ends through the file table (kernel/file.c).          *)
(*                                                                          *)
(* pi->lock is explicit: it is held across the iterations of the two loops,  *)
(* one action per iteration, so that kill() and the other processes run      *)
(* between them.  sleep() gives the lock up and puts the process on its      *)
(* channel in one step (kernel/proc.c holds p->lock from before the release  *)
(* until the state is SLEEPING, and wakeup() needs p->lock).                *)
(***************************************************************************)
EXTENDS Integers, FiniteSets, Sequences

CONSTANTS
  Proc,        \* processes
  Readers,     \* those that start with the read end open
  Writers,     \* those that start with the write end open
  Killable,    \* those that kill() may name
  Byte,        \* values of a byte
  None,        \* no process, no byte
  PIPESIZE,    \* bytes in pi->data
  WRAP,        \* number of values of a uint (2^32)
  MaxN         \* bound: largest count given to read() and write()

ASSUME PipeAssumption ==
  /\ PIPESIZE \in Nat \ {0}
  /\ WRAP \in Nat /\ WRAP > PIPESIZE
  /\ \E k \in 1..WRAP : WRAP = k * PIPESIZE
  /\ MaxN \in Nat
  /\ Readers \subseteq Proc /\ Writers \subseteq Proc
  /\ Readers # {} /\ Writers # {}
  /\ None \notin Proc /\ None \notin Byte

VARIABLES
  lock,                 \* holder of pi->lock, or None
  data, nread, nwrite,  \* the ring and its two counters
  readopen, writeopen,  \* pi->readopen, pi->writeopen
  freed,                \* kfree(pi) has happened
  rfd, wfd,             \* processes with the read end, the write end open (f->ref)
  pc, n, i,             \* each process: where it is, bytes asked for, bytes done
  killed,               \* p->killed
  taken,                \* last byte removed from the ring
  stranded              \* a killed writer has left bytes without a wakeup

ring == <<data, nread, nwrite, taken>>
ends == <<readopen, writeopen, freed, rfd, wfd>>
vars == <<lock, ring, ends, pc, n, i, killed, stranded>>

WritePC == {"w_acquire", "w_loop", "w_body", "w_sleep"}
ReadPC  == {"r_acquire", "r_wait", "r_block", "r_sleep", "r_copy"}
ClosePC == {"close_read", "close_write"}
Locked  == {"w_loop", "w_body", "r_wait", "r_block", "r_copy"}

TypeOK ==
  /\ lock \in Proc \cup {None}
  /\ data \in [0..(PIPESIZE - 1) -> Byte]
  /\ nread \in 0..(WRAP - 1) /\ nwrite \in 0..(WRAP - 1)
  /\ taken \in Byte \cup {None}
  /\ {readopen, writeopen, freed, stranded} \subseteq BOOLEAN
  /\ rfd \subseteq Proc /\ wfd \subseteq Proc
  /\ pc \in [Proc -> {"idle"} \cup WritePC \cup ReadPC \cup ClosePC]
  /\ n \in [Proc -> 0..MaxN] /\ i \in [Proc -> 0..MaxN]
  /\ killed \in [Proc -> BOOLEAN]

\* Mutant: one byte too many fits.
FullLate == nwrite = (nread + PIPESIZE + 1) % WRAP

Empty == nread = nwrite
Full == nwrite = (nread + PIPESIZE) % WRAP

\* wakeup(&pi->nread) and wakeup(&pi->nwrite): sleepers take the lock again.
WakeReaders(f) == [q \in Proc |-> IF f[q] = "r_sleep" THEN "r_acquire" ELSE f[q]]
WakeWriters(f) == [q \in Proc |-> IF f[q] = "w_sleep" THEN "w_acquire" ELSE f[q]]

Goto(p, l) == [pc EXCEPT ![p] = l]

\* release(&pi->lock); return: the call's locals are gone.
Return(p) ==
  /\ lock' = None
  /\ n' = [n EXCEPT ![p] = 0] /\ i' = [i EXCEPT ![p] = 0]

\* pipealloc, and the processes that inherited or kept each end.
Init ==
  /\ lock = None
  /\ data \in {[k \in 0..(PIPESIZE - 1) |-> c] : c \in Byte}
  /\ nread = 0 /\ nwrite = 0
  /\ taken = None
  /\ readopen = TRUE /\ writeopen = TRUE
  /\ freed = FALSE
  /\ rfd = Readers /\ wfd = Writers
  /\ pc = [p \in Proc |-> "idle"]
  /\ n = [p \in Proc |-> 0] /\ i = [p \in Proc |-> 0]
  /\ killed = [p \in Proc |-> FALSE]
  /\ stranded = FALSE

-----------------------------------------------------------------------------
(* pipewrite(pi, addr, k)                                                   *)
WriteCall(p, k) ==
  /\ pc[p] = "idle" /\ p \in wfd /\ ~killed[p]
  /\ n' = [n EXCEPT ![p] = k] /\ i' = [i EXCEPT ![p] = 0]
  /\ pc' = Goto(p, "w_acquire")
  /\ UNCHANGED <<lock, ring, ends, killed, stranded>>

Acquire(p) ==
  /\ pc[p] \in {"w_acquire", "r_acquire"}
  /\ lock = None
  /\ lock' = p
  /\ pc' = Goto(p, IF pc[p] = "w_acquire" THEN "w_loop" ELSE "r_wait")
  /\ UNCHANGED <<ring, ends, n, i, killed, stranded>>

\* Mutant: returns without releasing the lock.
WriteAbortKeepsLock(p) ==
  /\ pc[p] = "w_loop" /\ i[p] < n[p]
  /\ ~readopen \/ killed[p]
  /\ pc' = Goto(p, "idle")
  /\ stranded' = (stranded \/ i[p] > 0)
  /\ UNCHANGED <<lock, ring, ends, n, i, killed>>

\* The reader is gone or the caller was killed: return -1 at once.
WriteAbort(p) ==
  /\ pc[p] = "w_loop" /\ i[p] < n[p]
  /\ ~readopen \/ killed[p]
  /\ Return(p)
  /\ pc' = Goto(p, "idle")
  /\ stranded' = (stranded \/ i[p] > 0)
  /\ UNCHANGED <<ring, ends, killed>>

\* Mutant: while(i <= n).
WriteCheckOnceMore(p) ==
  /\ pc[p] = "w_loop" /\ i[p] <= n[p]
  /\ readopen /\ ~killed[p]
  /\ pc' = Goto(p, "w_body")
  /\ UNCHANGED <<lock, ring, ends, n, i, killed, stranded>>

WriteCheck(p) ==
  /\ pc[p] = "w_loop" /\ i[p] < n[p]
  /\ readopen /\ ~killed[p]
  /\ pc' = Goto(p, "w_body")
  /\ UNCHANGED <<lock, ring, ends, n, i, killed, stranded>>

WriteFull(p) ==
  /\ pc[p] = "w_body" /\ Full
  /\ lock' = None
  /\ pc' = WakeReaders(Goto(p, "w_sleep"))
  /\ stranded' = FALSE
  /\ UNCHANGED <<ring, ends, n, i, killed>>

WriteByte(p, c) ==
  /\ pc[p] = "w_body" /\ ~Full
  /\ data' = [data EXCEPT ![nwrite % PIPESIZE] = c]
  /\ nwrite' = (nwrite + 1) % WRAP
  /\ i' = [i EXCEPT ![p] = @ + 1]
  /\ pc' = Goto(p, "w_loop")
  /\ UNCHANGED <<lock, nread, taken, ends, n, killed, stranded>>

\* Mutant: returns without waking the readers.
WriteReturnSilently(p) ==
  /\ \/ pc[p] = "w_loop" /\ i[p] = n[p]
     \/ pc[p] = "w_body" /\ ~Full
  /\ Return(p)
  /\ pc' = Goto(p, "idle")
  /\ UNCHANGED <<ring, ends, killed, stranded>>

\* All written, or copyin failed: wake the readers and return i.
WriteReturn(p) ==
  /\ \/ pc[p] = "w_loop" /\ i[p] = n[p]
     \/ pc[p] = "w_body" /\ ~Full
  /\ Return(p)
  /\ pc' = WakeReaders(Goto(p, "idle"))
  /\ stranded' = FALSE
  /\ UNCHANGED <<ring, ends, killed>>

-----------------------------------------------------------------------------
(* piperead(pi, addr, k)                                                    *)
ReadCall(p, k) ==
  /\ pc[p] = "idle" /\ p \in rfd /\ ~killed[p]
  /\ n' = [n EXCEPT ![p] = k] /\ i' = [i EXCEPT ![p] = 0]
  /\ pc' = Goto(p, "r_acquire")
  /\ UNCHANGED <<lock, ring, ends, killed, stranded>>

\* The while loop: nothing to read yet and somebody may still write.
ReadAbort(p) ==
  /\ pc[p] = "r_wait" /\ Empty /\ writeopen
  /\ killed[p]
  /\ Return(p)
  /\ pc' = Goto(p, "idle")
  /\ UNCHANGED <<ring, ends, killed, stranded>>

ReadCheck(p) ==
  /\ pc[p] = "r_wait" /\ Empty /\ writeopen
  /\ ~killed[p]
  /\ pc' = Goto(p, "r_block")
  /\ UNCHANGED <<lock, ring, ends, n, i, killed, stranded>>

ReadSleep(p) ==
  /\ pc[p] = "r_block"
  /\ lock' = None
  /\ pc' = Goto(p, "r_sleep")
  /\ UNCHANGED <<ring, ends, n, i, killed, stranded>>

\* Mutant: a killed reader leaves the loop instead of returning -1.
ReadEnterKilled(p) ==
  /\ pc[p] = "r_wait" /\ ~(Empty /\ writeopen /\ ~killed[p])
  /\ pc' = Goto(p, "r_copy")
  /\ UNCHANGED <<lock, ring, ends, n, i, killed, stranded>>

ReadEnter(p) ==
  /\ pc[p] = "r_wait" /\ ~(Empty /\ writeopen)
  /\ pc' = Goto(p, "r_copy")
  /\ UNCHANGED <<lock, ring, ends, n, i, killed, stranded>>

TakeByte ==
  /\ taken' = data[nread % PIPESIZE]
  /\ nread' = (nread + 1) % WRAP
  /\ UNCHANGED <<data, nwrite>>

ReadByte(p) ==
  /\ pc[p] = "r_copy" /\ i[p] < n[p] /\ ~Empty
  /\ TakeByte
  /\ i' = [i EXCEPT ![p] = @ + 1]
  /\ UNCHANGED <<lock, ends, pc, n, killed, stranded>>

ReadReturn(p) ==
  /\ pc[p] = "r_copy" /\ (i[p] = n[p] \/ Empty)
  /\ Return(p)
  /\ pc' = WakeWriters(Goto(p, "idle"))
  /\ UNCHANGED <<ring, ends, killed, stranded>>

\* copyout fails after the byte has left the ring: the byte is lost.
ReadFault(p) ==
  /\ pc[p] = "r_copy" /\ i[p] < n[p] /\ ~Empty
  /\ TakeByte
  /\ Return(p)
  /\ pc' = WakeWriters(Goto(p, "idle"))
  /\ UNCHANGED <<ends, killed, stranded>>

-----------------------------------------------------------------------------
(* close() or exit(): fileclose drops a reference, the last one runs         *)
(* pipeclose; kill() sets the flag and makes a sleeper runnable.            *)
CloseRead(p) ==
  /\ pc[p] = "idle" /\ p \in rfd
  /\ rfd' = rfd \ {p}
  /\ pc' = Goto(p, IF rfd = {p} THEN "close_read" ELSE "idle")
  /\ UNCHANGED <<lock, ring, readopen, writeopen, freed, wfd, n, i, killed, stranded>>

CloseWrite(p) ==
  /\ pc[p] = "idle" /\ p \in wfd
  /\ wfd' = wfd \ {p}
  /\ pc' = Goto(p, IF wfd = {p} THEN "close_write" ELSE "idle")
  /\ UNCHANGED <<lock, ring, readopen, writeopen, freed, rfd, n, i, killed, stranded>>

\* Mutants: frees the page when the first end is closed; wakes nobody.
PipeCloseFreesEarly(p) ==
  /\ pc[p] \in ClosePC /\ lock = None
  /\ LET writable == pc[p] = "close_write" IN
       /\ readopen' = (readopen /\ writable)
       /\ writeopen' = (writeopen /\ ~writable)
       /\ pc' = IF writable THEN WakeReaders(Goto(p, "idle"))
                            ELSE WakeWriters(Goto(p, "idle"))
       /\ stranded' = (stranded /\ ~writable)
  /\ freed' = TRUE
  /\ UNCHANGED <<lock, ring, rfd, wfd, n, i, killed>>
PipeCloseSilently(p) ==
  /\ pc[p] \in ClosePC /\ lock = None
  /\ LET writable == pc[p] = "close_write" IN
       /\ readopen' = (readopen /\ writable)
       /\ writeopen' = (writeopen /\ ~writable)
  /\ pc' = Goto(p, "idle")
  /\ freed' = (freed \/ (~readopen' /\ ~writeopen'))
  /\ UNCHANGED <<lock, ring, rfd, wfd, n, i, killed, stranded>>

PipeClose(p) ==
  /\ pc[p] \in ClosePC /\ lock = None
  /\ LET writable == pc[p] = "close_write" IN
       /\ readopen' = (readopen /\ writable)
       /\ writeopen' = (writeopen /\ ~writable)
       /\ pc' = IF writable THEN WakeReaders(Goto(p, "idle"))
                            ELSE WakeWriters(Goto(p, "idle"))
       /\ stranded' = (stranded /\ ~writable)
  /\ freed' = (freed \/ (~readopen' /\ ~writeopen'))
  /\ UNCHANGED <<lock, ring, rfd, wfd, n, i, killed>>

Kill(p) ==
  /\ p \in Killable /\ ~killed[p]
  /\ killed' = [killed EXCEPT ![p] = TRUE]
  /\ pc' = IF pc[p] = "w_sleep" THEN Goto(p, "w_acquire")
           ELSE IF pc[p] = "r_sleep" THEN Goto(p, "r_acquire") ELSE pc
  /\ UNCHANGED <<lock, ring, ends, n, i, stranded>>

-----------------------------------------------------------------------------
PipeWrite(p) ==
  \/ WriteAbort(p)
  \/ WriteCheck(p)
  \/ WriteFull(p)
  \/ \E c \in Byte : WriteByte(p, c)
  \/ WriteReturn(p)

PipeRead(p) ==
  \/ ReadAbort(p)
  \/ ReadCheck(p)
  \/ ReadSleep(p)
  \/ ReadEnter(p)
  \/ ReadByte(p)
  \/ ReadReturn(p)
  \/ ReadFault(p)

FileClose(p) == CloseRead(p) \/ CloseWrite(p)

Next ==
  \E p \in Proc :
    \/ \E k \in 0..MaxN : WriteCall(p, k) \/ ReadCall(p, k)
    \/ Acquire(p)
    \/ PipeWrite(p)
    \/ PipeRead(p)
    \/ FileClose(p)
    \/ PipeClose(p)
    \/ Kill(p)

Spec == Init /\ [][Next]_vars

(***************************************************************************)
(* Fairness: a process inside the kernel keeps running, the spin lock does   *)
(* not starve it, and every process sooner or later closes its ends (it      *)
(* exits).                                                                  *)
(***************************************************************************)
Fairness ==
  \A p \in Proc :
    /\ WF_vars(PipeWrite(p) \/ PipeRead(p))
    /\ SF_vars(Acquire(p) \/ PipeClose(p))
    /\ SF_vars(FileClose(p))

LiveSpec == Spec /\ Fairness

-----------------------------------------------------------------------------
(* Properties.                                                              *)

\* The bytes in the ring, oldest first.
Queue ==
  [k \in 1..((nwrite - nread) % WRAP) |-> data[(nread + k - 1) % PIPESIZE]]

\* The ring with its wrapping counters is a queue of at most PIPESIZE bytes:
\* pipewrite appends, piperead removes the oldest, nothing else touches it,
\* and no byte goes in once the read end is closed.
Fifo == INSTANCE FifoPipe
          WITH queue <- Queue, Capacity <- PIPESIZE, Nothing <- None
FifoSpec == Fifo!FSpec

\* Only the holder of pi->lock is between acquire and release: the two loops
\* of pipe.c never interleave with each other.
LockHeld == \A p \in Proc : pc[p] \in Locked <=> lock = p

\* Nobody is inside piperead, pipewrite or pipeclose once pipeclose has freed
\* the pipe, so the freed page is never touched.
NoUseAfterFree == freed => \A p \in Proc : pc[p] = "idle"

\* With the lock free, a sleeping reader has nothing to wait for but bytes
\* that are not there (unless a writer that was killed in the middle of its
\* loop left some behind), and a sleeping writer waits for room.
NoLostWakeup ==
  lock = None =>
    \A p \in Proc :
      /\ pc[p] = "r_sleep" => writeopen /\ (Empty \/ stranded)
      /\ pc[p] = "w_sleep" => readopen /\ Full

\* A read that returns 0 bytes of a positive count means end of file: it
\* happens only when the ring is empty and the write end is closed.
ReadEndsClosed ==
  \A p \in Proc :
    (pc[p] = "r_copy" /\ pc'[p] = "idle" /\ i[p] = 0 /\ n[p] > 0 /\ nread' = nread)
       => Empty /\ ~writeopen
EofMeansClosed == [][ReadEndsClosed]_vars

\* If every process that is not in a call sooner or later closes its ends, every
\* read() and every write() returns, also one that goes to sleep although it has
\* been killed after its test of the flag.
CallsReturn == \A p \in Proc : pc[p] \in WritePC \cup ReadPC ~> pc[p] = "idle"
=============================================================================
