-------------------------------- MODULE Files --------------------------------
(***************************************************************************)
(* Open files and the bytes behind them: the descriptors of the processes,   *)
(* the file table of kernel/file.c, and blocks, bmap(), itrunc(), readi()    *)
(* and writei() of kernel/fs.c.                                              *)
(*                                                                          *)
(* A step is what a process does under one inode lock, which for a write is  *)
(* one chunk and one transaction.  A call of the log is atomic and durable   *)
(* (module AtomicDisk), so a crash keeps the blocks that were logged and     *)
(* loses the rest.  A copyin that fails changes a buffer that is not logged: *)
(* the cache has its bytes until the buffer is recycled.  Names are in       *)
(* module Directory: here a file has its name or has lost it.                *)
(***************************************************************************)
EXTENDS Integers, Sequences, FiniteSets, FiniteSetsExt

CONSTANTS
  Procs,
  NFILE, NOFILE,     \* open files of the system, descriptors of a process
  Inodes, NBlocks,   \* files, and data blocks on the disk
  BSIZE, NDIRECT, NINDIRECT,
  MaxChunk,          \* bytes that filewrite() puts into one transaction
  Text,              \* the bytes that programs write
  Counts,            \* the counts that programs ask for
  MaxCalls,          \* bound: calls other than close and exit
  Modes,             \* the ways in which programs open files
  Width              \* unsigned arithmetic is modulo Width

Files == 1..NFILE
Fds == 0..NOFILE - 1
Blocks == 1..NBlocks
MAXFILE == NDIRECT + NINDIRECT
Mode == [readable : BOOLEAN, writable : BOOLEAN, trunc : BOOLEAN, append : BOOLEAN]

FilesAssumption ==
  /\ {NFILE, NOFILE, NBlocks, BSIZE, NDIRECT, NINDIRECT, MaxChunk} \subseteq Nat \ {0}
  /\ Inodes \subseteq Nat \ {0} /\ NINDIRECT <= BSIZE
  /\ IsFiniteSet(Inodes) /\ IsFiniteSet(Procs)
  /\ Text \in Seq(Nat) /\ \A n \in Counts : n \in Int /\ n <= Len(Text)
  /\ Modes \subseteq Mode
  /\ Width \in Nat /\ Width > 2 * MAXFILE * BSIZE

VARIABLES
  disk,   \* the bitmap, the blocks as bread() returns them, and the inodes
  home,   \* the blocks as the log has made them durable
  iref,   \* ip->ref
  file,   \* ftable.file
  ofile,  \* the descriptors of each process, 0 for none
  pipe,   \* which ends of the pipe are open
  loc,    \* what each process is doing
  calls   \* calls begun so far: a bound

vars == <<disk, home, iref, file, ofile, pipe, loc, calls>>

NoFile == [ref |-> 0, type |-> "none", ip |-> 0, off |-> 0,
           readable |-> FALSE, writable |-> FALSE]
NoInode == [type |-> "free", nlink |-> 0, size |-> 0, addrs |-> [n \in 0..NDIRECT |-> 0]]
Idle == [pc |-> "idle"]
Dead == [pc |-> "dead"]

Init ==
  /\ disk = [bitmap |-> {}, data |-> [b \in Blocks |-> [k \in 0..BSIZE - 1 |-> 0]],
             ino |-> [i \in Inodes |-> NoInode]]
  /\ home = disk.data
  /\ iref = [i \in Inodes |-> 0]
  /\ file = [f \in Files |-> NoFile]
  /\ ofile = [p \in Procs |-> [d \in Fds |-> 0]]
  /\ pipe = {}
  /\ calls = 0
  /\ \E p \in Procs : loc = [q \in Procs |-> IF q = p THEN Idle ELSE Dead]

-----------------------------------------------------------------------------
(* Blocks: every operator maps a disk to a disk and a result.               *)


\* The first free block, zeroed; or 0.
Balloc(D) ==
  IF Blocks \subseteq D.bitmap THEN [disk |-> D, addr |-> 0]
  ELSE LET b == Min(Blocks \ D.bitmap) IN
         [disk |-> [D EXCEPT !.bitmap = @ \cup {b}, !.data[b] = [k \in DOMAIN @ |-> 0]],
          addr |-> b]

Ensure(D, addr) == IF addr # 0 THEN [disk |-> D, addr |-> addr] ELSE Balloc(D)

\* The address of block bn of inode i, allocated when there is none.
Bmap(D, i, bn) ==
  IF bn < NDIRECT
  THEN LET r == Ensure(D, D.ino[i].addrs[bn]) IN
         [r EXCEPT !.disk.ino[i].addrs[bn] = r.addr]
  ELSE LET r == Ensure(D, D.ino[i].addrs[NDIRECT])
           D1 == [r.disk EXCEPT !.ino[i].addrs[NDIRECT] = r.addr]
           s == Ensure(D1, D1.data[r.addr][bn - NDIRECT]) IN
         IF r.addr = 0 THEN r
         ELSE [s EXCEPT !.disk.data[r.addr][bn - NDIRECT] = s.addr]

\* The data blocks of an inode, and all its blocks, as a sequence of addresses.
Slot(D, i, bn) ==
  LET a == D.ino[i].addrs IN
    IF bn < NDIRECT THEN a[bn]
    ELSE IF a[NDIRECT] = 0 THEN 0 ELSE D.data[a[NDIRECT]][bn - NDIRECT]
Owned(D, i) == ({Slot(D, i, bn) : bn \in 0..MAXFILE - 1} \cup {D.ino[i].addrs[NDIRECT]}) \ {0}

\* Mutant: the indirect block itself is not freed.
ItruncKeepsIndirect(D, i) ==
  [D EXCEPT !.bitmap = @ \ (Owned(D, i) \ {D.ino[i].addrs[NDIRECT]}),
            !.ino[i].addrs = NoInode.addrs, !.ino[i].size = 0]
Itrunc(D, i) ==
  [D EXCEPT !.bitmap = @ \ Owned(D, i),
            !.ino[i].addrs = NoInode.addrs, !.ino[i].size = 0]

\* How much of the n bytes at off lies in the block of off.
\* Mutant: the rest of the call, whatever the block holds of it.
PieceAligned(off, n) == IF n < BSIZE THEN n ELSE BSIZE
Piece(off, n) == IF n < BSIZE - (off % BSIZE) THEN n ELSE BSIZE - (off % BSIZE)

\* What readi() copies out, n being unsigned.
Readi(i, off, n) ==
  LET size == disk.ino[i].size
      end == (off + n) % Width
      m == IF off > size \/ end < off THEN 0 ELSE IF end > size THEN size - off ELSE n
  IN [k \in 1..m |-> disk.data[Slot(disk, i, (off + k - 1) \div BSIZE)][(off + k - 1) % BSIZE]]

\* One turn of writei()'s loop; copyin fails after good bytes of the call, which
\* are then in the block and do not count.
WritePiece(st, i, off, src, good) ==
  LET at == off + st.tot
      m == Piece(at, Len(src) - st.tot)
      r == Bmap(st.disk, i, at \div BSIZE)
      put == IF st.tot + m <= good THEN m ELSE good - st.tot
      data == [k \in 0..BSIZE - 1 |->
                 IF k - (at % BSIZE) \in 0..put - 1 THEN src[st.tot + k - (at % BSIZE) + 1]
                 ELSE r.disk.data[r.addr][k]]
  IN IF r.addr = 0 THEN [st EXCEPT !.disk = r.disk, !.stop = TRUE]
     ELSE [disk |-> [r.disk EXCEPT !.data[r.addr] = data],
           tot |-> IF put = m THEN st.tot + m ELSE st.tot, stop |-> put # m]

\* The disk after writei(), and what it returns.
Writei(i, off, src, good) ==
  LET Loop[j \in 0..Len(src)] ==
        IF j = 0 THEN [disk |-> disk, tot |-> 0, stop |-> FALSE]
        ELSE LET st == Loop[j - 1] IN
               IF st.stop \/ st.tot = Len(src) THEN st ELSE WritePiece(st, i, off, src, good)
      end == Loop[Len(src)]
      size == end.disk.ino[i].size
  IN IF off > disk.ino[i].size \/ off + Len(src) > MAXFILE * BSIZE
     THEN [disk |-> disk, r |-> -1]
     ELSE [disk |-> [end.disk EXCEPT !.ino[i].size =
                       IF off + end.tot > size THEN off + end.tot ELSE size],
           r |-> end.tot]

\* The blocks that a writei() that made D of the disk has logged, when it counts
\* the bytes up to end: those it allocated, the indirect block, and the bytes'.
LoggedBy(D, i, off, end) ==
  (D.bitmap \ disk.bitmap) \cup {D.ino[i].addrs[NDIRECT]}
    \cup {Slot(D, i, k \div BSIZE) : k \in off..end - 1}

\* The durable blocks after w, the outcome of a writei() of n bytes.  The block of
\* a copy that failed is among them when it was in the transaction anyway.
Logged(w, i, off, n, absorbed) ==
  LET end == off + IF absorbed /\ w.r < n THEN w.r + 1 ELSE w.r IN
    [b \in Blocks |-> IF b \in LoggedBy(w.disk, i, off, end) THEN w.disk.data[b] ELSE home[b]]

-----------------------------------------------------------------------------
(* open(), unlink() and iput().                                             *)
At(p, l) == loc[p].pc = l
Call(p) == At(p, "idle") /\ calls < MaxCalls /\ calls' = calls + 1
Go(p, r) == loc' = [loc EXCEPT ![p] = r]
PutLater(p, i) == Go(p, [pc |-> "iput", ip |-> i])

\* namei() finds the file, or create() makes it.
Lookup(p, i, mode) ==
  /\ Call(p) /\ disk.ino[i].nlink = 1
  /\ iref' = [iref EXCEPT ![i] = @ + 1]
  /\ Go(p, [pc |-> "open", ip |-> i, mode |-> mode])
  /\ UNCHANGED <<disk, home, file, ofile, pipe>>

Create(p, i, mode) ==
  /\ Call(p) /\ disk.ino[i].type = "free" /\ iref[i] = 0
  /\ disk' = [disk EXCEPT !.ino[i].type = "file", !.ino[i].nlink = 1]
  /\ iref' = [iref EXCEPT ![i] = 1]
  /\ Go(p, [pc |-> "open", ip |-> i, mode |-> mode])
  /\ UNCHANGED <<home, file, ofile, pipe>>

FreeFiles == {f \in Files : file[f].ref = 0}
FreeFds(p) == {d \in Fds : ofile[p][d] = 0}

OpenFile(p) ==
  LET i == loc[p].ip
      m == loc[p].mode
      f == Min(FreeFiles) IN
    /\ At(p, "open") /\ FreeFiles # {} /\ FreeFds(p) # {}
    /\ ofile' = [ofile EXCEPT ![p][Min(FreeFds(p))] = f]
    /\ file' = [file EXCEPT ![f] =
                  [ref |-> 1, type |-> "inode", ip |-> i,
                   off |-> IF m.append THEN disk.ino[i].size ELSE 0,
                   readable |-> m.readable, writable |-> m.writable]]
    /\ disk' = IF m.trunc THEN Itrunc(disk, i) ELSE disk
    /\ Go(p, Idle)
    /\ UNCHANGED <<home, iref, pipe, calls>>

\* fileclose(), the effect on the table: f as its last user leaves it.
\* Mutant: the type of the file that was closed stays.
DroppedKeepsType(f) == IF file[f].ref > 1 THEN [file[f] EXCEPT !.ref = @ - 1]
                       ELSE [file[f] EXCEPT !.ref = 0]
Dropped(f) == IF file[f].ref > 1 THEN [file[f] EXCEPT !.ref = @ - 1]
              ELSE [file[f] EXCEPT !.ref = 0, !.type = "none"]

\* No entry, or no descriptor: the entry that was taken is closed again, with
\* the type that its last close left there.
OpenNone(p) ==
  LET f == Min(FreeFiles)
      again == FreeFiles # {} /\ file[f].type = "inode" IN
    /\ At(p, "open") /\ (FreeFiles = {} \/ FreeFds(p) = {})
    /\ iref' = IF again THEN [iref EXCEPT ![file[f].ip] = @ - 1] ELSE iref
    /\ PutLater(p, loc[p].ip)
    /\ UNCHANGED <<disk, home, file, ofile, pipe, calls>>

\* The name goes; unlink() itself holds a reference until its iput().
Unlink(p, i) ==
  /\ Call(p) /\ disk.ino[i].nlink = 1
  /\ disk' = [disk EXCEPT !.ino[i].nlink = 0]
  /\ iref' = [iref EXCEPT ![i] = @ + 1]
  /\ PutLater(p, i)
  /\ UNCHANGED <<home, file, ofile, pipe>>

Iput(p) ==
  LET i == loc[p].ip IN
    /\ At(p, "iput")
    /\ disk' = IF iref[i] = 1 /\ disk.ino[i].nlink = 0
               THEN [Itrunc(disk, i) EXCEPT !.ino[i].type = "free"] ELSE disk
    /\ iref' = [iref EXCEPT ![i] = @ - 1]
    /\ Go(p, IF "next" \in DOMAIN loc[p] THEN loc[p].next ELSE Idle)
    /\ UNCHANGED <<home, file, ofile, pipe, calls>>

-----------------------------------------------------------------------------
(* The calls on descriptors.                                                *)

\* fileread(): nothing changes but the position.
Read(p, d, n) ==
  LET f == ofile[p][d] IN
    /\ Call(p) /\ f # 0 /\ file[f].type = "inode" /\ file[f].readable
    /\ file' = [file EXCEPT ![f].off =
                  @ + Len(Readi(file[f].ip, file[f].off, n % Width))]
    /\ UNCHANGED <<disk, home, iref, ofile, pipe, loc>>

\* filewrite(): from byte i of the text, up to byte n.
WriteStart(p, d, n) ==
  LET f == ofile[p][d] IN
    /\ Call(p) /\ f # 0 /\ n > 0
    /\ file[f].type = "inode" /\ file[f].writable
    /\ \E addr \in 0..Len(Text) - n :
         Go(p, [pc |-> "write", f |-> f, i |-> addr, n |-> addr + n])
    /\ UNCHANGED <<disk, home, iref, file, ofile, pipe>>

\* Mutant: the position moves when the whole write is done.
WriteChunkKeepsOff(p) ==
  LET L == loc[p]
      n1 == Min({L.n - L.i, MaxChunk})
      w == Writei(file[L.f].ip, file[L.f].off, SubSeq(Text, L.i + 1, L.i + n1), n1)
      more == w.r = n1 /\ L.i + n1 < L.n IN
    /\ At(p, "write")
    /\ disk' = w.disk
    /\ home' = Logged(w, file[L.f].ip, file[L.f].off, n1, FALSE)
    /\ file' = IF more THEN file ELSE [file EXCEPT ![L.f].off = @ + Max({w.r, 0})]
    /\ Go(p, IF more THEN [L EXCEPT !.i = @ + n1] ELSE Idle)
    /\ UNCHANGED <<iref, ofile, pipe, calls>>

\* One chunk of filewrite().  It ends the call when it is short.
WriteChunk(p) ==
  LET L == loc[p]
      n1 == Min({L.n - L.i, MaxChunk})
      src == SubSeq(Text, L.i + 1, L.i + n1) IN
    /\ At(p, "write")
    /\ \E good \in 0..n1, absorbed \in BOOLEAN :
         LET w == Writei(file[L.f].ip, file[L.f].off, src, good) IN
           /\ disk' = w.disk
           /\ home' = Logged(w, file[L.f].ip, file[L.f].off, n1, absorbed)
           /\ file' = [file EXCEPT ![L.f].off = @ + Max({w.r, 0})]
           /\ Go(p, IF w.r = n1 /\ L.i + n1 < L.n THEN [L EXCEPT !.i = @ + n1] ELSE Idle)
    /\ UNCHANGED <<iref, ofile, pipe, calls>>

Dup(p, d) ==
  LET f == ofile[p][d] IN
    /\ Call(p) /\ f # 0 /\ FreeFds(p) # {}
    /\ ofile' = [ofile EXCEPT ![p][Min(FreeFds(p))] = f]
    /\ file' = [file EXCEPT ![f].ref = @ + 1]
    /\ UNCHANGED <<disk, home, iref, pipe, loc>>

\* p gives up descriptor d and goes on at next: the last close of a pipe's
\* end closes that end, and of an inode puts it in a transaction of its own.
CloseFd(p, d, next) ==
  LET f == ofile[p][d] IN
    /\ f # 0
    /\ ofile' = [ofile EXCEPT ![p][d] = 0]
    /\ file' = [file EXCEPT ![f] = Dropped(f)]
    /\ pipe' = IF file[f].ref = 1 /\ file[f].type = "pipe" THEN pipe \ {file[f].writable} ELSE pipe
    /\ Go(p, IF file[f].ref = 1 /\ file[f].type = "inode"
             THEN [pc |-> "iput", ip |-> file[f].ip, next |-> next] ELSE next)
    /\ UNCHANGED <<disk, home, iref, calls>>

Close(p, d) == At(p, "idle") /\ CloseFd(p, d, Idle)

\* Mutant: a file counts once, however many descriptors the parent has on it.
ForkOnce(p, q) ==
  LET Used(f) == IF \E d \in Fds : ofile[p][d] = f THEN 1 ELSE 0 IN
    /\ Call(p) /\ At(q, "dead")
    /\ ofile' = [ofile EXCEPT ![q] = ofile[p]]
    /\ file' = [f \in Files |-> [file[f] EXCEPT !.ref = @ + Used(f)]]
    /\ loc' = [loc EXCEPT ![q] = Idle]
    /\ UNCHANGED <<disk, home, iref, pipe>>

\* fork(): the child has its parent's open files.
Fork(p, q) ==
  LET Used(f) == Cardinality({d \in Fds : ofile[p][d] = f}) IN
    /\ Call(p) /\ At(q, "dead")
    /\ ofile' = [ofile EXCEPT ![q] = ofile[p]]
    /\ file' = [f \in Files |-> [file[f] EXCEPT !.ref = @ + Used(f)]]
    /\ loc' = [loc EXCEPT ![q] = Idle]
    /\ UNCHANGED <<disk, home, iref, pipe>>

\* exit(): all files, one after the other.
Exit(p) ==
  LET open == {d \in Fds : ofile[p][d] # 0} IN
    /\ At(p, "idle") \/ At(p, "exit")
    /\ IF open = {} THEN Go(p, Dead) /\ UNCHANGED <<disk, home, iref, file, ofile, pipe, calls>>
       ELSE CloseFd(p, Min(open), [pc |-> "exit"])

\* pipe(): two entries of the table and two descriptors.  When there is only
\* one descriptor, it is taken back and both ends are closed: nothing remains.
Pipe(p) ==
  LET r == Min(FreeFiles)
      w == Min(FreeFiles \ {r})
      d == Min(FreeFds(p)) IN
    /\ Call(p) /\ pipe = {}
    /\ Cardinality(FreeFiles) >= 2 /\ Cardinality(FreeFds(p)) >= 2
    /\ pipe' = {TRUE, FALSE}
    /\ file' = [file EXCEPT
         ![r] = [NoFile EXCEPT !.ref = 1, !.type = "pipe", !.readable = TRUE],
         ![w] = [NoFile EXCEPT !.ref = 1, !.type = "pipe", !.writable = TRUE]]
    /\ ofile' = [ofile EXCEPT ![p][d] = r, ![p][Min(FreeFds(p) \ {d})] = w]
    /\ UNCHANGED <<disk, home, iref, loc>>

\* The buffer of b is recycled: the next bread() finds what was logged.
Evict(b) ==
  /\ home[b] # disk.data[b]
  /\ disk' = [disk EXCEPT !.data[b] = home[b]]
  /\ UNCHANGED <<home, iref, file, ofile, pipe, loc, calls>>

\* The machine stops and starts again, between two transactions.
Crash ==
  /\ disk' = [disk EXCEPT !.data = home]
  /\ iref' = [i \in Inodes |-> 0]
  /\ file' = [f \in Files |-> NoFile]
  /\ ofile' = [p \in Procs |-> [d \in Fds |-> 0]]
  /\ pipe' = {}
  /\ \E p \in Procs : loc' = [q \in Procs |-> IF q = p THEN Idle ELSE Dead]
  /\ UNCHANGED <<home, calls>>

Next ==
  \/ \E p \in Procs :
       \/ \E i \in Inodes, m \in Modes : Lookup(p, i, m) \/ Create(p, i, m)
       \/ \E i \in Inodes : Unlink(p, i)
       \/ OpenFile(p) \/ OpenNone(p) \/ Iput(p)
       \/ \E d \in Fds :
            \/ \E n \in Counts : Read(p, d, n) \/ WriteStart(p, d, n)
            \/ Dup(p, d) \/ Close(p, d)
       \/ WriteChunk(p)
       \/ \E q \in Procs : Fork(p, q)
       \/ Exit(p) \/ Pipe(p)
  \/ \E b \in Blocks : Evict(b)
  \/ Crash

Spec == Init /\ [][Next]_vars

-----------------------------------------------------------------------------
TypeOK ==
  /\ disk.bitmap \subseteq Blocks
  /\ \A i \in Inodes : disk.ino[i].size \in 0..MAXFILE * BSIZE
  /\ iref \in [Inodes -> Nat]
  /\ \A f \in Files : file[f].ref \in Nat /\ file[f].type \in {"none", "inode", "pipe"}
  /\ ofile \in [Procs -> [Fds -> Files \cup {0}]]

\* A reference for every descriptor, over dup, fork, close and exit, and an
\* end of a pipe is open exactly as long as a descriptor is.
RefsExact ==
  /\ \A f \in Files : file[f].ref = Cardinality({x \in Procs \X Fds : ofile[x[1]][x[2]] = f})
  /\ pipe = {file[f].writable : f \in {g \in Files : file[g].ref > 0 /\ file[g].type = "pipe"}}

\* An inode is referenced by the open files on it and the calls that have not
\* put it yet: no entry puts it twice, also when a half-made one is closed.
InodeRefsExact == \A i \in Inodes :
  iref[i] = Cardinality({f \in Files : file[f].ref > 0 /\ file[f].type = "inode" /\ file[f].ip = i})
            + Cardinality({p \in Procs : loc[p].pc \in {"open", "iput"} /\ loc[p].ip = i})

\* A block of the bitmap belongs to one place of one inode, and every block of
\* an inode is in the bitmap: nothing is lost, shared, or freed twice, at any
\* full disk, failed copy, or crash.
BlocksExact ==
  LET D == disk
      Places(b) == {x \in Inodes \X (0..MAXFILE - 1) : Slot(D, x[1], x[2]) = b}
      Indirect(b) == {i \in Inodes : D.ino[i].addrs[NDIRECT] = b}
  IN \A b \in Blocks :
       Cardinality(Places(b)) + Cardinality(Indirect(b)) = IF b \in D.bitmap THEN 1 ELSE 0

\* Below its size a file has all its blocks, so that readi(), which is in no
\* transaction, never makes bmap() allocate one.
NoHoles == \A i \in Inodes : \A k \in 0..disk.ino[i].size - 1 :
  Slot(disk, i, k \div BSIZE) # 0

Content(i) == Readi(i, 0, disk.ino[i].size)
Kept(i) == [k \in 1..disk.ino[i].size |->
              home[Slot(disk, i, (k - 1) \div BSIZE)][(k - 1) % BSIZE]]

\* The file layer implements ByteFiles.
Bytes == INSTANCE ByteFiles WITH
  MaxSize <- MAXFILE * BSIZE,
  content <- [i \in Inodes |-> Content(i)],
  kept <- [i \in Inodes |-> Kept(i)],
  open <- [f \in Files |-> IF file[f].ref > 0 /\ file[f].type = "inode"
                           THEN [ip |-> file[f].ip, off |-> file[f].off]
                           ELSE [ip |-> 0, off |-> 0]]
ByteSpec == Bytes!Spec
=============================================================================
