------------------------------ MODULE Directory ------------------------------
(***************************************************************************)
(* Names, links and inode references: the inode table and the directories    *)
(* of kernel/fs.c, under the system calls of kernel/sysfile.c, made by        *)
(* several processes at once.                                               *)
(*                                                                          *)
(* A step is what a process does under one inode lock with at most one       *)
(* change of a reference count; a lock that is kept over several steps is    *)
(* in `lock'.  Every call is one transaction of the log, and the log makes   *)
(* durable only states in which no call is in progress (module AtomicDisk).  *)
(*                                                                          *)
(* The table of in-memory inodes is indexed by inode number and has room     *)
(* for all of them.  The bytes of a file are in module Files.               *)
(***************************************************************************)
EXTENDS Integers, Sequences, FiniteSets

CONSTANTS
  Procs,
  NInodes,    \* inodes on the disk
  Names,      \* names of directory entries
  Calls,      \* the calls that programs make
  MaxLost     \* bound: references that getcwd loses

None == 0     \* no inode, and in lock no process
Inum == 1..NInodes
Root == 1
Dots == {".", ".."}
Kinds == {"open", "create", "mkdir", "mknod", "link", "unlink", "chdir"}
Path == [abs : BOOLEAN, elems : Seq(Names \cup Dots)]

ASSUME DirectoryAssumption ==
  /\ NInodes \in Nat \ {0} /\ MaxLost \in Nat
  /\ None \notin Procs /\ IsFiniteSet(Procs)
  /\ IsFiniteSet(Names) /\ Names \cap Dots = {}
  /\ Calls \subseteq [kind : Kinds, path : Path, new : Path, write : BOOLEAN]

VARIABLES
  disk,    \* struct dinode: type and nlink
  ents,    \* the entries of each directory
  ref,     \* ip->ref
  mem,     \* ip->valid, type, nlink: the copy in the table
  lock,    \* holder of ip->lock
  cwd, fd, \* each process: its current directory, and the file it has open
  loc,     \* each process: where it is and its local variables
  todo,    \* each process: inodes it gives to iput() before it goes on
  put,     \* each process: how far it is in iput()
  lost,    \* references to the root that nobody holds any more
  stray    \* history: inodes that the code has lost, or linked in a removed directory

fs == <<disk, ents, ref, mem, lock>>
vars == <<fs, cwd, fd, loc, todo, put, lost, stray>>

Types == {"free", "dir", "file", "dev"}
Dinode == [type : Types, nlink : Nat]
Idle == [pc |-> "idle", call |-> None, at |-> None, rest |-> <<>>, goal |-> "none",
         dp |-> None, ip |-> None, cur |-> None, last |-> None, up |-> None]

Init ==
  /\ disk = [i \in Inum |-> IF i = Root THEN [type |-> "dir", nlink |-> 1]
                            ELSE [type |-> "free", nlink |-> 0]]
  /\ ents = [i \in Inum |-> [n \in Names \cup Dots |->
                               IF i = Root /\ n \in Dots THEN Root ELSE None]]
  /\ ref = [i \in Inum |-> IF i = Root THEN Cardinality(Procs) ELSE 0]
  /\ mem = [i \in Inum |-> [valid |-> FALSE, type |-> "free", nlink |-> 0]]
  /\ lock = [i \in Inum |-> None]
  /\ cwd = [p \in Procs |-> Root]
  /\ fd = [p \in Procs |-> None]
  /\ loc = [p \in Procs |-> Idle]
  /\ todo = [p \in Procs |-> <<>>]
  /\ put = [p \in Procs |-> "test"]
  /\ lost = 0
  /\ stray = {}
 

-----------------------------------------------------------------------------
(* The inode table.                                                         *)

\* iget(): a new entry of the table is not valid.
Got(m, i) == IF ref[i] = 0 THEN [m EXCEPT ![i].valid = FALSE] ELSE m
Get(i, m) == ref' = [ref EXCEPT ![i] = @ + 1] /\ mem' = Got(m, i)

\* The copy that ilock() leaves in the table, and what it needs for that.
Copy(i) == IF mem[i].valid THEN mem[i]
           ELSE [valid |-> TRUE, type |-> disk[i].type, nlink |-> disk[i].nlink]
Loaded(i) == [mem EXCEPT ![i] = Copy(i)]
Lockable(i) == lock[i] = None /\ (mem[i].valid \/ disk[i].type # "free")

\* nlink changed by d, with its iupdate(); m is the table with the new copy.
Linked(i, d) == [mem EXCEPT ![i] = [Copy(i) EXCEPT !.nlink = @ + d]]
Updated(i, m) == disk' = [disk EXCEPT ![i] = [type |-> m[i].type, nlink |-> m[i].nlink]]
Nlink(i, d) == mem' = Linked(i, d) /\ Updated(i, Linked(i, d))

\* History: s is what becomes of a change in d, a directory without a name.
Strays(d, s) == stray' = IF Copy(d).nlink = 0 THEN stray \cup s ELSE stray

At(p, l) == loc[p].pc = l /\ todo[p] = <<>>
Put(p, s) == todo' = [todo EXCEPT ![p] = s]
Move(p, r) == loc' = [loc EXCEPT ![p] = r]
Done(p) == Move(p, Idle)

\* Mutant: frees an inode that another process has open.
LastPutIgnoresRefs(i) == mem[i].valid /\ mem[i].nlink = 0
LastPut(i) == ref[i] = 1 /\ mem[i].valid /\ mem[i].nlink = 0

PutStart(p, s) == todo[p] # <<>> /\ put[p] = s

\* iput() of an inode that stays.
PutDrop(p) ==
  LET i == Head(todo[p]) IN
    /\ PutStart(p, "test") /\ ~LastPut(i)
    /\ ref' = [ref EXCEPT ![i] = @ - 1]
    /\ Put(p, Tail(todo[p]))
    /\ UNCHANGED <<disk, ents, mem, lock, cwd, fd, loc, put, lost, stray>>

\* No links and no other references: take the lock under itable.lock, where
\* sleeping for it would be a panic.
PutTake(p) ==
  LET i == Head(todo[p]) IN
    /\ PutStart(p, "test") /\ LastPut(i)
    /\ lock[i] = None
    /\ lock' = [lock EXCEPT ![i] = p]
    /\ put' = [put EXCEPT ![p] = "trunc"]
    /\ UNCHANGED <<disk, ents, ref, mem, cwd, fd, loc, todo, lost, stray>>

\* itrunc, type = 0, iupdate.
PutTrunc(p) ==
  LET i == Head(todo[p]) IN
    /\ PutStart(p, "trunc")
    /\ ents' = [ents EXCEPT ![i] = [n \in DOMAIN @ |-> None]]
    /\ disk' = [disk EXCEPT ![i] = [type |-> "free", nlink |-> mem[i].nlink]]
    /\ mem' = [mem EXCEPT ![i].type = "free"]
    /\ put' = [put EXCEPT ![p] = "release"]
    /\ stray' = stray \ {i}
    /\ UNCHANGED <<ref, lock, cwd, fd, loc, todo, lost>>

\* Mutant: the entry keeps a valid copy of an inode that is no more.
PutReleaseValid(p) ==
  LET i == Head(todo[p]) IN
    /\ PutStart(p, "release")
    /\ lock' = [lock EXCEPT ![i] = None]
    /\ put' = [put EXCEPT ![p] = "drop"]
    /\ UNCHANGED <<disk, ents, ref, mem, cwd, fd, loc, todo, lost, stray>>

PutRelease(p) ==
  LET i == Head(todo[p]) IN
    /\ PutStart(p, "release")
    /\ mem' = [mem EXCEPT ![i].valid = FALSE]
    /\ lock' = [lock EXCEPT ![i] = None]
    /\ put' = [put EXCEPT ![p] = "drop"]
    /\ UNCHANGED <<disk, ents, ref, cwd, fd, loc, todo, lost, stray>>

\* Another process may have allocated the inode again meanwhile, and even
\* have given up its last link: nobody frees it then.
PutLast(p) ==
  LET i == Head(todo[p]) IN
    /\ PutStart(p, "drop")
    /\ ref' = [ref EXCEPT ![i] = @ - 1]
    /\ put' = [put EXCEPT ![p] = "test"]
    /\ Put(p, Tail(todo[p]))
    /\ stray' = IF LastPut(i) THEN stray \cup {i} ELSE stray
    /\ UNCHANGED <<disk, ents, mem, lock, cwd, fd, loc, lost>>

Iput(p) == PutDrop(p) \/ PutTake(p) \/ PutTrunc(p) \/ PutRelease(p) \/ PutLast(p)

-----------------------------------------------------------------------------
(* namex(): one directory at a time.                                        *)

\* The walks that stop at the parent of the last element.
Parent(goal) == goal \in {"create", "unlink", "link_dir"}
Goal(kind) ==
  CASE kind \in {"create", "mkdir", "mknod"} -> "create"
    [] kind = "link" -> "link_inc"
    [] OTHER -> kind

\* r, about to walk along path: from the root, or from the current directory.
Walking(p, r, path, goal) ==
  [r EXCEPT !.pc = "walk", !.at = IF path.abs THEN Root ELSE cwd[p],
            !.rest = path.elems, !.goal = goal]
First(p, path) == IF path.abs THEN Root ELSE cwd[p]

\* begin_op, and the start of the first walk.
Begin(p, c) ==
  /\ At(p, "idle")
  /\ Move(p, Walking(p, [Idle EXCEPT !.call = c], c.path, Goal(c.kind)))
  /\ Get(First(p, c.path), mem)
  /\ UNCHANGED <<disk, ents, lock, cwd, fd, todo, put, lost, stray>>

\* The walk returns 0, after iput(d).
WalkFails(p, d) ==
  /\ Put(p, <<d>>)
  /\ Move(p, IF loc[p].goal = "link_dir"
             THEN [loc[p] EXCEPT !.pc = "link_undo", !.at = None] ELSE Idle)

\* No element is left: the inode is found; but it has no parent.
WalkEnd(p) ==
  LET L == loc[p] IN
    /\ At(p, "walk") /\ L.rest = <<>>
    /\ IF Parent(L.goal) THEN WalkFails(p, L.at)
       ELSE /\ Move(p, [L EXCEPT !.pc = L.goal, !.ip = L.at, !.at = None])
            /\ UNCHANGED todo
    /\ UNCHANGED <<fs, cwd, fd, put, lost, stray>>

StopsHere(L) == Parent(L.goal) /\ Len(L.rest) = 1

\* Not a directory, or no such entry.
WalkMiss(p) ==
  LET L == loc[p] IN
    /\ At(p, "walk") /\ L.rest # <<>> /\ Lockable(L.at)
    /\ Copy(L.at).type = "dir" => ~StopsHere(L) /\ ents[L.at][Head(L.rest)] = None
    /\ mem' = Loaded(L.at)
    /\ WalkFails(p, L.at)
    /\ UNCHANGED <<disk, ents, ref, lock, cwd, fd, put, lost, stray>>

\* One level early; the name stays in rest.
WalkStop(p) ==
  LET L == loc[p] IN
    /\ At(p, "walk") /\ StopsHere(L) /\ Lockable(L.at) /\ Copy(L.at).type = "dir"
    /\ mem' = Loaded(L.at)
    /\ Move(p, [L EXCEPT !.pc = L.goal, !.dp = L.at, !.at = None])
    /\ UNCHANGED <<disk, ents, ref, lock, cwd, fd, todo, put, lost, stray>>

\* dirlookup() gets the next inode before this one is unlocked and put.
WalkDown(p) ==
  LET L == loc[p]
      next == ents[L.at][Head(L.rest)] IN
    /\ At(p, "walk") /\ L.rest # <<>> /\ ~StopsHere(L)
    /\ Lockable(L.at) /\ Copy(L.at).type = "dir" /\ next # None
    /\ Get(next, Loaded(L.at))
    /\ Put(p, <<L.at>>)
    /\ Move(p, [L EXCEPT !.at = next, !.rest = Tail(@)])
    /\ UNCHANGED <<disk, ents, lock, cwd, fd, put, lost, stray>>

Namex(p) == WalkEnd(p) \/ WalkMiss(p) \/ WalkStop(p) \/ WalkDown(p)

-----------------------------------------------------------------------------
(* open(), close() and the end of create().                                 *)

\* A new file descriptor for ip, or none is left and ip is put.  A device
\* whose number is out of range is not opened.
OpenInode(p, i) ==
  \/ /\ fd[p] = None
     /\ fd' = [fd EXCEPT ![p] = i] /\ UNCHANGED todo
  \/ /\ fd[p] # None \/ Copy(i).type = "dev"
     /\ Put(p, <<i>>) /\ UNCHANGED fd

Open(p) ==
  LET i == loc[p].ip IN
    /\ At(p, "open") /\ Lockable(i)
    /\ mem' = Loaded(i)
    /\ IF Copy(i).type = "dir" /\ loc[p].call.write
       THEN Put(p, <<i>>) /\ UNCHANGED fd
       ELSE OpenInode(p, i)
    /\ Done(p)
    /\ UNCHANGED <<disk, ents, ref, lock, cwd, put, lost, stray>>

\* create() found the name: only create() of a file takes what is there.
CreateFound(p) ==
  LET i == loc[p].ip IN
    /\ At(p, "c_found") /\ Lockable(i)
    /\ mem' = Loaded(i)
    /\ IF loc[p].call.kind = "create" /\ Copy(i).type \in {"file", "dev"}
       THEN OpenInode(p, i) ELSE Put(p, <<i>>) /\ UNCHANGED fd
    /\ Done(p)
    /\ UNCHANGED <<disk, ents, ref, lock, cwd, put, lost, stray>>

Close(p) ==
  /\ At(p, "idle") /\ fd[p] # None
  /\ Put(p, <<fd[p]>>)
  /\ fd' = [fd EXCEPT ![p] = None]
  /\ Done(p)
  /\ UNCHANGED <<fs, cwd, put, lost, stray>>

-----------------------------------------------------------------------------
(* create(): dp stays locked until the new inode is complete.               *)
TypeOf(kind) == CASE kind = "mkdir" -> "dir" [] kind = "mknod" -> "dev" [] OTHER -> "file"
Last(p) == loc[p].rest[Len(loc[p].rest)]

\* Mutant: the inode that was found is not referenced.
CreateLookupNoRef(p) ==
  LET d == loc[p].dp
      i == ents[d][Last(p)] IN
    /\ At(p, "create") /\ Lockable(d) /\ i # None
    /\ mem' = Loaded(d)
    /\ Put(p, <<d>>)
    /\ Move(p, [loc[p] EXCEPT !.pc = "c_found", !.ip = i, !.dp = None])
    /\ UNCHANGED <<disk, ents, ref, lock, cwd, fd, put, lost, stray>>

CreateLookup(p) ==
  LET d == loc[p].dp
      i == ents[d][Last(p)] IN
    /\ At(p, "create") /\ Lockable(d) /\ i # None
    /\ Get(i, Loaded(d))
    /\ Put(p, <<d>>)
    /\ Move(p, [loc[p] EXCEPT !.pc = "c_found", !.ip = i, !.dp = None])
    /\ UNCHANGED <<disk, ents, lock, cwd, fd, put, lost, stray>>

\* ialloc(): some inode whose type on the disk is 0.
CreateAlloc(p) ==
  LET d == loc[p].dp IN
    /\ At(p, "create") /\ Lockable(d) /\ ents[d][Last(p)] = None
    /\ \E i \in Inum :
         /\ disk[i].type = "free"
         /\ disk' = [disk EXCEPT ![i] = [type |-> TypeOf(loc[p].call.kind), nlink |-> 0]]
         /\ Get(i, Loaded(d))
         /\ lock' = [lock EXCEPT ![d] = p]
         /\ Move(p, [loc[p] EXCEPT !.pc = "c_init", !.ip = i])
    /\ UNCHANGED <<ents, cwd, fd, todo, put, lost, stray>>

CreateNone(p) ==
  LET d == loc[p].dp IN
    /\ At(p, "create") /\ Lockable(d) /\ ents[d][Last(p)] = None
    /\ \A i \in Inum : disk[i].type # "free"
    /\ mem' = Loaded(d)
    /\ Put(p, <<d>>)
    /\ Done(p)
    /\ UNCHANGED <<disk, ents, ref, lock, cwd, fd, put, lost, stray>>

\* Mutant: the new directory is its own parent.
DottedSelf(i, d) == [ents EXCEPT ![i]["."] = i, ![i][".."] = i]
Dotted(i, d) == [ents EXCEPT ![i]["."] = i, ![i][".."] = d]

\* The new inode has its entries and its name, and its parent one more link
\* if it is a directory.
CreateInit(p) ==
  LET d == loc[p].dp
      i == loc[p].ip
      isdir == loc[p].call.kind = "mkdir"
      pd == [Copy(d) EXCEPT !.nlink = IF isdir THEN @ + 1 ELSE @] IN
    /\ At(p, "c_init") /\ Lockable(i)
    /\ ents' = [IF isdir THEN Dotted(i, d) ELSE ents EXCEPT ![d][Last(p)] = i]
    /\ mem' = [mem EXCEPT ![i] = [Copy(i) EXCEPT !.nlink = 1], ![d] = pd]
    /\ disk' = [disk EXCEPT ![i] = [type |-> Copy(i).type, nlink |-> 1],
                            ![d] = [type |-> pd.type, nlink |-> pd.nlink]]
    /\ lock' = [lock EXCEPT ![d] = None, ![i] = p]
    /\ Put(p, <<d>>)
    /\ Move(p, [loc[p] EXCEPT !.pc = "c_return", !.dp = None])
    /\ Strays(d, {d, i})
    /\ UNCHANGED <<ref, cwd, fd, put, lost>>

\* Mutant: forgets to take the link back.
CreateFailKeepsLink(p) ==
  LET i == loc[p].ip IN
    /\ At(p, "c_init") /\ Lockable(i)
    /\ mem' = [mem EXCEPT ![i] = [Copy(i) EXCEPT !.nlink = 1]]
    /\ disk' = [disk EXCEPT ![i] = [type |-> Copy(i).type, nlink |-> 1]]
    /\ Put(p, <<i>>)
    /\ Move(p, [loc[p] EXCEPT !.pc = "bad", !.ip = None])
    /\ UNCHANGED <<ents, ref, lock, cwd, fd, put, lost, stray>>

\* A dirlink() finds no disk block for the entry: nlink goes back to 0, and
\* ip is put while dp is still locked.
CreateFail(p) ==
  LET i == loc[p].ip IN
    /\ At(p, "c_init") /\ Lockable(i)
    /\ mem' = [mem EXCEPT ![i] = [Copy(i) EXCEPT !.nlink = 0]]
    /\ disk' = [disk EXCEPT ![i] = [type |-> Copy(i).type, nlink |-> 0]]
    /\ Put(p, <<i>>)
    /\ Move(p, [loc[p] EXCEPT !.pc = "bad", !.ip = None])
    /\ UNCHANGED <<ents, ref, lock, cwd, fd, put, lost, stray>>

\* Mutant: puts the parent without unlocking it.
BadKeepsLock(p) ==
  LET d == loc[p].dp IN
    /\ At(p, "bad")
    /\ Put(p, <<d>>)
    /\ Done(p)
    /\ UNCHANGED <<fs, cwd, fd, put, lost, stray>>

\* iunlockput(dp) at the label bad.
Bad(p) ==
  LET d == loc[p].dp IN
    /\ At(p, "bad")
    /\ lock' = [lock EXCEPT ![d] = None]
    /\ Put(p, <<d>>)
    /\ Done(p)
    /\ UNCHANGED <<disk, ents, ref, mem, cwd, fd, put, lost, stray>>

\* open() goes on with the inode, mkdir() and mknod() put it.
CreateReturn(p) ==
  LET i == loc[p].ip IN
    /\ At(p, "c_return")
    /\ lock' = [lock EXCEPT ![i] = None]
    /\ IF loc[p].call.kind = "create" THEN OpenInode(p, i)
       ELSE Put(p, <<i>>) /\ UNCHANGED fd
    /\ Done(p)
    /\ UNCHANGED <<disk, ents, ref, mem, cwd, put, lost, stray>>

Create(p) ==
  \/ CreateLookup(p)
  \/ CreateAlloc(p)
  \/ CreateNone(p)
  \/ CreateInit(p)
  \/ CreateFail(p)
  \/ CreateReturn(p)
  \/ CreateFound(p)

-----------------------------------------------------------------------------
(* unlink(): the parent's lock, then the child's.                           *)
UnlinkLookup(p) ==
  LET d == loc[p].dp
      i == ents[d][Last(p)] IN
    /\ At(p, "unlink") /\ Lockable(d)
    /\ Last(p) \notin Dots /\ i # None
    /\ Get(i, Loaded(d))
    /\ lock' = [lock EXCEPT ![d] = p]
    /\ Move(p, [loc[p] EXCEPT !.pc = "u_child", !.ip = i])
    /\ UNCHANGED <<disk, ents, cwd, fd, todo, put, lost, stray>>

UnlinkMiss(p) ==
  LET d == loc[p].dp IN
    /\ At(p, "unlink") /\ Lockable(d)
    /\ Last(p) \in Dots \/ ents[d][Last(p)] = None
    /\ mem' = Loaded(d)
    /\ Put(p, <<d>>)
    /\ Done(p)
    /\ UNCHANGED <<disk, ents, ref, lock, cwd, fd, put, lost, stray>>

NonEmpty(i) == Copy(i).type = "dir" /\ \E n \in Names : ents[i][n] # None

UnlinkRefuse(p) ==
  LET i == loc[p].ip IN
    /\ At(p, "u_child") /\ Lockable(i) /\ Copy(i).nlink > 0 /\ NonEmpty(i)
    /\ mem' = Loaded(i)
    /\ Put(p, <<i>>)
    /\ Move(p, [loc[p] EXCEPT !.pc = "bad", !.ip = None])
    /\ UNCHANGED <<disk, ents, ref, lock, cwd, fd, put, lost, stray>>

\* Erase the entry; a directory gives up its parent's link.
UnlinkErase(p) ==
  LET d == loc[p].dp
      i == loc[p].ip
      links == Copy(d).nlink - (IF Copy(i).type = "dir" THEN 1 ELSE 0) IN
    /\ At(p, "u_child") /\ Lockable(i) /\ Copy(i).nlink > 0 /\ ~NonEmpty(i)
    /\ ents' = [ents EXCEPT ![d][Last(p)] = None]
    /\ mem' = [Loaded(i) EXCEPT ![d].nlink = links]
    /\ disk' = [disk EXCEPT ![d].nlink = links]
    /\ lock' = [lock EXCEPT ![d] = None, ![i] = p]
    /\ Put(p, <<d>>)
    /\ Move(p, [loc[p] EXCEPT !.pc = "u_dec", !.dp = None])
    /\ UNCHANGED <<ref, cwd, fd, put, lost, stray>>

UnlinkDec(p) ==
  LET i == loc[p].ip IN
    /\ At(p, "u_dec")
    /\ Nlink(i, -1)
    /\ lock' = [lock EXCEPT ![i] = None]
    /\ Put(p, <<i>>)
    /\ Done(p)
    /\ UNCHANGED <<ents, ref, cwd, fd, put, lost, stray>>

Unlink(p) ==
  UnlinkLookup(p) \/ UnlinkMiss(p) \/ UnlinkRefuse(p) \/ UnlinkErase(p) \/ UnlinkDec(p)

-----------------------------------------------------------------------------
(* link(): the link is counted before the entry is written.                 *)

\* Mutant: does not count the link.
LinkIncUncounted(p) ==
  LET i == loc[p].ip IN
    /\ At(p, "link_inc") /\ Lockable(i) /\ Copy(i).type # "dir"
    /\ Updated(i, Loaded(i))
    /\ Get(First(p, loc[p].call.new), Loaded(i))
    /\ Move(p, Walking(p, loc[p], loc[p].call.new, "link_dir"))
    /\ UNCHANGED <<ents, lock, cwd, fd, todo, put, lost, stray>>

\* The inode is unlocked before the second walk gets its first directory.
LinkInc(p) ==
  LET i == loc[p].ip IN
    /\ At(p, "link_inc") /\ Lockable(i) /\ Copy(i).type # "dir"
    /\ Updated(i, Linked(i, 1))
    /\ Get(First(p, loc[p].call.new), Linked(i, 1))
    /\ Move(p, Walking(p, loc[p], loc[p].call.new, "link_dir"))
    /\ UNCHANGED <<ents, lock, cwd, fd, todo, put, lost, stray>>

LinkRefuse(p) ==
  LET i == loc[p].ip IN
    /\ At(p, "link_inc") /\ Lockable(i) /\ Copy(i).type = "dir"
    /\ mem' = Loaded(i)
    /\ Put(p, <<i>>)
    /\ Done(p)
    /\ UNCHANGED <<disk, ents, ref, lock, cwd, fd, put, lost, stray>>

LinkWrite(p) ==
  LET d == loc[p].dp IN
    /\ At(p, "link_dir") /\ Lockable(d) /\ ents[d][Last(p)] = None
    /\ ents' = [ents EXCEPT ![d][Last(p)] = loc[p].ip]
    /\ mem' = Loaded(d)
    /\ Put(p, <<d, loc[p].ip>>)
    /\ Done(p)
    /\ Strays(d, {loc[p].ip})
    /\ UNCHANGED <<disk, ref, lock, cwd, fd, put, lost>>

\* The name exists (dirlink gets and puts its inode, which has a link and
\* so stays), or there is no disk block for the entry.
LinkBad(p) ==
  LET d == loc[p].dp IN
    /\ At(p, "link_dir") /\ Lockable(d)
    /\ mem' = Loaded(d)
    /\ Put(p, <<d>>)
    /\ Move(p, [loc[p] EXCEPT !.pc = "link_undo", !.dp = None])
    /\ UNCHANGED <<disk, ents, ref, lock, cwd, fd, put, lost, stray>>

LinkUndo(p) ==
  LET i == loc[p].ip IN
    /\ At(p, "link_undo") /\ Lockable(i)
    /\ Nlink(i, -1)
    /\ Put(p, <<i>>)
    /\ Done(p)
    /\ UNCHANGED <<ents, ref, lock, cwd, fd, put, lost, stray>>

Link(p) == LinkInc(p) \/ LinkRefuse(p) \/ LinkWrite(p) \/ LinkBad(p) \/ LinkUndo(p)

-----------------------------------------------------------------------------
(* chdir() and getcwd().                                                    *)
ChdirRefuse(p) ==
  LET i == loc[p].ip IN
    /\ At(p, "chdir") /\ Lockable(i) /\ Copy(i).type # "dir"
    /\ mem' = Loaded(i)
    /\ Put(p, <<i>>)
    /\ Done(p)
    /\ UNCHANGED <<disk, ents, ref, lock, cwd, fd, put, lost, stray>>

\* Mutant: chdir() keeps the reference to the old directory.
ChdirPutForgets(p) ==
  LET i == loc[p].ip IN
    /\ At(p, "chdir") /\ Lockable(i) /\ Copy(i).type = "dir"
    /\ mem' = Loaded(i)
    /\ cwd' = [cwd EXCEPT ![p] = None]
    /\ Move(p, [loc[p] EXCEPT !.pc = "chdir2"])
    /\ UNCHANGED <<disk, ents, ref, lock, fd, todo, put, lost, stray>>

\* The old directory is put; p->cwd still points to it.
ChdirPut(p) ==
  LET i == loc[p].ip IN
    /\ At(p, "chdir") /\ Lockable(i) /\ Copy(i).type = "dir"
    /\ mem' = Loaded(i)
    /\ Put(p, <<cwd[p]>>)
    /\ cwd' = [cwd EXCEPT ![p] = None]
    /\ Move(p, [loc[p] EXCEPT !.pc = "chdir2"])
    /\ UNCHANGED <<disk, ents, ref, lock, fd, put, lost, stray>>

ChdirSet(p) ==
  /\ At(p, "chdir2")
  /\ cwd' = [cwd EXCEPT ![p] = loc[p].ip]
  /\ Done(p)
  /\ UNCHANGED <<fs, fd, todo, put, lost, stray>>

Chdir(p) == ChdirRefuse(p) \/ ChdirPut(p) \/ ChdirSet(p)

\* Nothing to do in the root.  cur is icurrent, last is last_parent.
GetcwdStart(p) ==
  LET c == cwd[p] IN
    /\ At(p, "idle") /\ lost < MaxLost
    /\ Lockable(c) /\ c # Root
    /\ Get(c, Loaded(c))
    /\ Move(p, [Idle EXCEPT !.pc = "g_scan", !.at = c, !.cur = c, !.last = c])
    /\ UNCHANGED <<disk, ents, lock, cwd, fd, todo, put, lost, stray>>

\* diriname() reads the parent's number, and looks for the entry of cur.
GetcwdScan(p) ==
  LET L == loc[p] IN
    /\ At(p, "g_scan") /\ Lockable(L.at)
    /\ mem' = Loaded(L.at)
    /\ Put(p, <<L.at>>)
    /\ IF \E n \in Names \cup Dots : ents[L.at][n] = L.cur
       THEN Move(p, [L EXCEPT !.pc = "g_next", !.at = None, !.up = ents[L.at][".."]])
       ELSE Done(p)
    /\ UNCHANGED <<disk, ents, ref, lock, cwd, fd, put, lost, stray>>

\* The parent is got by its number after the child has been put; what is got
\* last, when the path is complete, is the root, and is never put.
GetcwdNext(p) ==
  LET L == loc[p] IN
    /\ At(p, "g_next")
    /\ Get(L.up, mem)
    /\ IF L.last = Root
       THEN Done(p) /\ lost' = lost + 1
       ELSE /\ Move(p, [L EXCEPT !.pc = "g_scan", !.at = L.up, !.cur = L.last, !.last = L.up])
            /\ UNCHANGED lost
    /\ UNCHANGED <<disk, ents, lock, cwd, fd, todo, put, stray>>

Getcwd(p) == GetcwdStart(p) \/ GetcwdScan(p) \/ GetcwdNext(p)

Next == \E p \in Procs :
  \/ \E c \in Calls : Begin(p, c)
  \/ Namex(p) \/ Iput(p)
  \/ Open(p) \/ Close(p)
  \/ Create(p) \/ Bad(p)
  \/ Unlink(p) \/ Link(p)
  \/ Chdir(p) \/ Getcwd(p)

Spec == Init /\ [][Next]_vars

-----------------------------------------------------------------------------
TypeOK ==
  /\ disk \in [Inum -> Dinode]
  /\ ents \in [Inum -> [Names \cup Dots -> Inum \cup {None}]]
  /\ ref \in [Inum -> Nat]
  /\ mem \in [Inum -> [valid : BOOLEAN, type : Types, nlink : Nat]]
  /\ lock \in [Inum -> Procs \cup {None}]
  /\ cwd \in [Procs -> Inum \cup {None}]
  /\ fd \in [Procs -> Inum \cup {None}]
  /\ put \in [Procs -> {"test", "trunc", "release", "drop"}]
  /\ lost \in 0..(MaxLost + Cardinality(Procs))
  /\ stray \subseteq Inum

\* The inode that p locks next, after what it still has to put.
Wants(p) ==
  LET L == loc[p] IN
    IF todo[p] # <<>> THEN None
    ELSE CASE L.pc = "walk" /\ L.rest # <<>> -> L.at
           [] L.pc = "g_scan" -> L.at
           [] L.pc \in {"create", "unlink", "link_dir"} -> L.dp
           [] L.pc \in {"open", "c_found", "c_init", "u_child", "link_inc", "link_undo", "chdir"} -> L.ip
           [] OTHER -> None

\* No panic of the inode layer is reached: ilock() never reads a free inode,
\* iput() takes the lock of the last reference without sleeping, unlink()
\* finds a link to take back, and only directories are searched.
NoPanic == \A p \in Procs :
  LET i == Wants(p) IN
    /\ i # None =>
         /\ ref[i] >= 1
         /\ lock[i] = None => Lockable(i)
         /\ lock[i] = None /\ loc[p].pc = "u_child" => Copy(i).nlink >= 1
         /\ lock[i] = None /\ loc[p].pc \in {"create", "unlink", "link_dir", "g_scan"}
              => Copy(i).type = "dir"
    /\ PutStart(p, "test") /\ LastPut(Head(todo[p])) => lock[Head(todo[p])] = None

\* No processes wait for each other's inode locks, and none for its own:
\* parents are locked before children, and never two at once while walking.
NoDeadlock ==
  ~\E S \in SUBSET Procs : S # {} /\ \A p \in S : Wants(p) # None /\ lock[Wants(p)] \in S


\* What processes hold of i: what they work on, what they are about to put,
\* open files and current directories.
Held(i) ==
  Cardinality({x \in Procs \X {"at", "dp", "ip"} : loc[x[1]][x[2]] = i})
  + Cardinality({p \in Procs : cwd[p] = i}) + Cardinality({p \in Procs : fd[p] = i})
  + Cardinality({x \in Procs \X {1, 2} : x[2] <= Len(todo[x[1]]) /\ todo[x[1]][x[2]] = i})

\* fs.c:118-121: ref is the number of pointers to the entry; the walk up in
\* getcwd() loses one to the root, and only to the root.
RefExact == \A i \in Inum : ref[i] = Held(i) + (IF i = Root THEN lost ELSE 0)

\* A copy in the table that nobody has locked is what is on the disk: an
\* inode that is freed and allocated again is read again.
CopyExact == \A i \in Inum :
  ref[i] > 0 /\ mem[i].valid /\ lock[i] = None =>
    mem[i].type = disk[i].type /\ mem[i].nlink = disk[i].nlink

Named(i) == {e \in Inum \X Names : ents[e[1]][e[2]] = i}

\* An entry of a directory always names an allocated inode, which counts it:
\* no order of link, unlink and create frees a file that has a name.
LinksCover == \A i \in Inum :
  Named(i) # {} => disk[i].type # "free" /\ disk[i].nlink >= Cardinality(Named(i))

\* A current directory or an open file stays allocated, whoever unlinks it.
OpenAllocated == \A p \in Procs : \A i \in {cwd[p], fd[p]} \ {None} : disk[i].type # "free"

\* A directory has one name, and its entry ".." the directory of that name.
TreeShape == \A i \in Inum : disk[i].type = "dir" =>
  /\ Cardinality(Named(i)) <= 1
  /\ \A e \in Named(i) : ents[i][".."] = e[1]

\* A state in which no call is in progress: what the log makes durable.
Quiescent == \A p \in Procs : loc[p].pc \in {"idle", "chdir2"} /\ todo[p] = <<>>
Subdirs(i) == {j \in Inum : disk[j].type = "dir" /\ \E n \in Names : ents[i][n] = j}
Links(i) == Cardinality(Named(i)) + Cardinality(Subdirs(i)) + (IF i = Root THEN 1 ELSE 0)
Exact(i) == disk[i].type # "free" =>
  /\ disk[i].nlink = Links(i)
  /\ disk[i].nlink = 0 => ref[i] > 0

\* A durable state counts every link, and an inode without links is free or in
\* use; but for an inode of stray, linked in a directory without a name or
\* allocated again and given up in the middle of an iput().
LinksExact == Quiescent => \A i \in Inum \ stray : Exact(i)
=============================================================================
