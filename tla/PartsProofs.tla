----------------------------- MODULE PartsProofs -----------------------------
(***************************************************************************)
(* The theorems of FilesProofs and DiskProofs as properties of MCParts, in   *)
(* which the file layer and the buffer cache with the disk driver run apart  *)
(* from the other parts, the cache once with the descriptors of one request  *)
(* (Narrow) and once with room for several (Wide); and the theorem about      *)
(* Boogshell's history.  A step of one part leaves the others alone, so the   *)
(* invariant of each is kept.                                                *)
(***************************************************************************)
EXTENDS MCParts, FiniteSetTheorems, TLAPS

FiP == INSTANCE FilesProofs WITH Counts <- FileCounts
NaP == INSTANCE DiskProofs WITH Hands <- NarrowHands, Processes <- NarrowProcesses, Blocks <- NarrowBlocks
WiP == INSTANCE DiskProofs WITH Hands <- WideHands, Processes <- WideProcesses, Blocks <- WideBlocks,
  IndirectBlocks <- {}, NUM <- WideNUM, MaxPins <- WidePins, MaxChanges <- 1

-----------------------------------------------------------------------------
(* The instances of DiskProofs and FilesProofs define what the instances of  *)
(* Disk and Files in MCParts define.                                         *)

LEMMA SameNarrowAssumption ==
  Narrow!DiskAssumption <=> NaP!DiskAssumption
BY DEF Narrow!DiskAssumption, Narrow!IsFiniteSet, NaP!DiskAssumption, NaP!IsFiniteSet

LEMMA SameNarrowInit ==
  Narrow!Init <=> NaP!Init
BY DEF Narrow!Bufs, Narrow!Descs, Narrow!Idle, Narrow!Init, Narrow!NoRequest, Narrow!None,
   NaP!Bufs, NaP!Descs, NaP!Idle, NaP!Init, NaP!NoRequest, NaP!None

LEMMA SameNarrowChanges ==
  Narrow!Changes = NaP!Changes
BY DEF Narrow!Changes, Narrow!Doing, Narrow!Cardinality, Narrow!FoldFunction,
   Narrow!FoldFunctionOnSet, Narrow!MapThenFoldSet, NaP!Changes, NaP!Doing, NaP!Cardinality,
   NaP!FoldFunction, NaP!FoldFunctionOnSet, NaP!MapThenFoldSet

LEMMA SameNarrowAllows ==
  ASSUME NEW op, NEW k PROVE Narrow!LogAllows(op, k) <=> NaP!LogAllows(op, k)
BY SameNarrowChanges DEF Narrow!BlockOf, Narrow!Buf, Narrow!Doing, Narrow!LogAllows,
   Narrow!Cardinality, NaP!BlockOf, NaP!Buf, NaP!Doing, NaP!LogAllows, NaP!Cardinality

LEMMA SameNarrowRests ==
  /\ \A q : Narrow!Rests(q) <=> NaP!Rests(q)
  /\ \A q : Narrow!Others(q) = NaP!Others(q)
BY DEF Narrow!AfterRead, Narrow!Buf, Narrow!Others, Narrow!Rests, NaP!AfterRead, NaP!Buf,
   NaP!Others, NaP!Rests

LEMMA SameNarrowBeside ==
  ASSUME NEW q, NEW op, NEW k PROVE Narrow!Beside(q, op, k) <=> NaP!Beside(q, op, k)
BY SameNarrowRests DEF Narrow!AfterRead, Narrow!Beside, Narrow!BlockOf, Narrow!Buf,
   NaP!AfterRead, NaP!Beside, NaP!BlockOf, NaP!Buf

LEMMA SameNarrowAsks ==
  ASSUME NEW p, NEW op, NEW k PROVE Narrow!Asks(p, op, k) <=> NaP!Asks(p, op, k)
BY SameNarrowAllows, SameNarrowRests, SameNarrowBeside DEF Narrow!Asks, NaP!Asks

LEMMA SameNarrowGet ==
  ASSUME NEW p, NEW op, NEW k PROVE Narrow!Get(p, op, k) <=> NaP!Get(p, op, k)
BY SameNarrowAsks DEF Narrow!Bufs, Narrow!Cached, Narrow!Get, Narrow!Recycle, Narrow!dvars,
   NaP!Bufs, NaP!Cached, NaP!Get, NaP!Recycle, NaP!dvars

LEMMA SameNarrowAcquire ==
  ASSUME NEW p PROVE Narrow!Acquire(p) <=> NaP!Acquire(p)
BY DEF Narrow!Acquire, Narrow!AfterRead, Narrow!At, Narrow!Buf, Narrow!Go, Narrow!Have,
   Narrow!None, Narrow!dvars, NaP!Acquire, NaP!AfterRead, NaP!At, NaP!Buf, NaP!Go, NaP!Have,
   NaP!None, NaP!dvars

LEMMA SameNarrowAcquireSleep ==
  ASSUME NEW p PROVE Narrow!AcquireSleep(p) <=> NaP!AcquireSleep(p)
BY DEF Narrow!AcquireSleep, Narrow!At, Narrow!Buf, Narrow!None, Narrow!bvars, Narrow!dvars,
   NaP!AcquireSleep, NaP!At, NaP!Buf, NaP!None, NaP!bvars, NaP!dvars

LEMMA SameNarrowStart ==
  ASSUME NEW p PROVE Narrow!Start(p) <=> NaP!Start(p)
BY DEF Narrow!At, Narrow!Buf, Narrow!Lowest, Narrow!Start, Narrow!Unlocked, Narrow!Cardinality,
   NaP!At, NaP!Buf, NaP!Lowest, NaP!Start, NaP!Unlocked, NaP!Cardinality

LEMMA SameNarrowStartSleep ==
  ASSUME NEW p PROVE Narrow!StartSleep(p) <=> NaP!StartSleep(p)
BY DEF Narrow!At, Narrow!StartSleep, Narrow!Unlocked, Narrow!Wakeup, Narrow!bvars, Narrow!dvars,
   Narrow!Cardinality, NaP!At, NaP!StartSleep, NaP!Unlocked, NaP!Wakeup, NaP!bvars, NaP!dvars,
   NaP!Cardinality

LEMMA SameNarrowFinish ==
  ASSUME NEW p PROVE Narrow!Finish(p) <=> NaP!Finish(p)
BY DEF Narrow!AfterRead, Narrow!At, Narrow!Buf, Narrow!Chain, Narrow!Descs, Narrow!Finish,
   Narrow!Go, Narrow!Have, Narrow!NoRequest, Narrow!Unlocked, Narrow!Wakeup, NaP!AfterRead,
   NaP!At, NaP!Buf, NaP!Chain, NaP!Descs, NaP!Finish, NaP!Go, NaP!Have, NaP!NoRequest,
   NaP!Unlocked, NaP!Wakeup

LEMMA SameNarrowWaitSleep ==
  ASSUME NEW p PROVE Narrow!WaitSleep(p) <=> NaP!WaitSleep(p)
BY DEF Narrow!At, Narrow!Buf, Narrow!Unlocked, Narrow!WaitSleep, Narrow!bvars, Narrow!dvars,
   NaP!At, NaP!Buf, NaP!Unlocked, NaP!WaitSleep, NaP!bvars, NaP!dvars

LEMMA SameNarrowPin ==
  ASSUME NEW p PROVE Narrow!Pin(p) <=> NaP!Pin(p)
BY DEF Narrow!At, Narrow!BlockOf, Narrow!Buf, Narrow!Go, Narrow!Pin, Narrow!dvars, NaP!At,
   NaP!BlockOf, NaP!Buf, NaP!Go, NaP!Pin, NaP!dvars

LEMMA SameNarrowUnpin ==
  ASSUME NEW p PROVE Narrow!Unpin(p) <=> NaP!Unpin(p)
BY DEF Narrow!At, Narrow!BlockOf, Narrow!Buf, Narrow!Go, Narrow!Unpin, Narrow!dvars, NaP!At,
   NaP!BlockOf, NaP!Buf, NaP!Go, NaP!Unpin, NaP!dvars

LEMMA SameNarrowRelease ==
  ASSUME NEW p PROVE Narrow!Release(p) <=> NaP!Release(p)
BY DEF Narrow!At, Narrow!Go, Narrow!None, Narrow!Release, Narrow!Wakeup, Narrow!dvars, NaP!At,
   NaP!Go, NaP!None, NaP!Release, NaP!Wakeup, NaP!dvars

LEMMA SameNarrowDrop ==
  ASSUME NEW p PROVE Narrow!Drop(p) <=> NaP!Drop(p)
BY DEF Narrow!At, Narrow!Drop, Narrow!Idle, Narrow!None, Narrow!ToFront, Narrow!dvars, NaP!At,
   NaP!Drop, NaP!Idle, NaP!None, NaP!ToFront, NaP!dvars

LEMMA SameNarrowKill ==
  ASSUME NEW p PROVE Narrow!Kill(p) <=> NaP!Kill(p)
BY DEF Narrow!Kill, Narrow!bvars, Narrow!dvars, NaP!Kill, NaP!bvars, NaP!dvars

LEMMA SameNarrowHandler ==
  Narrow!Handler <=> NaP!Handler
BY DEF Narrow!Ack, Narrow!Exit, Narrow!Handler, Narrow!Scan, Narrow!ScanEnd, Narrow!Wakeup,
   Narrow!bvars, NaP!Ack, NaP!Exit, NaP!Handler, NaP!Scan, NaP!ScanEnd, NaP!Wakeup, NaP!bvars

LEMMA SameNarrowDevice ==
  ASSUME NEW id PROVE Narrow!Device(id) <=> NaP!Device(id)
BY DEF Narrow!Device, NaP!Device

LEMMA SameNarrowStep ==
  ASSUME NEW p PROVE Narrow!Step(p) <=> NaP!Step(p)
BY SameNarrowAcquire, SameNarrowAcquireSleep, SameNarrowStart, SameNarrowStartSleep,
   SameNarrowFinish, SameNarrowWaitSleep, SameNarrowPin, SameNarrowUnpin, SameNarrowRelease,
   SameNarrowDrop, SameNarrowRests DEF Narrow!Step, NaP!Step

LEMMA SameNarrowNext ==
  Narrow!Next <=> NaP!Next
BY SameNarrowStep, SameNarrowKill, SameNarrowGet, SameNarrowDevice, SameNarrowHandler DEF
   Narrow!Next, NaP!Next, Narrow!Descs, NaP!Descs

LEMMA SameNarrowCopies ==
  /\ Narrow!OneCopy <=> NaP!OneCopy
  /\ Narrow!SeesLatest <=> NaP!SeesLatest
BY DEF Narrow!BlockOf, Narrow!Buf, Narrow!Bufs, Narrow!Cached, Narrow!None, Narrow!OneCopy,
   Narrow!SeesLatest, Narrow!Users, Narrow!Cardinality, NaP!BlockOf, NaP!Buf, NaP!Bufs,
   NaP!Cached, NaP!None, NaP!OneCopy, NaP!SeesLatest, NaP!Users, NaP!Cardinality

LEMMA SameNarrowServes ==
  /\ Narrow!DescriptorsExact <=> NaP!DescriptorsExact
  /\ Narrow!NoLostWakeup <=> NaP!NoLostWakeup
  /\ Narrow!CompletionSeen <=> NaP!CompletionSeen
BY DEF Narrow!Buf, Narrow!Chain, Narrow!CompletionSeen, Narrow!DescriptorsExact,
   Narrow!Inflight, Narrow!NoLostWakeup, Narrow!None, Narrow!Cardinality, NaP!Buf, NaP!Chain,
   NaP!CompletionSeen, NaP!DescriptorsExact, NaP!Inflight, NaP!NoLostWakeup, NaP!None,
   NaP!Cardinality

LEMMA SameNarrowTypes ==
  Narrow!TypeOK <=> NaP!TypeOK
BY DEF Narrow!Bufs, Narrow!Descs, Narrow!None, Narrow!TypeOK, Narrow!ToSet, NaP!Bufs, NaP!Descs,
   NaP!None, NaP!TypeOK, NaP!ToSet

LEMMA SameWideAssumption ==
  Wide!DiskAssumption <=> WiP!DiskAssumption
BY DEF Wide!DiskAssumption, Wide!IsFiniteSet, WiP!DiskAssumption, WiP!IsFiniteSet

LEMMA SameWideInit ==
  Wide!Init <=> WiP!Init
BY DEF Wide!Bufs, Wide!Descs, Wide!Idle, Wide!Init, Wide!NoRequest, Wide!None, WiP!Bufs,
   WiP!Descs, WiP!Idle, WiP!Init, WiP!NoRequest, WiP!None

LEMMA SameWideChanges ==
  Wide!Changes = WiP!Changes
BY DEF Wide!Changes, Wide!Doing, Wide!Cardinality, Wide!FoldFunction, Wide!FoldFunctionOnSet,
   Wide!MapThenFoldSet, WiP!Changes, WiP!Doing, WiP!Cardinality, WiP!FoldFunction,
   WiP!FoldFunctionOnSet, WiP!MapThenFoldSet

LEMMA SameWideAllows ==
  ASSUME NEW op, NEW k PROVE Wide!LogAllows(op, k) <=> WiP!LogAllows(op, k)
BY SameWideChanges DEF Wide!BlockOf, Wide!Buf, Wide!Doing, Wide!LogAllows, Wide!Cardinality,
   WiP!BlockOf, WiP!Buf, WiP!Doing, WiP!LogAllows, WiP!Cardinality

LEMMA SameWideRests ==
  /\ \A q : Wide!Rests(q) <=> WiP!Rests(q)
  /\ \A q : Wide!Others(q) = WiP!Others(q)
BY DEF Wide!AfterRead, Wide!Buf, Wide!Others, Wide!Rests, WiP!AfterRead, WiP!Buf, WiP!Others,
   WiP!Rests

LEMMA SameWideBeside ==
  ASSUME NEW q, NEW op, NEW k PROVE Wide!Beside(q, op, k) <=> WiP!Beside(q, op, k)
BY SameWideRests DEF Wide!AfterRead, Wide!Beside, Wide!BlockOf, Wide!Buf, WiP!AfterRead,
   WiP!Beside, WiP!BlockOf, WiP!Buf

LEMMA SameWideAsks ==
  ASSUME NEW p, NEW op, NEW k PROVE Wide!Asks(p, op, k) <=> WiP!Asks(p, op, k)
BY SameWideAllows, SameWideRests, SameWideBeside DEF Wide!Asks, WiP!Asks

LEMMA SameWideGet ==
  ASSUME NEW p, NEW op, NEW k PROVE Wide!Get(p, op, k) <=> WiP!Get(p, op, k)
BY SameWideAsks DEF Wide!Bufs, Wide!Cached, Wide!Get, Wide!Recycle, Wide!dvars, WiP!Bufs,
   WiP!Cached, WiP!Get, WiP!Recycle, WiP!dvars

LEMMA SameWideAcquire ==
  ASSUME NEW p PROVE Wide!Acquire(p) <=> WiP!Acquire(p)
BY DEF Wide!Acquire, Wide!AfterRead, Wide!At, Wide!Buf, Wide!Go, Wide!Have, Wide!None, Wide!dvars,
   WiP!Acquire, WiP!AfterRead, WiP!At, WiP!Buf, WiP!Go, WiP!Have, WiP!None, WiP!dvars

LEMMA SameWideAcquireSleep ==
  ASSUME NEW p PROVE Wide!AcquireSleep(p) <=> WiP!AcquireSleep(p)
BY DEF Wide!AcquireSleep, Wide!At, Wide!Buf, Wide!None, Wide!bvars, Wide!dvars, WiP!AcquireSleep,
   WiP!At, WiP!Buf, WiP!None, WiP!bvars, WiP!dvars

LEMMA SameWideStart ==
  ASSUME NEW p PROVE Wide!Start(p) <=> WiP!Start(p)
BY DEF Wide!At, Wide!Buf, Wide!Lowest, Wide!Start, Wide!Unlocked, Wide!Cardinality, WiP!At,
   WiP!Buf, WiP!Lowest, WiP!Start, WiP!Unlocked, WiP!Cardinality

LEMMA SameWideStartSleep ==
  ASSUME NEW p PROVE Wide!StartSleep(p) <=> WiP!StartSleep(p)
BY DEF Wide!At, Wide!StartSleep, Wide!Unlocked, Wide!Wakeup, Wide!bvars, Wide!dvars,
   Wide!Cardinality, WiP!At, WiP!StartSleep, WiP!Unlocked, WiP!Wakeup, WiP!bvars, WiP!dvars,
   WiP!Cardinality

LEMMA SameWideFinish ==
  ASSUME NEW p PROVE Wide!Finish(p) <=> WiP!Finish(p)
BY DEF Wide!AfterRead, Wide!At, Wide!Buf, Wide!Chain, Wide!Descs, Wide!Finish, Wide!Go, Wide!Have,
   Wide!NoRequest, Wide!Unlocked, Wide!Wakeup, WiP!AfterRead, WiP!At, WiP!Buf, WiP!Chain,
   WiP!Descs, WiP!Finish, WiP!Go, WiP!Have, WiP!NoRequest, WiP!Unlocked, WiP!Wakeup

LEMMA SameWideWaitSleep ==
  ASSUME NEW p PROVE Wide!WaitSleep(p) <=> WiP!WaitSleep(p)
BY DEF Wide!At, Wide!Buf, Wide!Unlocked, Wide!WaitSleep, Wide!bvars, Wide!dvars, WiP!At, WiP!Buf,
   WiP!Unlocked, WiP!WaitSleep, WiP!bvars, WiP!dvars

LEMMA SameWidePin ==
  ASSUME NEW p PROVE Wide!Pin(p) <=> WiP!Pin(p)
BY DEF Wide!At, Wide!BlockOf, Wide!Buf, Wide!Go, Wide!Pin, Wide!dvars, WiP!At, WiP!BlockOf,
   WiP!Buf, WiP!Go, WiP!Pin, WiP!dvars

LEMMA SameWideUnpin ==
  ASSUME NEW p PROVE Wide!Unpin(p) <=> WiP!Unpin(p)
BY DEF Wide!At, Wide!BlockOf, Wide!Buf, Wide!Go, Wide!Unpin, Wide!dvars, WiP!At, WiP!BlockOf,
   WiP!Buf, WiP!Go, WiP!Unpin, WiP!dvars

LEMMA SameWideRelease ==
  ASSUME NEW p PROVE Wide!Release(p) <=> WiP!Release(p)
BY DEF Wide!At, Wide!Go, Wide!None, Wide!Release, Wide!Wakeup, Wide!dvars, WiP!At, WiP!Go,
   WiP!None, WiP!Release, WiP!Wakeup, WiP!dvars

LEMMA SameWideDrop ==
  ASSUME NEW p PROVE Wide!Drop(p) <=> WiP!Drop(p)
BY DEF Wide!At, Wide!Drop, Wide!Idle, Wide!None, Wide!ToFront, Wide!dvars, WiP!At, WiP!Drop,
   WiP!Idle, WiP!None, WiP!ToFront, WiP!dvars

LEMMA SameWideKill ==
  ASSUME NEW p PROVE Wide!Kill(p) <=> WiP!Kill(p)
BY DEF Wide!Kill, Wide!bvars, Wide!dvars, WiP!Kill, WiP!bvars, WiP!dvars

LEMMA SameWideHandler ==
  Wide!Handler <=> WiP!Handler
BY DEF Wide!Ack, Wide!Exit, Wide!Handler, Wide!Scan, Wide!ScanEnd, Wide!Wakeup, Wide!bvars,
   WiP!Ack, WiP!Exit, WiP!Handler, WiP!Scan, WiP!ScanEnd, WiP!Wakeup, WiP!bvars

LEMMA SameWideDevice ==
  ASSUME NEW id PROVE Wide!Device(id) <=> WiP!Device(id)
BY DEF Wide!Device, WiP!Device

LEMMA SameWideStep ==
  ASSUME NEW p PROVE Wide!Step(p) <=> WiP!Step(p)
BY SameWideAcquire, SameWideAcquireSleep, SameWideStart, SameWideStartSleep, SameWideFinish,
   SameWideWaitSleep, SameWidePin, SameWideUnpin, SameWideRelease, SameWideDrop, SameWideRests
   DEF Wide!Step, WiP!Step

LEMMA SameWideNext ==
  Wide!Next <=> WiP!Next
BY SameWideStep, SameWideKill, SameWideGet, SameWideDevice, SameWideHandler DEF Wide!Next,
   WiP!Next, Wide!Descs, WiP!Descs

LEMMA SameWideCopies ==
  /\ Wide!OneCopy <=> WiP!OneCopy
  /\ Wide!SeesLatest <=> WiP!SeesLatest
BY DEF Wide!BlockOf, Wide!Buf, Wide!Bufs, Wide!Cached, Wide!None, Wide!OneCopy, Wide!SeesLatest,
   Wide!Users, Wide!Cardinality, WiP!BlockOf, WiP!Buf, WiP!Bufs, WiP!Cached, WiP!None,
   WiP!OneCopy, WiP!SeesLatest, WiP!Users, WiP!Cardinality

LEMMA SameWideServes ==
  /\ Wide!DescriptorsExact <=> WiP!DescriptorsExact
  /\ Wide!NoLostWakeup <=> WiP!NoLostWakeup
  /\ Wide!CompletionSeen <=> WiP!CompletionSeen
BY DEF Wide!Buf, Wide!Chain, Wide!CompletionSeen, Wide!DescriptorsExact, Wide!Inflight,
   Wide!NoLostWakeup, Wide!None, Wide!Cardinality, WiP!Buf, WiP!Chain, WiP!CompletionSeen,
   WiP!DescriptorsExact, WiP!Inflight, WiP!NoLostWakeup, WiP!None, WiP!Cardinality

LEMMA SameWideTypes ==
  Wide!TypeOK <=> WiP!TypeOK
BY DEF Wide!Bufs, Wide!Descs, Wide!None, Wide!TypeOK, Wide!ToSet, WiP!Bufs, WiP!Descs, WiP!None,
   WiP!TypeOK, WiP!ToSet

LEMMA SameFilesAssumption ==
  Fi!FilesAssumption <=> FiP!FilesAssumption
BY DEF Fi!FilesAssumption, Fi!MAXFILE, Fi!Mode, Fi!IsFiniteSet, FiP!FilesAssumption,
   FiP!MAXFILE, FiP!Mode, FiP!IsFiniteSet

LEMMA SameFilesInit ==
  Fi!Init <=> FiP!Init
BY DEF Fi!Blocks, Fi!Dead, Fi!Fds, Fi!Files, Fi!Idle, Fi!Init, Fi!NoFile, Fi!NoInode,
   FiP!Blocks, FiP!Dead, FiP!Fds, FiP!Files, FiP!Idle, FiP!Init, FiP!NoFile, FiP!NoInode

LEMMA SameLookup ==
  ASSUME NEW p, NEW i, NEW m PROVE Fi!Lookup(p, i, m) <=> FiP!Lookup(p, i, m)
BY DEF Fi!At, Fi!Call, Fi!Go, Fi!Lookup, FiP!At, FiP!Call, FiP!Go, FiP!Lookup

LEMMA SameCreate ==
  ASSUME NEW p, NEW i, NEW m PROVE Fi!Create(p, i, m) <=> FiP!Create(p, i, m)
BY DEF Fi!At, Fi!Call, Fi!Create, Fi!Go, FiP!At, FiP!Call, FiP!Create, FiP!Go

LEMMA SameUnlink ==
  ASSUME NEW p, NEW i PROVE Fi!Unlink(p, i) <=> FiP!Unlink(p, i)
BY DEF Fi!At, Fi!Call, Fi!Go, Fi!PutLater, Fi!Unlink, FiP!At, FiP!Call, FiP!Go, FiP!PutLater,
   FiP!Unlink

LEMMA SameOpenFile ==
  ASSUME NEW p PROVE Fi!OpenFile(p) <=> FiP!OpenFile(p)
BY DEF Fi!At, Fi!Fds, Fi!Files, Fi!FreeFds, Fi!FreeFiles, Fi!Go, Fi!Idle, Fi!Itrunc, Fi!MAXFILE,
   Fi!NoInode, Fi!OpenFile, Fi!Owned, Fi!Slot, Fi!Min, FiP!At, FiP!Fds, FiP!Files, FiP!FreeFds,
   FiP!FreeFiles, FiP!Go, FiP!Idle, FiP!Itrunc, FiP!MAXFILE, FiP!NoInode, FiP!OpenFile,
   FiP!Owned, FiP!Slot, FiP!Min

LEMMA SameOpenNone ==
  ASSUME NEW p PROVE Fi!OpenNone(p) <=> FiP!OpenNone(p)
BY DEF Fi!At, Fi!Fds, Fi!Files, Fi!FreeFds, Fi!FreeFiles, Fi!Go, Fi!OpenNone, Fi!PutLater,
   Fi!Min, FiP!At, FiP!Fds, FiP!Files, FiP!FreeFds, FiP!FreeFiles, FiP!Go, FiP!OpenNone,
   FiP!PutLater, FiP!Min

LEMMA SameIput ==
  ASSUME NEW p PROVE Fi!Iput(p) <=> FiP!Iput(p)
BY DEF Fi!At, Fi!Go, Fi!Idle, Fi!Iput, Fi!Itrunc, Fi!MAXFILE, Fi!NoInode, Fi!Owned, Fi!Slot,
   FiP!At, FiP!Go, FiP!Idle, FiP!Iput, FiP!Itrunc, FiP!MAXFILE, FiP!NoInode, FiP!Owned, FiP!Slot

LEMMA SameRead ==
  ASSUME NEW p, NEW d, NEW n PROVE Fi!Read(p, d, n) <=> FiP!Read(p, d, n)
BY DEF Fi!At, Fi!Call, Fi!Read, Fi!Readi, Fi!Slot, FiP!At, FiP!Call, FiP!Read, FiP!Readi,
   FiP!Slot

LEMMA SameWriteStart ==
  ASSUME NEW p, NEW d, NEW n PROVE Fi!WriteStart(p, d, n) <=> FiP!WriteStart(p, d, n)
BY DEF Fi!At, Fi!Call, Fi!Go, Fi!WriteStart, FiP!At, FiP!Call, FiP!Go, FiP!WriteStart

LEMMA SameDup ==
  ASSUME NEW p, NEW d PROVE Fi!Dup(p, d) <=> FiP!Dup(p, d)
BY DEF Fi!At, Fi!Call, Fi!Dup, Fi!Fds, Fi!FreeFds, Fi!Min, FiP!At, FiP!Call, FiP!Dup, FiP!Fds,
   FiP!FreeFds, FiP!Min

LEMMA SameClose ==
  ASSUME NEW p, NEW d PROVE Fi!Close(p, d) <=> FiP!Close(p, d)
BY DEF Fi!At, Fi!Close, Fi!CloseFd, Fi!Dropped, Fi!Go, Fi!Idle, FiP!At, FiP!Close, FiP!CloseFd,
   FiP!Dropped, FiP!Go, FiP!Idle

LEMMA SameBalloc ==
  ASSUME NEW D PROVE Fi!Balloc(D) = FiP!Balloc(D)
BY DEF Fi!Balloc, Fi!Blocks, Fi!Min, FiP!Balloc, FiP!Blocks, FiP!Min

LEMMA SameEnsure ==
  ASSUME NEW D, NEW addr PROVE Fi!Ensure(D, addr) = FiP!Ensure(D, addr)
BY SameBalloc DEF Fi!Ensure, FiP!Ensure

\* The parts of bmap(), writei() and filewrite() that are the same in both.
Near(r, b, bn) == [r EXCEPT !.disk.ino[b].addrs[bn] = r.addr]
Linked(r, b) == [r.disk EXCEPT !.ino[b].addrs[NDIRECT] = r.addr]
Far(r, s, bn) == IF r.addr = 0 THEN r ELSE [s EXCEPT !.disk.data[r.addr][bn - NDIRECT] = s.addr]
Ended(e, b, off) ==
  LET z == e.disk.ino[b].size IN
    [disk |-> [e.disk EXCEPT !.ino[b].size = IF off + e.tot > z THEN off + e.tot ELSE z],
     r |-> e.tot]
Wrote(p, L, n1, w, h, m) ==
  /\ disk' = w.disk /\ home' = h
  /\ file' = [file EXCEPT ![L.f].off = @ + m]
  /\ loc' = [loc EXCEPT ![p] =
               IF w.r = n1 /\ L.i + n1 < L.n THEN [L EXCEPT !.i = @ + n1] ELSE [pc |-> "idle"]]

LEMMA SameBmap ==
  ASSUME NEW D, NEW b, NEW bn PROVE Fi!Bmap(D, b, bn) = FiP!Bmap(D, b, bn)
<1> DEFINE r == Fi!Ensure(D, D.ino[b].addrs[bn])
           s == FiP!Ensure(D, D.ino[b].addrs[bn])
           v == Fi!Ensure(D, D.ino[b].addrs[NDIRECT])
           w == FiP!Ensure(D, D.ino[b].addrs[NDIRECT])
           E == Linked(v, b)
           G == Linked(w, b)
           x == Fi!Ensure(E, E.data[v.addr][bn - NDIRECT])
           y == FiP!Ensure(G, G.data[w.addr][bn - NDIRECT])
<1>1. Fi!Bmap(D, b, bn) = IF bn < NDIRECT THEN Near(r, b, bn) ELSE Far(v, x, bn)
  BY DEF Fi!Bmap, Near, Far, Linked
<1>2. FiP!Bmap(D, b, bn) = IF bn < NDIRECT THEN Near(s, b, bn) ELSE Far(w, y, bn)
  BY DEF FiP!Bmap, Near, Far, Linked
<1>3. r = s /\ v = w
  BY SameEnsure
<1> HIDE DEF r, s, v, w
<1>4. E = G
  BY <1>3
<1> HIDE DEF E, G
<1>5. x = y
  BY <1>3, <1>4, SameEnsure
<1> HIDE DEF x, y
<1> QED
  BY <1>1, <1>2, <1>3, <1>5

LEMMA SameWritePiece ==
  ASSUME NEW st, NEW b, NEW off, NEW src, NEW good PROVE Fi!WritePiece(st, b, off, src, good) = FiP!WritePiece(st, b, off, src, good)
BY SameBmap DEF Fi!Piece, Fi!WritePiece, FiP!Piece, FiP!WritePiece

LEMMA SameWritei ==
  ASSUME NEW b, NEW off, NEW src, NEW good PROVE Fi!Writei(b, off, src, good) = FiP!Writei(b, off, src, good)
<1> DEFINE First == [disk |-> disk, tot |-> 0, stop |-> FALSE]
           F == CHOOSE f : f = [j \in 0..Len(src) |->
                  IF j = 0 THEN First
                  ELSE LET st == f[j - 1] IN
                         IF st.stop \/ st.tot = Len(src) THEN st ELSE Fi!WritePiece(st, b, off, src, good)]
           G == CHOOSE f : f = [j \in 0..Len(src) |->
                  IF j = 0 THEN First
                  ELSE LET st == f[j - 1] IN
                         IF st.stop \/ st.tot = Len(src) THEN st ELSE FiP!WritePiece(st, b, off, src, good)]
           c == off > disk.ino[b].size \/ off + Len(src) > (NDIRECT + NINDIRECT) * BSIZE
           e == F[Len(src)]
           g == G[Len(src)]
<1>1. Fi!Writei(b, off, src, good) = IF c THEN [disk |-> disk, r |-> -1] ELSE Ended(e, b, off)
  BY DEF Fi!Writei, Ended, Fi!MAXFILE
<1>2. FiP!Writei(b, off, src, good) = IF c THEN [disk |-> disk, r |-> -1] ELSE Ended(g, b, off)
  BY DEF FiP!Writei, Ended, FiP!MAXFILE
<1>3. F = G
  BY SameWritePiece
<1> HIDE DEF F, G, c
<1>4. e = g
  BY <1>3
<1> HIDE DEF e, g
<1> QED
  BY <1>1, <1>2, <1>4

LEMMA SameLoggedBy ==
  ASSUME NEW D, NEW b, NEW off, NEW end PROVE Fi!LoggedBy(D, b, off, end) = FiP!LoggedBy(D, b, off, end)
BY DEF Fi!LoggedBy, Fi!Slot, FiP!LoggedBy, FiP!Slot

LEMMA SameLogged ==
  ASSUME NEW v, NEW b, NEW off, NEW n, NEW absorbed PROVE Fi!Logged(v, b, off, n, absorbed) = FiP!Logged(v, b, off, n, absorbed)
BY SameLoggedBy DEF Fi!Blocks, Fi!Logged, FiP!Blocks, FiP!Logged

LEMMA SameWriteChunk ==
  ASSUME NEW p PROVE Fi!WriteChunk(p) <=> FiP!WriteChunk(p)
<1> DEFINE L == loc[p]
           n1 == Fi!Min({L.n - L.i, MaxChunk})
           src == SubSeq(Text, L.i + 1, L.i + n1)
           U(good) == Fi!Writei(file[L.f].ip, file[L.f].off, src, good)
           V(good) == FiP!Writei(file[L.f].ip, file[L.f].off, src, good)
           X(v, absorbed) == Fi!Logged(v, file[L.f].ip, file[L.f].off, n1, absorbed)
           Y(v, absorbed) == FiP!Logged(v, file[L.f].ip, file[L.f].off, n1, absorbed)
           l == L.pc = "write" /\ UNCHANGED <<iref, ofile, pipe, calls>>
<1>1. Fi!WriteChunk(p) <=> l /\ \E good \in 0..n1, absorbed \in BOOLEAN :
        Wrote(p, L, n1, U(good), X(U(good), absorbed), Fi!Max({U(good).r, 0}))
  BY DEF Fi!WriteChunk, Fi!At, Fi!Go, Fi!Idle, Wrote
<1>2. n1 = FiP!Min({L.n - L.i, MaxChunk})
  BY DEF Fi!Min, FiP!Min
<1>3. FiP!WriteChunk(p) <=> l /\ \E good \in 0..n1, absorbed \in BOOLEAN :
        Wrote(p, L, n1, V(good), Y(V(good), absorbed), FiP!Max({V(good).r, 0}))
  BY <1>2 DEF FiP!WriteChunk, FiP!At, FiP!Go, FiP!Idle, Wrote
<1>4. ASSUME NEW good PROVE U(good) = V(good)
  BY SameWritei
<1>5. ASSUME NEW m PROVE Fi!Max({m, 0}) = FiP!Max({m, 0})
  BY DEF Fi!Max, FiP!Max
<1>6. ASSUME NEW v, NEW absorbed PROVE X(v, absorbed) = Y(v, absorbed)
  BY SameLogged
<1> HIDE DEF L, n1, U, V, X, Y, l
<1> QED
  BY <1>1, <1>3, <1>4, <1>5, <1>6

LEMMA SameFork ==
  ASSUME NEW p, NEW q PROVE Fi!Fork(p, q) <=> FiP!Fork(p, q)
BY DEF Fi!At, Fi!Call, Fi!Fds, Fi!Files, Fi!Fork, Fi!Idle, Fi!Cardinality, FiP!At, FiP!Call,
   FiP!Fds, FiP!Files, FiP!Fork, FiP!Idle, FiP!Cardinality

LEMMA SameExit ==
  ASSUME NEW p PROVE Fi!Exit(p) <=> FiP!Exit(p)
BY DEF Fi!At, Fi!CloseFd, Fi!Dead, Fi!Dropped, Fi!Exit, Fi!Fds, Fi!Go, Fi!Min, FiP!At,
   FiP!CloseFd, FiP!Dead, FiP!Dropped, FiP!Exit, FiP!Fds, FiP!Go, FiP!Min

LEMMA SamePipe ==
  ASSUME NEW p PROVE Fi!Pipe(p) <=> FiP!Pipe(p)
BY DEF Fi!At, Fi!Call, Fi!Fds, Fi!Files, Fi!FreeFds, Fi!FreeFiles, Fi!NoFile, Fi!Pipe, Fi!Min,
   Fi!Cardinality, FiP!At, FiP!Call, FiP!Fds, FiP!Files, FiP!FreeFds, FiP!FreeFiles, FiP!NoFile,
   FiP!Pipe, FiP!Min, FiP!Cardinality

LEMMA SameEvict ==
  ASSUME NEW b PROVE Fi!Evict(b) <=> FiP!Evict(b)
BY DEF Fi!Evict, FiP!Evict

LEMMA SameFilesCrash ==
  Fi!Crash <=> FiP!Crash
BY DEF Fi!Crash, Fi!Dead, Fi!Fds, Fi!Files, Fi!Idle, Fi!NoFile, FiP!Crash, FiP!Dead, FiP!Fds,
   FiP!Files, FiP!Idle, FiP!NoFile

LEMMA SameFilesNext ==
  Fi!Next <=> FiP!Next
BY SameLookup, SameCreate, SameUnlink, SameOpenFile, SameOpenNone, SameIput, SameRead,
   SameWriteStart, SameDup, SameClose, SameWriteChunk, SameFork, SameExit, SamePipe,
   SameEvict, SameFilesCrash DEF Fi!Next, FiP!Next, Fi!Fds, FiP!Fds, Fi!Blocks, FiP!Blocks

LEMMA SameFilesSafe ==
  /\ Fi!RefsExact <=> FiP!RefsExact
  /\ Fi!InodeRefsExact <=> FiP!InodeRefsExact
  /\ Fi!BlocksExact <=> FiP!BlocksExact
  /\ Fi!NoHoles <=> FiP!NoHoles
BY DEF Fi!Blocks, Fi!BlocksExact, Fi!Fds, Fi!Files, Fi!InodeRefsExact, Fi!MAXFILE, Fi!NoHoles,
   Fi!RefsExact, Fi!Slot, Fi!Cardinality, FiP!Blocks, FiP!BlocksExact, FiP!Fds, FiP!Files,
   FiP!InodeRefsExact, FiP!MAXFILE, FiP!NoHoles, FiP!RefsExact, FiP!Slot, FiP!Cardinality

LEMMA SameByteFiles ==
  /\ Fi!Bytes!Init <=> FiP!Bytes!Init
  /\ Fi!Bytes!Next <=> FiP!Bytes!Next
  /\ UNCHANGED Fi!Bytes!bvars <=> UNCHANGED FiP!Bytes!bvars
BY DEF Fi!Bytes!Between, Fi!Bytes!Close, Fi!Bytes!Closed, Fi!Bytes!Crash, Fi!Bytes!Free,
   Fi!Bytes!Init, Fi!Bytes!Next, Fi!Bytes!Open, Fi!Bytes!Patch, Fi!Bytes!Read, Fi!Bytes!Revert,
   Fi!Bytes!Write, Fi!Bytes!bvars, FiP!Bytes!Between, FiP!Bytes!Close, FiP!Bytes!Closed,
   FiP!Bytes!Crash, FiP!Bytes!Free, FiP!Bytes!Init, FiP!Bytes!Next, FiP!Bytes!Open,
   FiP!Bytes!Patch, FiP!Bytes!Read, FiP!Bytes!Revert, FiP!Bytes!Write, FiP!Bytes!bvars,
   Fi!Content, Fi!Files, Fi!Kept, Fi!MAXFILE, Fi!Readi, Fi!Slot, FiP!Content, FiP!Files,
   FiP!Kept, FiP!MAXFILE, FiP!Readi, FiP!Slot

-----------------------------------------------------------------------------
(* The history of Boogshell.                                                *)

\* Entry i of table t is number total - rows + i of the commands l.
EntryOf(t, i, rows, l) ==
  /\ t[i] = [val |-> Len(l) + 1 - rows + i, command |-> t[i].command]
  /\ t[i].command \in Bo!Command
  /\ t[i].command.name = l[t[i].val].name /\ t[i].command.cd = l[t[i].val].cd

\* The table t is the window on the commands l, and nothing is behind it: so `!!',
\* which looks behind it, never finds an entry.
HistoryOf(t, rows, total, l) ==
  /\ DOMAIN t = 0..SLOTS - 1 /\ l \in Seq(Bo!Command) /\ total = Len(l) + 1
  /\ rows = IF Len(l) < LIMIT THEN Len(l) ELSE LIMIT
  /\ \A i \in 0..rows - 1 : EntryOf(t, i, rows, l)
  /\ \A i \in rows..SLOTS - 1 : t[i] = Bo!Garbage
BoogshInv == HistoryOf(pairs, count, total_count, log)

LEMMA BoogshSizes == LIMIT \in Nat \ {0} /\ SLOTS \in Nat /\ SLOTS > LIMIT
BY PartsAssumption DEF Bo!BoogshAssumption

\* add_history() on a table that is in order.
LEMMA StoreKeeps ==
  ASSUME NEW t, HistoryOf(t, count, total_count, log), NEW c \in Bo!Command, Bo!AddHistory(t, c)
  PROVE  BoogshInv'
<1> USE BoogshSizes
<1> DEFINE u == IF count = LIMIT THEN Bo!Shift(t) ELSE t
<1>1. /\ count' = IF count = LIMIT THEN LIMIT ELSE count + 1
      /\ pairs' = [u EXCEPT ![count' - 1] = [val |-> total_count, command |-> c]]
      /\ total_count' = total_count + 1 /\ log' = Append(log, c)
  BY DEF Bo!AddHistory
<1>2. /\ DOMAIN t = 0..SLOTS - 1 /\ log \in Seq(Bo!Command) /\ total_count = Len(log) + 1
      /\ count = IF Len(log) < LIMIT THEN Len(log) ELSE LIMIT
      /\ Len(log) \in Nat
  BY DEF HistoryOf
<1>3. /\ log' \in Seq(Bo!Command) /\ Len(log') = Len(log) + 1
      /\ \A k \in 1..Len(log) : log'[k] = log[k]
      /\ log'[Len(log) + 1] = c
  BY <1>1, <1>2
<1>4. DOMAIN u = 0..SLOTS - 1 /\ \A i \in 0..SLOTS - 1 :
        u[i] = IF count = LIMIT /\ i < LIMIT - 1 THEN t[i + 1] ELSE t[i]
  BY <1>2 DEF Bo!Shift
<1> HIDE DEF u
<1>5. /\ DOMAIN pairs' = 0..SLOTS - 1
      /\ pairs'[count' - 1] = [val |-> total_count, command |-> c]
      /\ \A i \in 0..SLOTS - 1 : i # count' - 1 => pairs'[i] = u[i]
      /\ count' - 1 \in 0..SLOTS - 1
  BY <1>1, <1>2, <1>4
<1>6. count' = IF Len(log') < LIMIT THEN Len(log') ELSE LIMIT
  BY <1>1, <1>2, <1>3
<1>7. ASSUME NEW i \in 0..count' - 1 PROVE EntryOf(pairs', i, count', log')
  <2>1. CASE i = count' - 1
    <3>1. /\ pairs'[i] = [val |-> Len(log') + 1 - count' + i, command |-> c]
          /\ pairs'[i].val = Len(log) + 1 /\ pairs'[i].command = c
      BY <1>2, <1>3, <1>5, <1>6, <2>1
    <3> QED
      BY <1>3, <3>1 DEF EntryOf
  <2>2. CASE i # count' - 1
    <3> DEFINE j == IF count = LIMIT THEN i + 1 ELSE i
    <3>1. j \in 0..count - 1 /\ pairs'[i] = t[j] /\ Len(log) + 1 - count + j = Len(log') + 1 - count' + i
      <4>1. i \in 0..SLOTS - 1 /\ pairs'[i] = u[i] /\ i \in Nat /\ i < count' - 1
        BY <1>2, <1>5, <1>6, <2>2
      <4>2. CASE count = LIMIT
        <5>1. count' = LIMIT /\ j = i + 1 /\ u[i] = t[i + 1]
          BY <1>1, <1>4, <4>1, <4>2
        <5> HIDE DEF j
        <5> QED
          BY <1>3, <4>1, <4>2, <5>1
      <4>3. CASE count # LIMIT
        <5>1. count' = count + 1 /\ j = i /\ u[i] = t[i]
          BY <1>1, <1>4, <4>1, <4>3
        <5> HIDE DEF j
        <5> QED
          BY <1>2, <1>3, <4>1, <5>1
      <4> QED
        BY <4>2, <4>3
    <3> HIDE DEF j
    <3>2. EntryOf(t, j, count, log)
      BY <3>1 DEF HistoryOf
    <3>3. t[j].val \in 1..Len(log)
      <4>1. t[j] = [val |-> Len(log) + 1 - count + j, command |-> t[j].command]
        BY <3>2 DEF EntryOf
      <4>2. t[j].val = Len(log) + 1 - count + j
        BY ONLY <4>1
      <4>3. j \in Nat /\ j < count /\ count \in Nat /\ count <= Len(log)
        BY <1>2, <3>1
      <4> QED
        BY <1>2, <4>2, <4>3
    <3> QED
      BY <1>3, <3>1, <3>2, <3>3 DEF EntryOf
  <2> QED
    BY <2>1, <2>2
<1>8. ASSUME NEW i \in count'..SLOTS - 1 PROVE pairs'[i] = Bo!Garbage
  <2>1. i \in count..SLOTS - 1 /\ pairs'[i] = t[i]
    BY <1>1, <1>2, <1>4, <1>5, <1>6
  <2> QED
    BY <2>1 DEF HistoryOf
<1> QED
  BY <1>1, <1>2, <1>3, <1>5, <1>6, <1>7, <1>8 DEF BoogshInv, HistoryOf

LEMMA TurnKeeps ==
  ASSUME NEW t, HistoryOf(t, count, total_count, log), NEW c \in Bo!Command, Bo!EndTurn(t, c)
  PROVE  BoogshInv'
BY StoreKeeps DEF Bo!EndTurn, BoogshInv

\* change_directory() on an entry chops its command, and changes nothing that tells
\* it apart.
LEMMA ReplayKeeps ==
  ASSUME BoogshInv, NEW i \in Bo!Window, Bo!Replay(i)
  PROVE  BoogshInv'
<1> USE BoogshSizes
<1> DEFINE d == Bo!Chop(pairs[i].command)
           t == [pairs EXCEPT ![i].command = d]
<1>1. d.cut <= MaxCut /\ Bo!EndTurn(t, d)
  BY DEF Bo!Replay
<1>2. i \in 0..count - 1 /\ EntryOf(pairs, i, count, log) /\ DOMAIN pairs = 0..SLOTS - 1
      /\ count \in Nat /\ count <= LIMIT
  BY DEF BoogshInv, HistoryOf, Bo!Window
<1>3. d \in Bo!Command /\ d.name = pairs[i].command.name /\ d.cd = pairs[i].command.cd
  <2>1. pairs[i].command \in Bo!Command
    BY <1>2 DEF EntryOf
  <2> QED
    BY <1>1, <2>1 DEF Bo!Chop, Bo!Command
<1> HIDE DEF d
<1>4. /\ DOMAIN t = DOMAIN pairs /\ \A j \in 0..SLOTS - 1 : j # i => t[j] = pairs[j]
      /\ t[i] = [pairs[i] EXCEPT !.command = d]
  BY <1>2
<1> HIDE DEF t
<1>5. HistoryOf(t, count, total_count, log)
  <2>1. ASSUME NEW j \in 0..count - 1 PROVE EntryOf(t, j, count, log)
    <3>1. EntryOf(pairs, j, count, log)
      BY DEF BoogshInv, HistoryOf
    <3>2. CASE j # i
      BY <1>2, <1>4, <3>1, <3>2 DEF EntryOf
    <3>3. CASE j = i
      <4>2. pairs[j] = [val |-> Len(log) + 1 - count + j, command |-> pairs[j].command]
        BY <3>1 DEF EntryOf
      <4>1. t[j].val = pairs[j].val /\ t[j].command = d
        BY <1>2, <1>4, <3>3, <4>2
      <4>3. t[j] = [val |-> Len(log) + 1 - count + j, command |-> d]
        BY <1>4, <3>3, <4>2
      <4> QED
        BY <1>3, <3>1, <3>3, <4>1, <4>3 DEF EntryOf
    <3> QED
      BY <3>2, <3>3
  <2>2. ASSUME NEW j \in count..SLOTS - 1 PROVE t[j] = Bo!Garbage
    <3>1. pairs[j] = Bo!Garbage /\ j # i /\ j \in 0..SLOTS - 1
      BY <1>2 DEF BoogshInv, HistoryOf
    <3> QED
      BY <1>4, <3>1
  <2> QED
    BY <1>4, <2>1, <2>2 DEF BoogshInv, HistoryOf
<1> QED
  BY <1>1, <1>3, <1>5, TurnKeeps

\* A set of numbers below n that has a member has a greatest one.
LEMMA Greatest ==
  ASSUME NEW n \in Nat, NEW S \in SUBSET (0..n - 1), S # {}
  PROVE  \E i \in S : \A j \in S : j <= i
<1> DEFINE T == {n - i : i \in S}
<1>1. T \in SUBSET Nat /\ T # {}
  <2>1. \A i \in S : n - i \in Nat
    OBVIOUS
  <2> QED
    BY <2>1
<1> HIDE DEF T
<1>2. PICK q \in T : \A r \in T : q <= r
  BY <1>1, NaP!Least
<1> USE DEF T
<1>3. PICK i \in S : q = n - i
  BY <1>2
<1>4. \A j \in S : n - i <= n - j /\ j \in Nat /\ i \in Nat
  BY <1>2, <1>3
<1> QED
  BY <1>4

LEMMA BoogshInit == ASSUME Bo!Init PROVE BoogshInv
<1>1. /\ pairs = [i \in 0..SLOTS - 1 |-> Bo!Garbage] /\ count = 0 /\ total_count = 1 /\ log = <<>>
  BY DEF Bo!Init
<1>2. log \in Seq(Bo!Command) /\ Len(log) = 0
  BY <1>1
<1> QED
  BY <1>1, <1>2, BoogshSizes DEF BoogshInv, HistoryOf

LEMMA BoogshNext == ASSUME BoogshInv, Bo!Next PROVE BoogshInv'
<1>1. CASE UNCHANGED Bo!history
  BY <1>1 DEF BoogshInv, HistoryOf, EntryOf, Bo!history
<1>2. ASSUME NEW c \in Bo!Command, Bo!EndTurn(pairs, c) PROVE BoogshInv'
  BY <1>2, TurnKeeps DEF BoogshInv
<1>3. ASSUME NEW found \in SUBSET Bo!Window, Bo!SearchFor(found) PROVE BoogshInv'
  <2>1. CASE found = {}
    BY <1>1, <1>3, <2>1 DEF Bo!SearchFor, Bo!NotFound
  <2>2. CASE found # {}
    <3>1. Bo!Window = 0..count - 1 /\ count \in Nat
      BY BoogshSizes DEF Bo!Window, BoogshInv, HistoryOf
    <3>2. \E i \in found : \A j \in found : j <= i
      BY <2>2, <3>1, Greatest
    <3>3. (CHOOSE i \in found : \A j \in found : j <= i) \in Bo!Window
      BY <3>2
    <3> QED
      BY <1>3, <2>2, <3>3, ReplayKeeps DEF Bo!SearchFor
  <2> QED
    BY <2>1, <2>2
<1>4. CASE Bo!RepeatHistory
  <2>1. total_count - 1 >= count /\ total_count - 1 \in Nat /\ count \in Nat
    BY BoogshSizes DEF BoogshInv, HistoryOf
  <2>2. total_count - 1 \in DOMAIN pairs => pairs[total_count - 1] = Bo!Garbage
    BY <2>1 DEF BoogshInv, HistoryOf
  <2> QED
    BY <1>1, <1>2, <1>4, <2>2 DEF Bo!RepeatHistory
<1>5. CASE \E c \in Bo!Command : Bo!TypedCommand(c)
  BY <1>2, <1>5 DEF Bo!TypedCommand
<1>6. CASE Bo!BlankLine
  BY <1>1, <1>6 DEF Bo!BlankLine
<1>7. CASE \E n \in 1..MaxTotal : Bo!SearchByNum(n)
  BY <1>3, <1>7 DEF Bo!SearchByNum
<1>8. CASE \E matching \in SUBSET Names : Bo!SearchByCmd(matching)
  BY <1>3, <1>8 DEF Bo!SearchByCmd
<1> QED
  BY <1>4, <1>5, <1>6, <1>7, <1>8 DEF Bo!Next

LEMMA BoogshSafe == ASSUME BoogshInv PROVE Bo!WindowExact /\ Bo!NumbersStable
<1>1. /\ total_count = Len(log) + 1 /\ Len(log) \in Nat
      /\ count = IF Len(log) < LIMIT THEN Len(log) ELSE LIMIT
  BY DEF BoogshInv, HistoryOf
<1>2. ASSUME NEW i \in Bo!Window PROVE EntryOf(pairs, i, count, log)
  BY DEF BoogshInv, HistoryOf, Bo!Window
<1>3. Bo!WindowExact
  <2>1. ASSUME NEW i \in Bo!Window PROVE pairs[i].val = total_count - count + i
    <3>1. pairs[i] = [val |-> Len(log) + 1 - count + i, command |-> pairs[i].command]
      BY <1>2 DEF EntryOf
    <3>2. pairs[i].val = Len(log) + 1 - count + i
      BY ONLY <3>1
    <3>3. i \in Int
      BY DEF Bo!Window
    <3> QED
      BY <1>1, <3>2, <3>3, BoogshSizes
  <2>2. count = IF total_count - 1 < LIMIT THEN total_count - 1 ELSE LIMIT
    BY <1>1
  <2> QED
    BY <2>1, <2>2 DEF Bo!WindowExact
<1>4. Bo!NumbersStable
  BY <1>2 DEF Bo!NumbersStable, EntryOf
<1> QED
  BY <1>3, <1>4

-----------------------------------------------------------------------------
(* The parts together.                                                      *)

PartsInv ==
  /\ sys = "files" => FiP!FilesInv
  /\ sys = "narrow" => NaP!Inv
  /\ sys = "wide" => WiP!Inv
  /\ sys = "boogsh" => BoogshInv

LEMMA Assumptions == NaP!DiskAssumption /\ WiP!DiskAssumption /\ FiP!FilesAssumption
BY PartsAssumption, SameNarrowAssumption, SameWideAssumption, SameFilesAssumption

LEMMA PartsInit == ASSUME Init PROVE PartsInv
<1>1. CASE sys = "narrow"
  <2>1. NaP!Init
    BY <1>1, SameNarrowInit DEF Init
  <2> QED
    BY <1>1, <2>1, Assumptions, NaP!InitInv DEF PartsInv
<1>2. CASE sys = "wide"
  <2>1. WiP!Init
    BY <1>2, SameWideInit DEF Init
  <2> QED
    BY <1>2, <2>1, Assumptions, WiP!InitInv DEF PartsInv
<1>3. CASE sys = "boogsh"
  <2>1. Bo!Init
    BY <1>3 DEF Init
  <2> QED
    BY <1>3, <2>1, BoogshInit DEF PartsInv
<1>4. CASE sys = "files"
  <2>1. FiP!Init
    BY <1>4, SameFilesInit DEF Init
  <2> QED
    BY <1>4, <2>1, Assumptions, FiP!FilesInit DEF PartsInv
<1> QED
  BY <1>1, <1>2, <1>3, <1>4 DEF PartsInv

\* A step of one part, or of none.
LEMMA PartsNext == ASSUME PartsInv, [Next]_vars PROVE PartsInv'
<1>1. sys' = sys
  BY DEF Next, NoFiles, NoMemory, NoDisk, NoConsole, NoMalloc, NoBoogsh, NoFilters, vars
<1>2. CASE sys = "narrow"
  <2>1. NaP!Inv
    BY <1>2 DEF PartsInv
  <2>2. Narrow!Next \/ UNCHANGED vars
    BY <1>2 DEF Next
  <2>3. CASE Narrow!Next
    BY <1>1, <1>2, <2>1, <2>3, Assumptions, SameNarrowNext, NaP!NextInv DEF PartsInv
  <2>4. CASE UNCHANGED vars
    <3>1. UNCHANGED NaP!vars
      BY <2>4 DEF vars, NaP!vars, NaP!bvars, NaP!dvars
    <3> QED
      BY <1>1, <1>2, <2>1, <3>1, NaP!StutterInv DEF PartsInv
  <2> QED
    BY <2>2, <2>3, <2>4
<1>3. CASE sys = "wide"
  <2>1. WiP!Inv
    BY <1>3 DEF PartsInv
  <2>2. Wide!Next \/ UNCHANGED vars
    BY <1>3 DEF Next
  <2>3. CASE Wide!Next
    BY <1>1, <1>3, <2>1, <2>3, Assumptions, SameWideNext, WiP!NextInv DEF PartsInv
  <2>4. CASE UNCHANGED vars
    <3>1. UNCHANGED WiP!vars
      BY <2>4 DEF vars, WiP!vars, WiP!bvars, WiP!dvars
    <3> QED
      BY <1>1, <1>3, <2>1, <3>1, WiP!StutterInv DEF PartsInv
  <2> QED
    BY <2>2, <2>3, <2>4
<1>4. CASE sys = "boogsh"
  <2>1. BoogshInv
    BY <1>4 DEF PartsInv
  <2>2. Bo!Next \/ UNCHANGED vars
    BY <1>4 DEF Next
  <2>3. CASE Bo!Next
    BY <1>1, <1>4, <2>1, <2>3, BoogshNext DEF PartsInv
  <2>4. CASE UNCHANGED vars
    BY <1>1, <1>4, <2>1, <2>4 DEF PartsInv, BoogshInv, HistoryOf, EntryOf, vars
  <2> QED
    BY <2>2, <2>3, <2>4
<1>5. CASE sys = "files"
  <2>1. FiP!FilesInv
    BY <1>5 DEF PartsInv
  <2>2. Fi!Next \/ UNCHANGED vars
    BY <1>5 DEF Next
  <2>3. CASE Fi!Next
    BY <1>1, <1>5, <2>1, <2>3, Assumptions, SameFilesNext, FiP!FilesNext DEF PartsInv
  <2>4. CASE UNCHANGED vars
    <3>1. UNCHANGED <<disk, home, iref, file, ofile, pipe, loc>>
      BY <2>4 DEF vars
    <3> QED
      BY <1>1, <1>5, <2>1, <3>1, FiP!FilesStutter DEF PartsInv
  <2> QED
    BY <2>2, <2>3, <2>4
<1> QED
  BY <1>1, <1>2, <1>3, <1>4, <1>5 DEF PartsInv

LEMMA Inductive == Spec => []PartsInv
BY PartsInit, PartsNext, PTL DEF Spec

\* bget() gives two processes the same copy of a block, and who has locked it reads
\* what was written last.
THEOREM CacheCoherent == Spec => []OneCopy
<1>1. PartsInv => OneCopy
  BY Assumptions, SameNarrowCopies, SameWideCopies, NaP!InvSeesLatest, WiP!InvSeesLatest
  DEF PartsInv, OneCopy, Cache, NaP!Inv, WiP!Inv
<1> QED
  BY <1>1, Inductive, PTL

\* virtio_disk_rw() and its handler lose neither a descriptor nor a wakeup nor a
\* completion, whatever the number of buffers and with two buffers for a process.
THEOREM DriverServes == Spec => []DiskServes
<1>1. PartsInv => DiskServes
  BY Assumptions, SameNarrowServes, SameWideServes, NaP!InvDescriptors, WiP!InvDescriptors,
     NaP!InvNoLostWakeup, WiP!InvNoLostWakeup DEF PartsInv, DiskServes, Cache, NaP!Inv, WiP!Inv
<1> QED
  BY <1>1, Inductive, PTL

\* add_history() keeps the last commands, each under its number.
THEOREM HistoryExact == Spec => []WindowExact
<1>1. PartsInv => WindowExact
  BY BoogshSafe DEF PartsInv, WindowExact
<1> QED
  BY <1>1, Inductive, PTL

\* The file layer counts the descriptors on an open file and the files and calls on
\* an inode exactly, over dup(), fork(), close() and exit(); bmap() and itrunc() keep
\* each block of the bitmap in one place of one inode, whatever writei() meets; and
\* writei() leaves no hole below the size.
THEOREM FilesHold == Spec => []FilesExact
<1>1. PartsInv => FilesExact
  BY Assumptions, SameFilesSafe, FiP!FilesSafe DEF PartsInv, FilesExact
<1> QED
  BY <1>1, Inductive, PTL

\* The file layer implements ByteFiles: fileread() moves the position over bytes that
\* are there, a chunk of filewrite() puts its bytes where the position is and nowhere
\* else, over the chain of blocks that bmap() builds; only open() with O_TRUNC and the
\* last iput() take bytes away; and the bytes that a chunk counted survive a crash and
\* the recycling of their buffers, while those of a copy that failed may go back.
THEOREM BytesHold == Spec => ByteSpec
<1> DEFINE Step == sys = "files" => UNCHANGED Fi!Bytes!bvars \/ Fi!Bytes!Next
<1>1. Init => (sys = "files" => Fi!Bytes!Init)
  <2> SUFFICES ASSUME Init, sys = "files" PROVE Fi!Bytes!Init
    OBVIOUS
  <2>1. FiP!Init
    BY SameFilesInit DEF Init
  <2> QED
    BY <2>1, Assumptions, SameByteFiles, FiP!BytesInit
<1>2. PartsInv /\ [Next]_vars => [Step]_vars
  <2> SUFFICES ASSUME PartsInv, Next, ~UNCHANGED vars, sys = "files"
               PROVE  UNCHANGED Fi!Bytes!bvars \/ Fi!Bytes!Next
    OBVIOUS
  <2>1. Fi!Next
    BY DEF Next
  <2>2. FiP!FilesInv
    BY DEF PartsInv
  <2> QED
    BY <2>1, <2>2, Assumptions, SameFilesNext, SameByteFiles, FiP!FilesBytes
<1> QED
  BY <1>1, <1>2, Inductive, PTL DEF Spec, ByteSpec
=============================================================================
