------------------------------ MODULE MCParts ------------------------------
(* The file layer, memory, the buffer cache with the disk, the console, the   *)
(* user's allocator, the history of Boogshell and the programs that read       *)
(* lines, in one module.  They run apart: `sys' says which of them a behaviour  *)
(* is about, and the variables of the others are 0.                           *)
EXTENDS Integers, Sequences, SequencesExt, TLC
CONSTANTS
  Procs,                                                               \* of three of them
  NFILE, NOFILE, Inodes, NBlocks, BSIZE, NDIRECT, NINDIRECT,           \* of Files
  MaxChunk, Text, FileCounts, MaxCalls, Modes, Width,
  NarrowHands, NarrowProcesses, NarrowBlocks,                          \* of Disk, narrow
  LogBlocks, IndirectBlocks, NBUF, NUM, MaxPins, MaxChanges,
  WideHands, WideProcesses, WideBlocks, WideNUM, WidePins,             \* of Disk, wide
  Names, LIMIT, SLOTS, MaxTotal, MaxCut                                \* of Boogsh
VARIABLES
  sys,
  disk, home, iref, file, ofile, pipe, loc, calls,
  free, proc, lost, panicked, failed,
  buf, lru, chan, desc, info, avail, used, irq, intr, platter, latest, pinned,
  cons, reader, killed,
  heap, brk, fsm, held,
  pairs, count, total_count, exit_status, line, target, ran, log,
  prog, pattern, input, pos, ahead, part, size, from, cnt, out, at

Fi == INSTANCE Files WITH Counts <- FileCounts
\* What the configuration gives it: a text, the counts of its calls, and files opened
\* for both, to append, and to be written anew.
FourBytes == <<1, 2, 1, 2>>
AllOrMinusOne == {3, -1}
M(r, w, t, a) == [readable |-> r, writable |-> w, trunc |-> t, append |-> a]
ThreeModes == {M(TRUE, TRUE, FALSE, FALSE), M(FALSE, TRUE, FALSE, TRUE), M(FALSE, TRUE, TRUE, FALSE)}
\* A segment that ends in mid-page, two segments (the second below the first),
\* nothing.
Me == INSTANCE Memory WITH
  Slots <- {1, 2}, Pages <- 17, Fan <- 2, MaxSz <- 8, MaxArgs <- 1,
  Images <- {<<1>>, <<3, 2>>, <<0>>}, Grows <- {-5, -2, -1, 1, 3}
\* A process with two buffers beside another one, a request at a time; and requests
\* that overlap.
Narrow == INSTANCE Disk WITH Hands <- NarrowHands, Processes <- NarrowProcesses, Blocks <- NarrowBlocks
Wide == INSTANCE Disk WITH Hands <- WideHands, Processes <- WideProcesses, Blocks <- WideBlocks,
  IndirectBlocks <- {}, NUM <- WideNUM, MaxPins <- WidePins, MaxChanges <- 1
\* Two readers, and indices that wrap after two rounds of the buffer.
Co == INSTANCE Console WITH
  Readers <- Procs, INPUT_BUF_SIZE <- 3, UintMax <- 6, Chars <- {"x"}, Counts <- {1, 3}
\* A page holds three blocks: what is left of it is split again, with the free bit
\* in its size, and two pages.
Ma == INSTANCE Malloc WITH PageSize <- 176, Requests <- {16}, MaxHeap <- 368, Width <- 65536
Bo == INSTANCE Boogsh WITH Scripting <- FALSE
\* Lines that fit, fill and pass a buffer of three characters.
Fl == INSTANCE Filters WITH
  Programs <- {"grep", "wc", "gets", "getline", "catlines"}, Patterns <- {<<"a">>}, GREP <- 4, LINE <- 3, READ <- 3,
  Inputs <- SeqOf({"a", " ", "nl", "cr", "nul"}, 3) \cup SeqOf({"a", "nl", "cr"}, 5)
\* Every pattern of three characters, and some longer ones.
Gr == INSTANCE Filters WITH
  Programs <- {"grep"}, GREP <- 5, LINE <- 3, READ <- 3,
  Inputs <- {Append(text, "nl") : text \in SeqOf({"a", "b"}, 3)},
  Patterns <- SeqOf({"a", "b", ".", "*", "^", "$"}, 3) \cup
    {<<"^", "a", "*", "$">>, <<"a", "*", "b", "*">>, <<"a", "*", "$", "*">>, <<"a", ".", "*", "b">>}
ASSUME PartsAssumption ==
  /\ Fi!FilesAssumption /\ Ma!MallocAssumption /\ Bo!BoogshAssumption
  /\ Narrow!DiskAssumption /\ Wide!DiskAssumption

vars == <<sys, disk, home, iref, file, ofile, pipe, loc, calls, free, proc, lost, panicked, failed, buf, lru,
  chan, desc, info, avail, used, irq, intr, platter, latest, pinned, cons, reader, killed,
  heap, brk, fsm, held, pairs, count, total_count, exit_status, line, target, ran, log, prog,
  pattern, input, pos, ahead, part, size, from, cnt, out, at>>

Init ==
  \/ /\ sys = "files" /\ Fi!Init
     /\ free = 0 /\ proc = 0 /\ lost = 0 /\ panicked = 0 /\ failed = 0 /\ buf = 0 /\ lru = 0
     /\ chan = 0 /\ desc = 0 /\ info = 0 /\ avail = 0 /\ used = 0 /\ irq = 0 /\ intr = 0
     /\ platter = 0 /\ latest = 0 /\ pinned = 0 /\ cons = 0 /\ reader = 0 /\ killed = 0
     /\ heap = 0 /\ brk = 0 /\ fsm = 0 /\ held = 0 /\ pairs = 0 /\ count = 0
     /\ total_count = 0 /\ exit_status = 0 /\ line = 0 /\ target = 0 /\ ran = 0 /\ log = 0
     /\ prog = 0 /\ pattern = 0 /\ input = 0 /\ pos = 0 /\ ahead = 0 /\ part = 0 /\ size = 0
     /\ from = 0 /\ cnt = 0 /\ out = 0 /\ at = 0
  \/ /\ sys = "memory" /\ Me!Init
     /\ disk = 0 /\ home = 0 /\ iref = 0 /\ file = 0 /\ ofile = 0 /\ pipe = 0 /\ loc = 0 /\ calls = 0
     /\ buf = 0 /\ lru = 0 /\ chan = 0 /\ desc = 0 /\ info = 0 /\ avail = 0 /\ used = 0
     /\ irq = 0 /\ intr = 0 /\ platter = 0 /\ latest = 0 /\ pinned = 0 /\ cons = 0
     /\ reader = 0 /\ killed = 0 /\ heap = 0 /\ brk = 0 /\ fsm = 0 /\ held = 0 /\ pairs = 0
     /\ count = 0 /\ total_count = 0 /\ exit_status = 0 /\ line = 0 /\ target = 0 /\ ran = 0
     /\ log = 0 /\ prog = 0 /\ pattern = 0 /\ input = 0 /\ pos = 0 /\ ahead = 0 /\ part = 0
     /\ size = 0 /\ from = 0 /\ cnt = 0 /\ out = 0 /\ at = 0
  \/ /\ sys = "narrow" /\ Narrow!Init
     /\ disk = 0 /\ home = 0 /\ iref = 0 /\ file = 0 /\ ofile = 0 /\ pipe = 0 /\ loc = 0 /\ calls = 0
     /\ lost = 0 /\ panicked = 0 /\ failed = 0 /\ cons = 0 /\ reader = 0 /\ killed = 0
     /\ heap = 0 /\ brk = 0 /\ fsm = 0 /\ held = 0 /\ pairs = 0 /\ count = 0
     /\ total_count = 0 /\ exit_status = 0 /\ line = 0 /\ target = 0 /\ ran = 0 /\ log = 0
     /\ prog = 0 /\ pattern = 0 /\ input = 0 /\ pos = 0 /\ ahead = 0 /\ part = 0 /\ size = 0
     /\ from = 0 /\ cnt = 0 /\ out = 0 /\ at = 0
  \/ /\ sys = "wide" /\ Wide!Init
     /\ disk = 0 /\ home = 0 /\ iref = 0 /\ file = 0 /\ ofile = 0 /\ pipe = 0 /\ loc = 0 /\ calls = 0
     /\ lost = 0 /\ panicked = 0 /\ failed = 0 /\ cons = 0 /\ reader = 0 /\ killed = 0
     /\ heap = 0 /\ brk = 0 /\ fsm = 0 /\ held = 0 /\ pairs = 0 /\ count = 0
     /\ total_count = 0 /\ exit_status = 0 /\ line = 0 /\ target = 0 /\ ran = 0 /\ log = 0
     /\ prog = 0 /\ pattern = 0 /\ input = 0 /\ pos = 0 /\ ahead = 0 /\ part = 0 /\ size = 0
     /\ from = 0 /\ cnt = 0 /\ out = 0 /\ at = 0
  \/ /\ sys = "console" /\ Co!Init
     /\ disk = 0 /\ home = 0 /\ iref = 0 /\ file = 0 /\ ofile = 0 /\ pipe = 0 /\ loc = 0 /\ calls = 0
     /\ free = 0 /\ proc = 0 /\ lost = 0 /\ panicked = 0 /\ failed = 0 /\ buf = 0 /\ lru = 0
     /\ chan = 0 /\ desc = 0 /\ info = 0 /\ avail = 0 /\ used = 0 /\ irq = 0 /\ intr = 0
     /\ platter = 0 /\ latest = 0 /\ pinned = 0 /\ heap = 0 /\ brk = 0 /\ fsm = 0
     /\ held = 0 /\ pairs = 0 /\ count = 0 /\ total_count = 0 /\ exit_status = 0 /\ line = 0
     /\ target = 0 /\ ran = 0 /\ log = 0 /\ prog = 0 /\ pattern = 0 /\ input = 0 /\ pos = 0
     /\ ahead = 0 /\ part = 0 /\ size = 0 /\ from = 0 /\ cnt = 0 /\ out = 0 /\ at = 0
  \/ /\ sys = "malloc" /\ Ma!Init
     /\ disk = 0 /\ home = 0 /\ iref = 0 /\ file = 0 /\ ofile = 0 /\ pipe = 0 /\ loc = 0 /\ calls = 0
     /\ free = 0 /\ proc = 0 /\ lost = 0 /\ panicked = 0 /\ failed = 0 /\ buf = 0 /\ lru = 0
     /\ chan = 0 /\ desc = 0 /\ info = 0 /\ avail = 0 /\ used = 0 /\ irq = 0 /\ intr = 0
     /\ platter = 0 /\ latest = 0 /\ pinned = 0 /\ cons = 0 /\ reader = 0 /\ killed = 0
     /\ pairs = 0 /\ count = 0 /\ total_count = 0 /\ exit_status = 0 /\ line = 0
     /\ target = 0 /\ ran = 0 /\ log = 0 /\ prog = 0 /\ pattern = 0 /\ input = 0 /\ pos = 0
     /\ ahead = 0 /\ part = 0 /\ size = 0 /\ from = 0 /\ cnt = 0 /\ out = 0 /\ at = 0
  \/ /\ sys = "boogsh" /\ Bo!Init
     /\ disk = 0 /\ home = 0 /\ iref = 0 /\ file = 0 /\ ofile = 0 /\ pipe = 0 /\ loc = 0 /\ calls = 0
     /\ free = 0 /\ proc = 0 /\ lost = 0 /\ panicked = 0 /\ failed = 0 /\ buf = 0 /\ lru = 0
     /\ chan = 0 /\ desc = 0 /\ info = 0 /\ avail = 0 /\ used = 0 /\ irq = 0 /\ intr = 0
     /\ platter = 0 /\ latest = 0 /\ pinned = 0 /\ cons = 0 /\ reader = 0 /\ killed = 0
     /\ heap = 0 /\ brk = 0 /\ fsm = 0 /\ held = 0 /\ prog = 0 /\ pattern = 0 /\ input = 0
     /\ pos = 0 /\ ahead = 0 /\ part = 0 /\ size = 0 /\ from = 0 /\ cnt = 0 /\ out = 0
     /\ at = 0
  \/ /\ sys = "filters" /\ Fl!Init
     /\ disk = 0 /\ home = 0 /\ iref = 0 /\ file = 0 /\ ofile = 0 /\ pipe = 0 /\ loc = 0 /\ calls = 0
     /\ free = 0 /\ proc = 0 /\ lost = 0 /\ panicked = 0 /\ failed = 0 /\ buf = 0 /\ lru = 0
     /\ chan = 0 /\ desc = 0 /\ info = 0 /\ avail = 0 /\ used = 0 /\ irq = 0 /\ intr = 0
     /\ platter = 0 /\ latest = 0 /\ pinned = 0 /\ cons = 0 /\ reader = 0 /\ killed = 0
     /\ heap = 0 /\ brk = 0 /\ fsm = 0 /\ held = 0 /\ pairs = 0 /\ count = 0
     /\ total_count = 0 /\ exit_status = 0 /\ line = 0 /\ target = 0 /\ ran = 0 /\ log = 0
  \/ /\ sys = "grep" /\ Gr!Init
     /\ disk = 0 /\ home = 0 /\ iref = 0 /\ file = 0 /\ ofile = 0 /\ pipe = 0 /\ loc = 0 /\ calls = 0
     /\ free = 0 /\ proc = 0 /\ lost = 0 /\ panicked = 0 /\ failed = 0 /\ buf = 0 /\ lru = 0
     /\ chan = 0 /\ desc = 0 /\ info = 0 /\ avail = 0 /\ used = 0 /\ irq = 0 /\ intr = 0
     /\ platter = 0 /\ latest = 0 /\ pinned = 0 /\ cons = 0 /\ reader = 0 /\ killed = 0
     /\ heap = 0 /\ brk = 0 /\ fsm = 0 /\ held = 0 /\ pairs = 0 /\ count = 0
     /\ total_count = 0 /\ exit_status = 0 /\ line = 0 /\ target = 0 /\ ran = 0 /\ log = 0

\* What a component leaves alone.
NoFiles == <<sys, free, proc, lost, panicked, failed, buf, lru, chan, desc, info, avail, used, irq, intr,
  platter, latest, pinned, cons, reader, killed, heap, brk, fsm, held, pairs, count,
  total_count, exit_status, line, target, ran, log, prog, pattern, input, pos, ahead, part,
  size, from, cnt, out, at>>
NoMemory == <<sys, disk, home, iref, file, ofile, pipe, loc, calls, buf, lru, chan, desc, info, avail, used, irq,
  intr, platter, latest, pinned, cons, reader, killed, heap, brk, fsm, held, pairs, count,
  total_count, exit_status, line, target, ran, log, prog, pattern, input, pos, ahead, part,
  size, from, cnt, out, at>>
NoDisk == <<sys, disk, home, iref, file, ofile, pipe, loc, calls, lost, panicked, failed, cons, reader, killed,
  heap, brk, fsm, held, pairs, count, total_count, exit_status, line, target, ran, log,
  prog, pattern, input, pos, ahead, part, size, from, cnt, out, at>>
NoConsole == <<sys, disk, home, iref, file, ofile, pipe, loc, calls, free, proc, lost, panicked, failed, buf, lru,
  chan, desc, info, avail, used, irq, intr, platter, latest, pinned, heap, brk, fsm, held,
  pairs, count, total_count, exit_status, line, target, ran, log, prog, pattern, input,
  pos, ahead, part, size, from, cnt, out, at>>
NoMalloc == <<sys, disk, home, iref, file, ofile, pipe, loc, calls, free, proc, lost, panicked, failed, buf, lru,
  chan, desc, info, avail, used, irq, intr, platter, latest, pinned, cons, reader, killed,
  pairs, count, total_count, exit_status, line, target, ran, log, prog, pattern, input,
  pos, ahead, part, size, from, cnt, out, at>>
NoBoogsh == <<sys, disk, home, iref, file, ofile, pipe, loc, calls, free, proc, lost, panicked, failed, buf, lru,
  chan, desc, info, avail, used, irq, intr, platter, latest, pinned, cons, reader, killed,
  heap, brk, fsm, held, prog, pattern, input, pos, ahead, part, size, from, cnt, out, at>>
NoFilters == <<sys, disk, home, iref, file, ofile, pipe, loc, calls, free, proc, lost, panicked, failed, buf, lru,
  chan, desc, info, avail, used, irq, intr, platter, latest, pinned, cons, reader, killed,
  heap, brk, fsm, held, pairs, count, total_count, exit_status, line, target, ran, log>>
Next ==
  \/ sys = "files" /\ Fi!Next /\ UNCHANGED NoFiles
  \/ sys = "memory" /\ Me!Next /\ UNCHANGED NoMemory
  \/ sys = "narrow" /\ Narrow!Next /\ UNCHANGED NoDisk
  \/ sys = "wide" /\ Wide!Next /\ UNCHANGED NoDisk
  \/ sys = "console" /\ Co!Next /\ UNCHANGED NoConsole
  \/ sys = "malloc" /\ Ma!Next /\ UNCHANGED NoMalloc
  \/ sys = "boogsh" /\ Bo!Next /\ UNCHANGED NoBoogsh
  \/ sys = "filters" /\ Fl!Next /\ UNCHANGED NoFilters
  \/ sys = "grep" /\ Gr!Next /\ UNCHANGED NoFilters
  \/ sys = "memory" /\ panicked # "" /\ UNCHANGED vars   \* the machine stands still
  \/ sys \in {"filters", "grep"} /\ at = "ended" /\ UNCHANGED vars   \* the program has ended
Spec == Init /\ [][Next]_vars

\* Processes are interchangeable.
Sym == Permutations(Procs)

Cache(N, W) == (sys = "narrow" => N) /\ (sys = "wide" => W)
Lines(L, G) == (sys = "filters" => L) /\ (sys = "grep" => G)

\* Every step of the file layer is an operation on byte files, or looks like nothing.
ByteSpec ==
  (sys = "files" => Fi!Bytes!Init) /\ [][sys = "files" => UNCHANGED Fi!Bytes!bvars \/ Fi!Bytes!Next]_vars

\* The counts of open files and of inodes are those of the descriptors and files
\* that refer to them; every block of the disk is free or in one place of one file;
\* no byte below the size of a file is in a block that was never given to it.
FilesExact ==
  sys = "files" => Fi!RefsExact /\ Fi!InodeRefsExact /\ Fi!BlocksExact /\ Fi!NoHoles

\* Pages are neither lost nor used twice, the only panics are the known ones, a
\* process has the pages its size says, and a call that fails leaves memory as it was.
MemoryExact ==
  /\ [](sys = "memory" => Me!Conserved /\ Me!NoPanic /\ Me!SizeExact)
  /\ [][sys = "memory" => Me!FailsClean]_vars

\* A block is in one buffer at most, and who holds the buffer reads what was written
\* last, across eviction, pins and the log.
OneCopy ==
  /\ Cache(Narrow!OneCopy, Wide!OneCopy)
  /\ Cache(Narrow!SeesLatest, Wide!SeesLatest)

\* The driver loses no descriptor, whoever sleeps on a buffer, on a request or on
\* descriptors has a wakeup to come, and no completion is left without a handler.
DiskServes ==
  /\ Cache(Narrow!DescriptorsExact, Wide!DescriptorsExact)
  /\ Cache(Narrow!NoLostWakeup, Wide!NoLostWakeup)
  /\ Cache(Narrow!CompletionSeen, Wide!CompletionSeen)

\* Every step of the console is one of line input or looks like nothing, the indices
\* keep their order across their wrap, nobody sleeps while a line is there, a full
\* buffer can be read, and ^D ends one read without data and no other.
LineSpec ==
  /\ sys = "console" => Co!Lines!Init
  /\ [][sys = "console" => (Co!Lines!Next \/ UNCHANGED Co!Lines!lvars) /\ Co!EofIsEaten]_vars
  /\ [](sys = "console" => Co!IndicesInOrder /\ Co!NoSleepOnLine /\ Co!FullIsReadable)

\* The blocks of the heap tile it, up to the byte by which a split of a free block
\* is late; what is handed out overlaps nothing else that is, and no header behind
\* the first byte of its name; the free list holds the free blocks, once each, in
\* both directions.
HeapExact == sys = "malloc" => Ma!FreeListExact /\ Ma!Tiled /\ Ma!Disjoint

\* The window shows the last commands in order, and each keeps the number it got.
WindowExact == sys = "boogsh" => Bo!WindowExact /\ Bo!NumbersStable

\* However a read cuts the input: a reader always has room for the next one, grep
\* prints the lines its pattern matches, wc counts words across reads, and the
\* others give back the lines that are there.
LinesExact ==
  /\ Lines(Fl!RoomKept /\ Fl!GrepExact, Gr!RoomKept /\ Gr!GrepExact)
  /\ sys = "filters" => Fl!CountsExact /\ Fl!LinesExact

\* The types of all of them.
TypeOK ==
  /\ sys = "files" => Fi!TypeOK
  /\ sys = "memory" => Me!TypeOK
  /\ Cache(Narrow!TypeOK, Wide!TypeOK)
  /\ sys = "console" => Co!TypeOK
  /\ sys = "malloc" => Ma!TypeOK
  /\ sys = "boogsh" => Bo!TypeOK
  /\ Lines(Fl!TypeOK, Gr!TypeOK)
=============================================================================
