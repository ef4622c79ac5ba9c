\* Files: blocks of two bytes, one direct and two indirect ones in a file, and a disk
\* that two files fill.  Disk: with four descriptors one request at a time, and fewer
\* buffers than hands; with seven, requests overlap.  Boogsh: twice as many commands as
\* the window holds.
SPECIFICATION Spec
CONSTANTS
  Procs = {p1, p2}
  NFILE = 2
  NOFILE = 2
  Inodes = {1, 2}
  NBlocks = 4
  BSIZE = 2
  NDIRECT = 1
  NINDIRECT = 2
  MaxChunk = 2
  Text <- FourBytes
  FileCounts <- AllOrMinusOne
  MaxCalls = 4
  Modes <- ThreeModes
  Width = 16
  NarrowHands = {h1, h2, h3}
  NarrowProcesses = {{h1, h2}, {h3}}
  NarrowBlocks = {k1, k2, k3}
  LogBlocks = {k1}
  IndirectBlocks = {k2}
  NBUF = 2
  NUM = 4
  MaxPins = 1
  MaxChanges = 2
  WideHands = {w1, w2, w3}
  WideProcesses = {{w1}, {w2}, {w3}}
  WideBlocks = {k1, k2}
  WideNUM = 7
  WidePins = 0
  Names = {"ls", "wc"}
  LIMIT = 2
  SLOTS = 4
  MaxTotal = 4
  MaxCut = 1
SYMMETRY Sym
INVARIANTS TypeOK FilesExact OneCopy DiskServes HeapExact WindowExact LinesExact
PROPERTIES  MemoryExact LineSpec
