\* Two calls of up to two blocks share a transaction; crash anywhere.
CONSTANTS
  Proc = {p1, p2}
  Block = {b1, b2, b3}
  Val = {v1, v2}
  Absent = Absent
  NoBlock = NoBlock
  MAXOPBLOCKS = 3
  LOGSIZE = 6
  NLOG = 7
  OpBlocks = 2
SPECIFICATION Spec
SYMMETRY Sym
INVARIANTS TypeOK CacheExact NoPanic LogSpace
PROPERTIES WriteAhead AtomicSpec
