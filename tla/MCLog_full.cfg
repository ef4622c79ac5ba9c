\* Every call writes all of the MAXOPBLOCKS blocks it may write.
CONSTANTS
  Proc = {p1, p2, p3}
  Block = {b1, b2, b3}
  Val = {v1}
  Absent = Absent
  NoBlock = NoBlock
  MAXOPBLOCKS = 1
  LOGSIZE = 3
  NLOG = 4
  OpBlocks = 1
SPECIFICATION Spec
SYMMETRY Sym
INVARIANTS NoPanic
