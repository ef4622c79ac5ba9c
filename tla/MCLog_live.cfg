\* Three callers, room for two: who sleeps is woken.
CONSTANTS
  Proc = {p1, p2, p3}
  Block = {b1, b2}
  Val = {v1}
  Absent = Absent
  NoBlock = NoBlock
  MAXOPBLOCKS = 2
  LOGSIZE = 4
  NLOG = 5
  OpBlocks = 1
SPECIFICATION LiveSpec
PROPERTIES SleepersWake
