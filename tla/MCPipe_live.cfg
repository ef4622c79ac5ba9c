CONSTANTS
  Proc = {r1, r2, w1}
  Readers = {r1, r2}
  Writers = {w1}
  Killable = {r1, w1}
  Byte = {x}
  None = None
  PIPESIZE = 1
  WRAP = 2
  MaxN = 2
SPECIFICATION LiveSpec
PROPERTIES CallsReturn
CHECK_DEADLOCK FALSE
