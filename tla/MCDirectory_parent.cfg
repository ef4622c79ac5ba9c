SPECIFICATION Spec
SYMMETRY Symmetry
CONSTANTS
  a = a
  b = b
  p1 = p1
  p2 = p2
  Procs = {p1, p2}
  NInodes = 3
  Names <- MCNames
  Calls <- Nested
  MaxLost = 1
INVARIANT NoPanic
