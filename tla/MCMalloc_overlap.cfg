\* A free block that has room for the bytes asked for but not for their header.
CONSTANTS
  PageSize = 128
  Requests = {16, 80}
  MaxHeap = 272
  Width = 65536
SPECIFICATION Spec
INVARIANTS Disjoint
