SPECIFICATION Spec
CONSTANTS
  HEAP_START = 2
  Hdr = 1
  PtrSize = 1
  PageSize = 2
  HeapSize = 11
  Sizes = {2, 3, 30}
  Aligns = {2}
INVARIANT LiveBlocksMapped
CHECK_DEADLOCK FALSE
