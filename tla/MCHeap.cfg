SPECIFICATION FairSpec
CONSTANTS
  HEAP_START = 2
  Hdr = 1
  PtrSize = 1
  PageSize = 2
  HeapSize = 11
  Sizes = {2, 3, 30}
  Aligns = {2}
INVARIANTS Tiling Links Coalesced AlignedInside
PROPERTIES Returns ImplementsAllocator
CHECK_DEADLOCK FALSE
