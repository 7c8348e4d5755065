SPECIFICATION Spec
CONSTANTS
  Images <- MCImages
  Base = 40
  HeapBase = 60
  Ints = 128
  Exports <- MCExports
  PageSize = 4
INVARIANTS Linked SegmentsLoaded
CHECK_DEADLOCK FALSE
