SPECIFICATION MCSpec
CONSTANTS
  Code = {"run", "poll", "out"}
  Lines = {14, 15}
  Traps = {14}
  FifoSize = 2
  MaxMessages = 2
  MaxIrqs = 2
  BootMessages <- MCMessages
  BiosMasks <- MCMasks
INVARIANTS Delivered Vectored
PROPERTY Logged
CHECK_DEADLOCK FALSE
