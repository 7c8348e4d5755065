SPECIFICATION MCSpec
CONSTANTS
  Archives <- MCArchives
  Names <- MCNames
  Required <- MCRequired
  Base = 100
  BlockSize = 4
  Digits = 2
  Word = 64
  MaxEntries = 4
  ArraySize = 5
  Code <- MCCode
  Lines = {0, 1, 12, 14}
  Traps = {14}
  MaxProcesses = 2
  KernelSpace = "kernel"
  LoaderStack = "loader"
INVARIANTS Loaded Counted Decided InBounds Registered OwnSpace InService
PROPERTIES Transparent ExecStarted Served
CHECK_DEADLOCK FALSE
