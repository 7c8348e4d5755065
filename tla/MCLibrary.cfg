SPECIFICATION MCSpec
CONSTANTS
  Machines <- MCMachines
  Regions = 4
  Missing = 255
  WordSize = 4
  PageSize = 4
  Entries = 2
  Tables = 3
  Bits = 3
  Byte <- MCByte
  Paths <- MCPaths
  Behind <- MCBehind
  Calls <- MCCalls
  UCHAR_MAX = 3
  USHRT_MAX = 7
  UINT_MAX = 31
  ULLONG_MAX = 127
  ULONG_MAX <- MCLong
  POINTER_DIGITS <- MCPointerDigits
  NTOA_BUFFER_SIZE = 9
  SIZE_MAX = 1000
  Cells = 16
INVARIANTS HandedOver KernelLoaded Exact PathTokens TextRendered
PROPERTY DivisionEnds
CHECK_DEADLOCK FALSE
