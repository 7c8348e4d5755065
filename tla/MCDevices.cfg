SPECIFICATION MCSpec
CONSTANTS
  Kinds <- MCKinds
  Junk = junk
  Configs <- MCConfigs
  Buses = 2
  Slots = 2
  Functions = 3
  ArraySize = 16
  Ones = 65535
INVARIANTS Identified FunctionsEnumerated
PROPERTIES Polite LoadReturns
CHECK_DEADLOCK FALSE
