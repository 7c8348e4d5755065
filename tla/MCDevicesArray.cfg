SPECIFICATION MCSpec
CONSTANTS
  Kinds <- MCKinds
  Junk = junk
  Configs <- MCConfigs
  Buses = 2
  Slots = 2
  Functions = 3
  ArraySize = 4
  Ones = 65535
INVARIANT ArrayFits
CHECK_DEADLOCK FALSE
