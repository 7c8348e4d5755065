SPECIFICATION MCSpec
CONSTANTS
  FrameSize = 1
  LowLimit = 6
  MemoryMap <- MCMap
  R = 3
  NFrames = 17
  LowFrames = 12
  PML4 = 1
  PDP = 2
  PD = 3
  PTs <- MCPTs
  Device = 6
  HeapPages <- MCHeapPages
  UserPages <- MCUserPages
  DevicePages <- MCDevicePages
  StackPages <- MCStackPages
INVARIANT WindowAgrees
CHECK_DEADLOCK FALSE
