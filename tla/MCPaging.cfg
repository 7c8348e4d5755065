SPECIFICATION MCSpec
CONSTANTS
  FrameSize = 1
  LowLimit = 6
  MemoryMap <- MCMap
  R = 3
  NFrames = 17
  LowFrames = 17
  PML4 = 1
  PDP = 2
  PD = 3
  PTs <- MCPTs
  Device = 6
  HeapPages <- MCHeapPages
  UserPages <- MCUserPages
  DevicePages <- MCDevicePages
  StackPages <- MCStackPages
INVARIANTS FramesOnce SpacesShareKernel WindowAgrees UserReaches
PROPERTY MapsOnePage
CHECK_DEADLOCK FALSE
