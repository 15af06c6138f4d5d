CONSTANTS
  Capacity = 5000
  Lens <- LineLengths
  MaxAppends = 8
  BacklogLimit = 1
  SmallBuffer = 4000
  NumericSize = 32
  Scripts <- All
  Null = Null
SPECIFICATION LogFairSpec
INVARIANTS LogIInv BufferForAppend NothingLost LinesSound
PROPERTIES ImplementsLogPipe LoggerStarts StopDrainsOrCrashes AllReachDisk
CHECK_DEADLOCK FALSE
