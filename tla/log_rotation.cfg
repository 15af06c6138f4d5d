CONSTANTS
  Capacity = 5000
  Lens <- LineLengths
  MaxAppends = 8
  BacklogLimit = 25
  SmallBuffer = 4000
  NumericSize = 32
  Scripts <- OnlyRotating
  Null = Null
SPECIFICATION LogFairSpec
PROPERTY StopDrains
CHECK_DEADLOCK FALSE
