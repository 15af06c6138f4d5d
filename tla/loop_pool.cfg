CONSTANTS
  MaxThreads = 2
  ThreadNums <- UpToMax
  Builds <- Both
  MaxArrivals = 3
  Null = Null
SPECIFICATION FairSpec
INVARIANTS IInv HandedLive Balanced EdgeKept
PROPERTIES GivenIsTaken PoolStarts QuitEnds
CHECK_DEADLOCK FALSE
