CONSTANTS
  Functors = {f1}
  Callers = {c1}
  LoopThread = loop
  Quitters = {}
  EventFdMax = 4
  Builds <- AsCommitted
SPECIFICATION FairSpec
PROPERTY WakeupHandled
