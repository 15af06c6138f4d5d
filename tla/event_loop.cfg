CONSTANTS
  Functors = {f1, f2, f3}
  Callers = {c1, c2}
  LoopThread = loop
  Quitters <- Everyone
  EventFdMax = 3
  Builds <- Both
SPECIFICATION FairSpec
INVARIANTS NoLostWakeup IInv
PROPERTIES ImplementsTaskQueue WakeupRead QuitStops PostedRuns
CHECK_DEADLOCK FALSE
