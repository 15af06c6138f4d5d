CONSTANTS
  Conns = {h1, h2, h3}
  Fds = {d1, d2}
  Loops = {l1, l2}
  Silent = {}
  None = None
SPECIFICATION Spec
SYMMETRY Symmetry
INVARIANTS IInv NothingFails CallbacksLive OneTimer
PROPERTIES ClosedForAReason ImplementsDescriptors
