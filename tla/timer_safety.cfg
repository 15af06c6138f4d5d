CONSTANTS
  Nodes = {n1, n2, n3}
  Timeouts = {1, 3}
  Wrap = 4
SPECIFICATION Spec
INVARIANTS NeverEarly OwnerPresent IInv
PROPERTIES ClearedNeverCloses PassDrains
SYMMETRY Symmetry
