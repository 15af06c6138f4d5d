CONSTANTS
  Nodes = {n1, n2}
  Timeouts = {2, 3}
  Wrap = 5
SPECIFICATION Spec
PROPERTY PassDrainsAll
