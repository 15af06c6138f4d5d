CONSTANTS
  Conns = {h1, h2}
  Fds = {d1, d2}
  Loops = {l1}
  Silent = {h1}
  None = None
SPECIFICATION FairSpec
PROPERTY QuietCloses
