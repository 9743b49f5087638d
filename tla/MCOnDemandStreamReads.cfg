SPECIFICATION Spec
CONSTANTS
  Sessions = {s1, s2}
  Streams = {k1, k2}
  Players = {p1, p2}
  None = None
  MaxFrames = 2
INVARIANT NeverReadsTwice
CHECK_DEADLOCK FALSE
