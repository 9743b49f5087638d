SPECIFICATION Spec
CONSTANTS
  Sessions = {s1, s2}
  Streams = {k1}
  Players = {p1, p2}
  None = None
  MaxFrames = 2
SYMMETRY Symmetries
INVARIANTS TypeOK PlayedWithRtcp ClosedForAReason
PROPERTY StreamsLiveAsAssumed
CHECK_DEADLOCK FALSE
