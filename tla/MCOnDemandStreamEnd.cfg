SPECIFICATION FairSpec
CONSTANTS
  Sessions = {s1}
  Streams = {k1}
  Players = {p1, p2}
  None = None
  MaxFrames = 2
PROPERTY PlayersEnd
CHECK_DEADLOCK FALSE
