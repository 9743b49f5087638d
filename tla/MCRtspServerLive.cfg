SPECIFICATION FairSpec
CONSTANTS
  Conns = {c1, c2}
  Sessions = {s1}
  Ids = {i1}
  Smses = {m1, m2}
  Names = {movie}
  Streamable = {movie}
  None = None
  MaxRequests = 4
PROPERTY SilentIsReclaimed
CHECK_DEADLOCK FALSE
