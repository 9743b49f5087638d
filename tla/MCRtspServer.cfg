SPECIFICATION Spec
CONSTANTS
  Conns = {c1, c2}
  Sessions = {s1, s2}
  Ids = {i1, i2}
  Smses = {m1, m2}
  Names = {movie, song}
  Streamable = {movie}
  None = None
  MaxRequests = 3
SYMMETRY Symmetries
INVARIANTS TypeOK DestroyedIsNotFound EntryHasItsId RegisteredIsWatched
PROPERTIES ClosedLeavesNoSession RegistrySpec
CHECK_DEADLOCK FALSE
