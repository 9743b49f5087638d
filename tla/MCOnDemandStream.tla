--------------------------- MODULE MCOnDemandStream ---------------------------
EXTENDS OnDemandStream, TLC

Symmetries ==
  Permutations(Sessions) \cup Permutations(Streams) \cup Permutations(Players)
=============================================================================
