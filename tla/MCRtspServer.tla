---------------------------- MODULE MCRtspServer ----------------------------
EXTENDS RtspServer, TLC

Symmetries ==
  Permutations(Conns) \cup Permutations(Sessions) \cup Permutations(Smses)
    \cup Permutations(Ids)
=============================================================================
