SPECIFICATION Spec
CONSTANTS
  SeqSpace = 12
  MaxPacketSize = 10
  MaxSizes = {40}
  NalSizes = {2, 8, 13}
  PayloadType = 96
  PayloadFormat = 96
  FirstSeqNos = {0, 10}
  MaxNals = 2
  MaxPauses = 2
  Ssrcs = {1, 2}
  ExtMod = 48
  TsMod = 16
  FirstForeign = {10}
  MaxForeign = 5
  MaxArrivals <- MCArrivals
INVARIANTS TypeOK FragmentsMakeUnits PacketsCarryFrames MarkerEndsUnit
INVARIANTS HighestIsLatest ListInOrder WaitingHoldsPieces
PROPERTY DeliveredForward
CHECK_DEADLOCK FALSE
