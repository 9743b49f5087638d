SPECIFICATION Spec
CONSTANTS
  SeqSpace = 12
  MaxPacketSize = 10
  MaxSizes = {40}
  NalSizes = {2, 13}
  PayloadType = 96
  PayloadFormat = 96
  FirstSeqNos = {0}
  MaxNals = 2
  MaxPauses = 1
  Ssrcs = {1, 2}
  ExtMod = 48
  TsMod = 16
  FirstForeign = {10}
  MaxForeign = 0
  MaxArrivals <- MCNoArrivals
PROPERTY KeptIsUsed
CHECK_DEADLOCK FALSE
