SPECIFICATION Spec
CONSTANTS
  Streams = {s1, s2}
  RawStreams = {s2}
  InitialPort = 2
  LastPort = 12
  Outsider = outsider
  Client = client
  MaxTaken = 1
  MaxOdd = 1
  Ephemeral <- MCEphemeral
  Descriptions <- MCDescriptions
INVARIANTS TypeOK ReadAsWritten DescribedIsUnderstood PairsAreOwned
PROPERTY SearchEnds
CHECK_DEADLOCK FALSE
