SPECIFICATION Spec
CONSTANTS
  Reporters = {timer}
  Destroyers = {teardown}
  NameSize = 3
  OurSsrc = 1
  Foreign <- MCForeign
  MaxSends = 3
INVARIANTS TypeOK AloneIsWhole AcceptsWhatCanBeCut
CHECK_DEADLOCK FALSE
