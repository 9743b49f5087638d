SPECIFICATION Spec
CONSTANTS
  Closers = {closer}
  Tracks = 2
  MaxRequests = 4
  MaxUnnumbered = 1
INVARIANTS TypeOK AnswersMatch ChainIsAnswered PlaysWhenSetUp NoPanic ResentOnce
CHECK_DEADLOCK FALSE
