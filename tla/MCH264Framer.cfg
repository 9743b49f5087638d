SPECIFICATION Spec
CONSTANTS
  Files <- MCFiles
  BankSize = 40
  HeaderSize = 6
  Limit = 30
  MaxPauses = 1
INVARIANTS TypeOK SetsAreUnits PicturesEnd
PROPERTIES GivesTheUnits Ends
CHECK_DEADLOCK FALSE
