SPECIFICATION Spec
CONSTANTS
  Files <- MCFiles
  BankSize = 12
  HeaderSize = 3
  Limit = 30
  MaxPauses = 0
INVARIANT SavedAllPreviousBytes
CHECK_DEADLOCK FALSE
