SPECIFICATION Spec
CONSTANTS
  MAXIMUM_NUMBER_OF_PWD = 4
  COUNT_MOD = 2
  Names = {0, 1}
  CutAnywhere = TRUE
INVARIANT WalksEnd
