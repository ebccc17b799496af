SPECIFICATION FairSpec
CONSTANTS
  MAXIMUM_NUMBER_OF_PWD = 4
  COUNT_MOD = 2
  Names = {0, 1}
  CutAnywhere = FALSE
INVARIANTS TypeOK ListsIntact ListsSorted CurrentStored LastChunkFree ListInv
PROPERTY OperationEnds
