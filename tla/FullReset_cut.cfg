SPECIFICATION FairSpec
CONSTANTS
  FRAM_BLOCKS = 64
  PAGE_BLOCKS = 4
  INT_BLOCKS = 32
  MaxCuts = 3
INVARIANTS TypeOK InitialisedBlank ResetInv FlagFirst ErasesWhatItReaches
PROPERTY ErasureEnds
CHECK_DEADLOCK FALSE
