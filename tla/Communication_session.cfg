SPECIFICATION FairSpec
CONSTANTS
  CDC_TXRX_EPSIZE = 3
  SIZE_BYTES = 1
  ADDRESS_BYTES = 1
  FRAM_BYTE_SIZE = 4
  Commands <- MCCommands
  RightKey <- MCRightKey
  MaxLink = 2
  MaxDepth = 1
INVARIANTS TypeOK OkMeansWritten SessionAgreed Fresh SessionInv FreshInv AskedInv
PROPERTIES WritesAsAsked Answered
