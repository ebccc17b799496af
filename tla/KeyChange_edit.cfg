SPECIFICATION Spec
CONSTANTS
  SIZE_MEMORY_MAP = 2
  BITS = 2
  MAXIMUM_NUMBER_OF_PWD = 3
  Used = {0,2}
  Keys = {k1,k2,k3}
  NoKey = NoKey
  Cards = {d1}
  Values={v1,v2}
  Lost = Lost
  Ops = {"edit","change_key"}
  UseAfterAbort = FALSE
SYMMETRY KeySymmetry
INVARIANT TornOnlyUnderBackup
PROPERTY ImplementsVault
