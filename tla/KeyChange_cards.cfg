SPECIFICATION Spec
CONSTANTS
  SIZE_MEMORY_MAP = 1
  BITS = 2
  MAXIMUM_NUMBER_OF_PWD = 2
  Used = {0}
  Keys = {k1, k2, k3}
  NoKey = NoKey
  Cards = {d1,d2}
  Values = {v1}
  Lost = Lost
  Ops = {"edit","change_key","force_card","force_enter"}
  UseAfterAbort = FALSE
SYMMETRY KeySymmetry
INVARIANT TornOnlyUnderBackup
