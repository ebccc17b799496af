SPECIFICATION Spec
CONSTANTS
  SIZE_MEMORY_MAP = 2
  BITS = 2
  MAXIMUM_NUMBER_OF_PWD = 3
  Used = {0, 2}
  Keys = {k1, k2, k3}
  NoKey = NoKey
  Cards = {d1}
  Values = {v1}
  Lost = Lost
  Ops = {"change_key"}
  UseAfterAbort = FALSE
INVARIANT OneKeyForAll
