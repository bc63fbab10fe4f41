SPECIFICATION TafSpec
CONSTANTS
  BlockSlots = 2
  CodeBits = 9
  MaxSelector = 3
  TafQ = 2
  TafR = 1
  TafHashBits = 5
  MaxBlocks = 3
  Elts <- MC_Elts
INVARIANTS StoredFound
CHECK_DEADLOCK FALSE
