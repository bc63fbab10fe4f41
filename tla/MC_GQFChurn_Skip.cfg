SPECIFICATION Spec
CONSTANTS
  QuotientBits = 3
  BitsPerSlot = 2
  HashBits = 9
  SlotsPerBlock = 2
  XnSlots = 18
  OffsetMax = 15
  Keys <- MC_TwoRemainders
PROPERTIES RemovalFrees
CHECK_DEADLOCK FALSE
