SPECIFICATION Spec
CONSTANTS
  QuotientBits = 3
  BitsPerSlot = 2
  HashBits = 9
  SlotsPerBlock = 2
  XnSlots = 18
  OffsetMax = 3
  Keys <- MC_LongRun
INVARIANTS FoundByOwnFingerprint
CHECK_DEADLOCK FALSE
