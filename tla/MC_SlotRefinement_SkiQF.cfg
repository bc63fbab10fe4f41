SPECIFICATION RSpec
CONSTANTS
  QuotientBits = 2
  BitsPerSlot = 2
  HashBits = 10
  SlotsPerBlock = 2
  XnSlots = 8
  OffsetMax = 3
  Keys <- MC_Keys
  NumKeys = 5
  FullPoint = 5
  BreakEven = 2
  Policy = "SkiQF"
  MapKind = "SplinterDB"
  CountCap = 1
INVARIANTS RefusedOnlyWhenFull
PROPERTIES RefinesAdaptiveFilter EventuallyCorrected
CHECK_DEADLOCK FALSE
