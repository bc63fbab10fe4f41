SPECIFICATION Spec
CONSTANTS
  QuotientBits = 3
  BitsPerSlot = 2
  HashBits = 9
  SlotsPerBlock = 2
  XnSlots = 14
  OffsetMax = 3
  Keys <- MC_Keys
  NumKeys = 3
  FullPoint = 8
  BreakEven = 3
  Policy = "SkiQF"
  MapKind = "WiredTiger"
  CountCap = 10
INVARIANTS NoFalseNegative
