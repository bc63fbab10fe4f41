SPECIFICATION Spec
CONSTANTS
  QuotientBits = 3
  BitsPerSlot = 2
  HashBits = 9
  SlotsPerBlock = 2
  XnSlots = 14
  OffsetMax = 3
  Keys <- MC_Keys
  NumKeys = 9
  FullPoint = 7
  BreakEven = 2
  Policy = "SkiQF"
  MapKind = "WiredTiger"
  CountCap = 10
INVARIANTS TypeOK RoomLeft LayoutOK BlockOffsetsOK NoFalseNegative SkiRental
PROPERTIES RejectedStays
CHECK_DEADLOCK FALSE
