SPECIFICATION SpecCopies
CONSTANTS
  QuotientBits = 3
  BitsPerSlot = 2
  HashBits = 9
  SlotsPerBlock = 2
  XnSlots = 18
  OffsetMax = 15
  MaxAside = 3
  Keys <- MC_Keys
INVARIANTS TypeOK LayoutOK BlockOffsetsOK TableMatchesFilter FoundByOwnFingerprint IterationExact CopyLaidOut MergeAddsUp CopyAnswers
PROPERTIES RemovalFrees
CHECK_DEADLOCK FALSE
