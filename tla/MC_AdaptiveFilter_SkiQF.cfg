SPECIFICATION Spec
CONSTANTS
  Keys <- MC_Keys
  Fps = {"f", "g"}
  Chunks <- MC_Chunks
  MaxExt = 2
  FpOf <- MC_FpOf
  ChunkOf <- MC_ChunkOf
  LoadLimit = 4
  FullPoint = 8
  BreakEven = 2
  Policy = "SkiQF"
  MapKind = "WiredTiger"
INVARIANTS TypeOK NoFalseNegative RankTie SpaceBound
PROPERTIES StaysNegative
CHECK_DEADLOCK FALSE
