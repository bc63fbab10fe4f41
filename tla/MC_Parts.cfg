SPECIFICATION PartsSpec
CONSTANTS
  Keys <- MC_Keys
  Fps = {"f", "g"}
  Chunks = {0, 1}
  MaxExt = 2
  FpOf <- MC_FpOf
  ChunkOf <- MC_ChunkOf
  LoadLimit = 2
  FullPoint = 8
  BreakEven = 2
  Policy = "HybridSkiQF"
  MapKind = "SplinterDB"
  WindowSize = 3
  RepeatedFpThreshold = 1
  FingerprintSpace = 4
  PiecesOf <- MC_PiecesOf
  Scale = 10
  Threads = {t1, t2}
  NumCounters = 2
  Threshold = 1
  Deltas <- MC_Deltas
  MaxAdds = 4
  BlockSlots = 2
  CodeBits = 9
  MaxSelector = 3
  TafQ = 2
  TafR = 1
  TafHashBits = 5
  MaxBlocks = 3
  Elts <- MC_Elts
  ItemType <- MC_ItemType
  NoItem = NoItem
  NumBuckets = 4
  NumSlots = 2
  NumSels = 2
  MaxCuckooCount = 3
  Hasher <- MC_Hasher
  AltHasher <- MC_AltHasher
  HashFcns <- MC_HashFcns
  OutsideFcns <- MC_OutsideFcns
INVARIANTS CountedOnce RepeatsComeFirst PCTypeOK Conservation QuiescentError RunsExact StoredFound MapTied AddedAreFound
PROPERTIES AttackCorrected ForgetsOnlyWhenShifting
CHECK_DEADLOCK FALSE
