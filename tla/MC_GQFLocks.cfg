SPECIFICATION FairSpec
CONSTANTS
  Threads = {t1, t2}
  NumSlotsToLock = 4
  ClusterSize = 2
  XnSlots = 10
  StartSlots = {2, 5, 8}
  Kinds = {"insert", "try_insert", "locked_insert", "extend", "remove"}
  MaxOps = 3
INVARIANTS TypeOK Exclusion
PROPERTIES ReturnsUnlessOrphaned
CHECK_DEADLOCK FALSE
