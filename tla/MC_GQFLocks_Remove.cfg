SPECIFICATION FairSpec
CONSTANTS
  Threads = {t1, t2}
  NumSlotsToLock = 4
  ClusterSize = 2
  XnSlots = 10
  StartSlots = {3, 5}
  Kinds = {"insert", "remove"}
  MaxOps = 3
PROPERTIES EveryCallReturns
CHECK_DEADLOCK FALSE
