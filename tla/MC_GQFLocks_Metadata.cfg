SPECIFICATION Spec
CONSTANTS
  Threads = {t1, t2}
  NumSlotsToLock = 4
  ClusterSize = 2
  XnSlots = 10
  StartSlots = {1, 5}
  Kinds = {"insert"}
  MaxOps = 2
INVARIANTS CountExact
CHECK_DEADLOCK FALSE
