SPECIFICATION Spec
CONSTANTS
  Threads = {t1, t2, t3, t4}
  Count = 3
  MaxCalls = 2
INVARIANTS TypeOK NoEarlyReturn OncePerBatch
PROPERTY EveryBatchLeaves
CHECK_DEADLOCK FALSE
