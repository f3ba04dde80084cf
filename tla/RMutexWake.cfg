SPECIFICATION Spec
CONSTANTS
  Threads = {t1, t2}
  TryLockers = {}
  CanGiveUp = {}
  Detached = {}
  MaxCounter = 2
  Nobody = Nobody
INVARIANTS MutualExclusion
CHECK_DEADLOCK FALSE
