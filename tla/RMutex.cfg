SPECIFICATION Spec
CONSTANTS
  Threads = {t1, t2, t3}
  TryLockers = {t1}
  CanGiveUp = {t2}
  Detached = {t1, t3}
  MaxCounter = 2
  Nobody = Nobody
INVARIANTS TypeOK CountExact NoLostWakeup
PROPERTIES SleeperIsWoken
CHECK_DEADLOCK FALSE
