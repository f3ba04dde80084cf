SPECIFICATION Spec
CONSTANTS
  Threads = {t1, t2, t3}
  QmutexClients = {t1, t2}
  Interruptible = {t3}
INVARIANTS MutualExclusion NoLostWakeup
PROPERTY SleeperIsWoken
