SPECIFICATION Spec
CONSTANTS
  Waiters = {w1, w2}
  Signallers = {s1, s2}
  Range = 3
INVARIANTS TypeOK NoLostWakeup
PROPERTY ReachedWaitReturns
