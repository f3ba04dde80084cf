SPECIFICATION Spec
CONSTANTS
  Waiters = {w1, w2}
  Signallers = {s1}
  Mutexes = {m1, m2}
  Main = m1
  None = none
  MaxValue = 3
INVARIANTS TypeOK CaptureCounted SignalNotAbsorbed
PROPERTIES BroadcastWakesAll SignalWakesOne
