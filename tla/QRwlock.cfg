SPECIFICATION Spec
CONSTANTS
  Threads = {t1, t2, t3}
  ReadClients = {t1, t2}
  WriteClients = {t2, t3}
  Timed = {t2}
  Interruptible = {t3}
  MaxDepth = 2
  MaxLeaked = 1
  Nobody = Nobody
INVARIANTS TypeOK StateExact NoLostWakeup
PROPERTIES RefinesAbstractRwlock WriterServed
CHECK_DEADLOCK FALSE
