--------------------------- MODULE QCondvarProofs ---------------------------
(***************************************************************************)
(* Proofs about QCondvar for every number of waiters, signallers and       *)
(* mutexes: the condition is captured and given up exactly, and a signal   *)
(* is never absorbed by a thread that goes back to sleep.  The inductive   *)
(* invariant has three parts: who owns which mutex where (Ownership), who  *)
(* captured the condition (CaptureCounted, LastAlone), and how value,      *)
(* previous and the locals are ordered (ValueOrder).                       *)
(***************************************************************************)
EXTENDS QCondvar, FiniteSetTheorems, TLAPS

(* Locations at which a waiter owns the mutex it brought.                  *)
Owning == {"locked", "count", "load", "store", "unlock", "uncount", "release"}

(* A thread owns its mutex everywhere but where _wait has released it.     *)
Ownership ==
  /\ \A t \in Waiters : pc[t] # "idle" => mutex[t] \in Mutexes
  /\ \A t \in Waiters : pc[t] \in Owning => owner[mutex[t]] = t
  /\ \A s \in Signallers : pc[s] # "idle" => mutex[s] = Main /\ owner[Main] = s

(* The waiter that gives the condition up is the only one inside _wait.    *)
LastAlone ==
  \A t, u \in Waiters : pc[t] = "release" /\ pc[u] \in Captured => t = u

(* value is at previous or one past it, no blocked waiter started after    *)
(* previous, and what a signaller is about to store is not behind value    *)
(* and past every blocked waiter of its mutex.                             *)
ValueOrder ==
  /\ previous <= value /\ value <= previous + 1
  /\ \A t \in Waiters :
       /\ pc[t] = "store" => previous <= v[t] /\ v[t] <= value
       /\ pc[t] \in Blocked \cup {"unlock"} => v[t] <= previous
  /\ \A s \in Signallers :
       /\ pc[s] = "previous" => value < MaxValue
       /\ pc[s] = "value" =>
            /\ value <= v[s] /\ v[s] <= previous + 1 /\ v[s] <= MaxValue
            /\ \A t \in Waiters :
                 pc[t] \in Captured /\ mutex[t] = Main => v[s] = previous + 1

IInv ==
  /\ TypeOK
  /\ Ownership
  /\ CaptureCounted
  /\ LastAlone
  /\ ValueOrder
  /\ SignalNotAbsorbed

(* A wake moves nobody but the signaller and waiters that are asleep.      *)
LEMMA WakeStep ==
  ASSUME TypeOK, NEW t \in Signallers, WakeOne(t) \/ WakeAll(t)
  PROVE  /\ pc' \in [Threads -> WaiterLocations \cup SignallerLocations]
         /\ pc[t] \in {"one", "all"} /\ pc'[t] = "locked"
         /\ \A u \in Threads \ {t} :
              pc'[u] = pc[u] \/ (pc[u] = "asleep" /\ pc'[u] = "woken")
<1> DEFINE p == [pc EXCEPT ![t] = "locked"]
<1>1. /\ pc \in [Threads -> WaiterLocations \cup SignallerLocations]
      /\ t \in Threads
      /\ pc[t] \in {"one", "all"}
  BY DEF TypeOK, Threads, WakeOne, WakeAll
<1>2. /\ p \in [Threads -> WaiterLocations \cup SignallerLocations]
      /\ p[t] = "locked"
      /\ \A u \in Threads \ {t} : p[u] = pc[u]
  BY <1>1 DEF WaiterLocations
<1> HIDE DEF p
<1>3. CASE pc' = sprt_qlock_wake_all(p)
  BY <1>1, <1>2, <1>3
     DEF sprt_qlock_wake_all, WaiterLocations, Captured, Counted, Blocked
<1>4. CASE pc' \in sprt_qlock_wake_one(p)
  BY <1>1, <1>2, <1>4
     DEF sprt_qlock_wake_one, Sleepers, WaiterLocations, Captured, Counted, Blocked
<1> QED
  BY <1>3, <1>4 DEF WakeOne, WakeAll, p

(* The waiters inside _wait are finitely many.                             *)
LEMMA CountedFinite ==
  IsFiniteSet(CountedWaiters) /\ Cardinality(CountedWaiters) \in Nat
BY FiniteAssumption, FS_Subset, FS_CardinalityType DEF CountedWaiters

(* A step keeps the types: nothing is subtracted from an empty counter and *)
(* no value past the bound is stored.                                      *)
LEMMA TypeInductive ==
  ASSUME IInv, [Next]_vars
  PROVE  TypeOK'
<1> USE MutexAssumption, MaxAssumption, NoneAssumption, RolesAssumption
    DEF IInv, TypeOK, Ownership, Timeouts, WaiterLocations, SignallerLocations,
        Captured, Counted, Blocked, Owning, Goto, word, Threads
<1>1. CASE UNCHANGED vars
  BY <1>1 DEF vars, word
<1>2. ASSUME NEW t \in Waiters, NEW m \in Mutexes, Lock(t, m) PROVE TypeOK'
  BY <1>2 DEF Lock
<1>3. ASSUME NEW t \in Waiters, Unlock(t) PROVE TypeOK'
  BY <1>3 DEF Unlock
<1>4. ASSUME NEW t \in Waiters, Capture(t) PROVE TypeOK'
  BY <1>4 DEF Capture
<1>5. ASSUME NEW t \in Waiters, Count(t) PROVE TypeOK'
  BY <1>5 DEF Count
<1>6. ASSUME NEW t \in Waiters, Load(t) PROVE TypeOK'
  BY <1>6 DEF Load
<1>7. ASSUME NEW t \in Waiters, Store(t) PROVE TypeOK'
  <2>1. v[t] \in 0 .. MaxValue
    BY <1>7 DEF Store, ValueOrder
  <2> QED
    BY <1>7, <2>1 DEF Store
<1>8. ASSUME NEW t \in Waiters, Release(t) PROVE TypeOK'
  BY <1>8 DEF Release
<1>9. ASSUME NEW t \in Waiters, Test(t) PROVE TypeOK'
  BY <1>9 DEF Test
<1>10. ASSUME NEW t \in Waiters, FutexWait(t) PROVE TypeOK'
  BY <1>10 DEF FutexWait, sprt_qlock_wait
<1>11. ASSUME NEW t \in Waiters, TimedOut(t) PROVE TypeOK'
  BY <1>11 DEF TimedOut
<1>12. ASSUME NEW t \in Waiters, Interrupted(t) PROVE TypeOK'
  BY <1>12 DEF Interrupted
<1>13. ASSUME NEW t \in Waiters, Elapse(t) PROVE TypeOK'
  BY <1>13 DEF Elapse
<1>14. ASSUME NEW t \in Waiters, Relock(t) PROVE TypeOK'
  BY <1>14 DEF Relock
<1>15. ASSUME NEW t \in Waiters, Uncount(t) PROVE TypeOK'
  <2>1. counter - 1 \in Nat
    <3>1. t \in CountedWaiters
      BY <1>15 DEF Uncount, CountedWaiters
    <3> QED
      BY <3>1, CountedFinite, FS_EmptySet DEF CaptureCounted
  <2> QED
    BY <1>15, <2>1 DEF Uncount
<1>16. ASSUME NEW t \in Waiters, GiveUp(t) PROVE TypeOK'
  BY <1>16 DEF GiveUp
<1>17. ASSUME NEW t \in Signallers, Lock(t, Main) PROVE TypeOK'
  BY <1>17 DEF Lock
<1>18. ASSUME NEW t \in Signallers, Unlock(t) PROVE TypeOK'
  BY <1>18 DEF Unlock
<1>19. ASSUME NEW t \in Signallers, Signal(t) PROVE TypeOK'
  BY <1>19 DEF Signal
<1>20. ASSUME NEW t \in Signallers, LoadPrevious(t) PROVE TypeOK'
  BY <1>20 DEF LoadPrevious
<1>21. ASSUME NEW t \in Signallers, StoreValue(t) PROVE TypeOK'
  <2>1. v[t] \in 0 .. MaxValue
    BY <1>21 DEF StoreValue, ValueOrder
  <2> QED
    BY <1>21, <2>1 DEF StoreValue
<1>22. ASSUME NEW t \in Signallers, WakeOne(t) \/ WakeAll(t) PROVE TypeOK'
  <2>1. /\ pc' \in [Threads -> WaiterLocations \cup SignallerLocations]
        /\ pc'[t] = "locked"
        /\ \A u \in Threads \ {t} :
             pc'[u] = pc[u] \/ (pc[u] = "asleep" /\ pc'[u] = "woken")
        /\ UNCHANGED <<word, owner, mutex, v, timeout>>
    <3> HIDE DEF TypeOK, Ownership, WaiterLocations, SignallerLocations
    <3> QED
      BY <1>22, WakeStep DEF WakeOne, WakeAll
  <2>2. /\ \A u \in Waiters : pc'[u] \in WaiterLocations
        /\ \A u \in Signallers : pc'[u] \in SignallerLocations
    BY <2>1
  <2> HIDE DEF Ownership, WaiterLocations, SignallerLocations
  <2> QED
    BY <2>1, <2>2
<1> QED
  BY <1>1, <1>2, <1>3, <1>4, <1>5, <1>6, <1>7, <1>8, <1>9, <1>10, <1>11,
     <1>12, <1>13, <1>14, <1>15, <1>16, <1>17, <1>18, <1>19, <1>20, <1>21, <1>22
     DEF Next, Waiting, Signalling

(* A step keeps the ownership of the mutexes.                              *)
LEMMA OwnershipInductive ==
  ASSUME IInv, [Next]_vars
  PROVE  Ownership'
<1> USE MutexAssumption, NoneAssumption, RolesAssumption
    DEF IInv, TypeOK, Ownership, WaiterLocations, SignallerLocations,
        Captured, Counted, Blocked, Owning, Goto, word, Threads
<1>1. CASE UNCHANGED vars
  BY <1>1 DEF vars, word
<1>2. ASSUME NEW t \in Waiters, NEW m \in Mutexes, Lock(t, m) PROVE Ownership'
  BY <1>2 DEF Lock
<1>3. ASSUME NEW t \in Waiters, Unlock(t) PROVE Ownership'
  BY <1>3 DEF Unlock
<1>4. ASSUME NEW t \in Waiters, Capture(t) PROVE Ownership'
  BY <1>4 DEF Capture
<1>5. ASSUME NEW t \in Waiters, Count(t) PROVE Ownership'
  BY <1>5 DEF Count
<1>6. ASSUME NEW t \in Waiters, Load(t) PROVE Ownership'
  BY <1>6 DEF Load
<1>7. ASSUME NEW t \in Waiters, Store(t) PROVE Ownership'
  BY <1>7 DEF Store
<1>8. ASSUME NEW t \in Waiters, Release(t) PROVE Ownership'
  BY <1>8 DEF Release
<1>9. ASSUME NEW t \in Waiters, Test(t) PROVE Ownership'
  BY <1>9 DEF Test
<1>10. ASSUME NEW t \in Waiters, FutexWait(t) PROVE Ownership'
  BY <1>10 DEF FutexWait, sprt_qlock_wait
<1>11. ASSUME NEW t \in Waiters, TimedOut(t) PROVE Ownership'
  BY <1>11 DEF TimedOut
<1>12. ASSUME NEW t \in Waiters, Interrupted(t) PROVE Ownership'
  BY <1>12 DEF Interrupted
<1>13. ASSUME NEW t \in Waiters, Elapse(t) PROVE Ownership'
  BY <1>13 DEF Elapse
<1>14. ASSUME NEW t \in Waiters, Relock(t) PROVE Ownership'
  BY <1>14 DEF Relock
<1>15. ASSUME NEW t \in Waiters, Uncount(t) PROVE Ownership'
  BY <1>15 DEF Uncount
<1>16. ASSUME NEW t \in Waiters, GiveUp(t) PROVE Ownership'
  BY <1>16 DEF GiveUp
<1>17. ASSUME NEW t \in Signallers, Lock(t, Main) PROVE Ownership'
  BY <1>17 DEF Lock
<1>18. ASSUME NEW t \in Signallers, Unlock(t) PROVE Ownership'
  BY <1>18 DEF Unlock
<1>19. ASSUME NEW t \in Signallers, Signal(t) PROVE Ownership'
  BY <1>19 DEF Signal
<1>20. ASSUME NEW t \in Signallers, LoadPrevious(t) PROVE Ownership'
  BY <1>20 DEF LoadPrevious
<1>21. ASSUME NEW t \in Signallers, StoreValue(t) PROVE Ownership'
  BY <1>21 DEF StoreValue
<1>22. ASSUME NEW t \in Signallers, WakeOne(t) \/ WakeAll(t) PROVE Ownership'
  <2>1. /\ pc[t] \in {"one", "all"} /\ UNCHANGED <<owner, mutex>>
        /\ \A u \in Threads \ {t} :
             pc'[u] = pc[u] \/ (pc[u] = "asleep" /\ pc'[u] = "woken")
    <3> HIDE DEF TypeOK, Ownership, WaiterLocations, SignallerLocations
    <3> QED
      BY <1>22, WakeStep DEF WakeOne, WakeAll
  <2> QED
    BY <2>1
<1> QED
  BY <1>1, <1>2, <1>3, <1>4, <1>5, <1>6, <1>7, <1>8, <1>9, <1>10, <1>11,
     <1>12, <1>13, <1>14, <1>15, <1>16, <1>17, <1>18, <1>19, <1>20, <1>21, <1>22
     DEF Next, Waiting, Signalling

(* A step keeps the capture of the condition exact.                        *)
LEMMA CaptureInductive ==
  ASSUME IInv, [Next]_vars
  PROVE  CaptureCounted' /\ LastAlone'
<1> USE MutexAssumption, NoneAssumption, RolesAssumption
    DEF IInv, TypeOK, Ownership, CaptureCounted, LastAlone, CountedWaiters,
        WaiterLocations, SignallerLocations,
        Captured, Counted, Blocked, Owning, Goto, word, Threads
<1>1. CASE UNCHANGED vars
  BY <1>1 DEF vars, word
<1>e. ASSUME UNCHANGED <<mutexid, counter>>,
             \A u \in Waiters :
               /\ pc'[u] \in Counted <=> pc[u] \in Counted
               /\ pc'[u] \in Captured => pc[u] \in Captured /\ mutex'[u] = mutex[u]
               /\ pc'[u] = "release" => pc[u] = "release"
      PROVE  CaptureCounted' /\ LastAlone'
  <2>1. CountedWaiters' = CountedWaiters
    BY <1>e
  <2>2. CaptureCounted'
    <3> HIDE DEF CountedWaiters, Captured
    <3> QED
      BY <1>e, <2>1
  <2>3. LastAlone'
    <3> HIDE DEF Captured
    <3> QED
      BY <1>e
  <2> QED
    BY <2>2, <2>3
<1>2. ASSUME NEW t \in Waiters, NEW m \in Mutexes, Lock(t, m)
      PROVE  CaptureCounted' /\ LastAlone'
  BY <1>2 DEF Lock
<1>3. ASSUME NEW t \in Waiters, Unlock(t) PROVE CaptureCounted' /\ LastAlone'
  BY <1>3 DEF Unlock
<1>4. ASSUME NEW t \in Waiters, Capture(t) PROVE CaptureCounted' /\ LastAlone'
  <2>1. /\ pc[t] = "locked" /\ pc'[t] = "count" /\ mutexid' = mutex[t]
        /\ mutexid \in {None, mutex[t]}
        /\ \A u \in Waiters : u # t => pc'[u] = pc[u]
        /\ UNCHANGED <<counter, owner, mutex>>
    BY <1>4 DEF Capture
  <2>2. \A u \in Waiters : pc[u] \in Captured => mutex[u] = mutex[t]
    BY <2>1
  <2>3. \A u \in Waiters : pc[u] # "release"
    BY <2>1, <2>2
  <2>4. CountedWaiters' = CountedWaiters
    BY <2>1
  <2>5. CaptureCounted'
    <3> HIDE DEF CountedWaiters, Captured
    <3> QED
      BY <2>1, <2>2, <2>4
  <2>6. LastAlone'
    BY <2>1, <2>3
  <2> QED
    BY <2>5, <2>6
<1>5. ASSUME NEW t \in Waiters, Count(t) PROVE CaptureCounted' /\ LastAlone'
  <2>1. CountedWaiters' = CountedWaiters \cup {t} /\ t \notin CountedWaiters
    BY <1>5 DEF Count
  <2>2. counter' = Cardinality(CountedWaiters')
    <3> HIDE DEF CountedWaiters
    <3> QED
      BY <1>5, <2>1, CountedFinite, FS_AddElement DEF Count
  <2> QED
    BY <1>5, <2>2 DEF Count
<1>6. ASSUME NEW t \in Waiters, Load(t) PROVE CaptureCounted' /\ LastAlone'
  <2>1. /\ pc[t] = "load" /\ pc'[t] \in {"store"}
        /\ \A u \in Waiters : u # t => pc'[u] = pc[u]
        /\ UNCHANGED <<mutexid, counter, mutex>>
    BY <1>6 DEF Load
  <2> QED
    BY <1>e, <2>1
<1>7. ASSUME NEW t \in Waiters, Store(t) PROVE CaptureCounted' /\ LastAlone'
  <2>1. /\ pc[t] = "store" /\ pc'[t] \in {"unlock"}
        /\ \A u \in Waiters : u # t => pc'[u] = pc[u]
        /\ UNCHANGED <<mutexid, counter, mutex>>
    BY <1>7 DEF Store
  <2> QED
    BY <1>e, <2>1
<1>8. ASSUME NEW t \in Waiters, Release(t) PROVE CaptureCounted' /\ LastAlone'
  BY <1>8 DEF Release
<1>9. ASSUME NEW t \in Waiters, Test(t) PROVE CaptureCounted' /\ LastAlone'
  BY <1>9 DEF Test
<1>10. ASSUME NEW t \in Waiters, FutexWait(t) PROVE CaptureCounted' /\ LastAlone'
  <2>1. /\ pc[t] = "wait" /\ pc'[t] \in {"asleep", "woken"}
        /\ \A u \in Waiters : u # t => pc'[u] = pc[u]
        /\ UNCHANGED <<mutexid, counter, mutex>>
    BY <1>10 DEF FutexWait, sprt_qlock_wait
  <2> QED
    BY <1>e, <2>1
<1>11. ASSUME NEW t \in Waiters, TimedOut(t) PROVE CaptureCounted' /\ LastAlone'
  BY <1>11 DEF TimedOut
<1>12. ASSUME NEW t \in Waiters, Interrupted(t) PROVE CaptureCounted' /\ LastAlone'
  BY <1>12 DEF Interrupted
<1>13. ASSUME NEW t \in Waiters, Elapse(t) PROVE CaptureCounted' /\ LastAlone'
  <2>1. /\ pc[t] = "woken" /\ pc'[t] \in {"test"}
        /\ \A u \in Waiters : u # t => pc'[u] = pc[u]
        /\ UNCHANGED <<mutexid, counter, mutex>>
    BY <1>13 DEF Elapse
  <2> QED
    BY <1>e, <2>1
<1>14. ASSUME NEW t \in Waiters, Relock(t) PROVE CaptureCounted' /\ LastAlone'
  BY <1>14 DEF Relock
<1>15. ASSUME NEW t \in Waiters, Uncount(t) PROVE CaptureCounted' /\ LastAlone'
  <2>1. CountedWaiters' = CountedWaiters \ {t} /\ t \in CountedWaiters
    BY <1>15 DEF Uncount
  <2>2. counter' = Cardinality(CountedWaiters')
    <3> HIDE DEF CountedWaiters
    <3> QED
      BY <1>15, <2>1, CountedFinite, FS_RemoveElement DEF Uncount
  <2>3. counter = 1 => CountedWaiters = {t}
    <3> HIDE DEF CountedWaiters
    <3>1. ASSUME counter = 1 PROVE \E x : CountedWaiters = {x}
      <4>1. Cardinality(CountedWaiters) = 1
        BY <3>1
      <4> QED
        BY <4>1, CountedFinite, FS_Singleton
    <3> QED
      BY <2>1, <3>1
  <2>4. \A u \in Waiters : pc[u] \in {"count", "release"} => u = t
    BY <1>15 DEF Uncount
  <2>5. LastAlone'
    BY <1>15, <2>3, <2>4 DEF Uncount
  <2> QED
    BY <1>15, <2>2, <2>5 DEF Uncount
<1>16. ASSUME NEW t \in Waiters, GiveUp(t) PROVE CaptureCounted' /\ LastAlone'
  BY <1>16 DEF GiveUp
<1>17. ASSUME NEW t \in Signallers, Lock(t, Main) PROVE CaptureCounted' /\ LastAlone'
  BY <1>17 DEF Lock
<1>18. ASSUME NEW t \in Signallers, Unlock(t) PROVE CaptureCounted' /\ LastAlone'
  BY <1>18 DEF Unlock
<1>19. ASSUME NEW t \in Signallers, Signal(t) PROVE CaptureCounted' /\ LastAlone'
  BY <1>19 DEF Signal
<1>20. ASSUME NEW t \in Signallers, LoadPrevious(t)
       PROVE  CaptureCounted' /\ LastAlone'
  BY <1>20 DEF LoadPrevious
<1>21. ASSUME NEW t \in Signallers, StoreValue(t) PROVE CaptureCounted' /\ LastAlone'
  <2>1. UNCHANGED <<mutexid, counter, mutex>> /\ \A u \in Waiters : pc'[u] = pc[u]
    BY <1>21 DEF StoreValue
  <2> QED
    BY <1>e, <2>1
<1>22. ASSUME NEW t \in Signallers, WakeOne(t) \/ WakeAll(t)
       PROVE  CaptureCounted' /\ LastAlone'
  <2>1. /\ UNCHANGED <<word, owner, mutex, v, timeout>>
        /\ \A u \in Waiters :
             pc'[u] = pc[u] \/ (pc[u] = "asleep" /\ pc'[u] = "woken")
    BY <1>22, WakeStep DEF WakeOne, WakeAll
  <2>2. CountedWaiters' = CountedWaiters
    BY <2>1
  <2> QED
    BY <2>1, <2>2
<1> QED
  BY <1>1, <1>2, <1>3, <1>4, <1>5, <1>6, <1>7, <1>8, <1>9, <1>10, <1>11,
     <1>12, <1>13, <1>14, <1>15, <1>16, <1>17, <1>18, <1>19, <1>20, <1>21, <1>22
     DEF Next, Waiting, Signalling

(* A step keeps the order of value, previous and the locals.               *)
LEMMA OrderInductive ==
  ASSUME IInv, [Next]_vars
  PROVE  ValueOrder' /\ SignalNotAbsorbed'
<1> USE MutexAssumption, MaxAssumption, NoneAssumption, RolesAssumption
    DEF IInv, TypeOK, Ownership, CaptureCounted, ValueOrder, SignalNotAbsorbed,
        WaiterLocations, SignallerLocations,
        Captured, Counted, Blocked, Owning, Goto, word, Threads
<1>1. CASE UNCHANGED vars
  BY <1>1 DEF vars, word
<1>2. ASSUME NEW t \in Waiters, NEW m \in Mutexes, Lock(t, m)
      PROVE  ValueOrder' /\ SignalNotAbsorbed'
  BY <1>2 DEF Lock
<1>3. ASSUME NEW t \in Waiters, Unlock(t) PROVE ValueOrder' /\ SignalNotAbsorbed'
  BY <1>3 DEF Unlock
<1>4. ASSUME NEW t \in Waiters, Capture(t) PROVE ValueOrder' /\ SignalNotAbsorbed'
  BY <1>4 DEF Capture
<1>5. ASSUME NEW t \in Waiters, Count(t) PROVE ValueOrder' /\ SignalNotAbsorbed'
  BY <1>5 DEF Count
<1>6. ASSUME NEW t \in Waiters, Load(t) PROVE ValueOrder' /\ SignalNotAbsorbed'
  BY <1>6 DEF Load
<1>7. ASSUME NEW t \in Waiters, Store(t) PROVE ValueOrder' /\ SignalNotAbsorbed'
  BY <1>7 DEF Store
<1>8. ASSUME NEW t \in Waiters, Release(t) PROVE ValueOrder' /\ SignalNotAbsorbed'
  BY <1>8 DEF Release
<1>9. ASSUME NEW t \in Waiters, Test(t) PROVE ValueOrder' /\ SignalNotAbsorbed'
  BY <1>9 DEF Test
<1>10. ASSUME NEW t \in Waiters, FutexWait(t) PROVE ValueOrder' /\ SignalNotAbsorbed'
  BY <1>10 DEF FutexWait, sprt_qlock_wait
<1>11. ASSUME NEW t \in Waiters, TimedOut(t) PROVE ValueOrder' /\ SignalNotAbsorbed'
  BY <1>11 DEF TimedOut
<1>12. ASSUME NEW t \in Waiters, Interrupted(t) PROVE ValueOrder' /\ SignalNotAbsorbed'
  BY <1>12 DEF Interrupted
<1>13. ASSUME NEW t \in Waiters, Elapse(t) PROVE ValueOrder' /\ SignalNotAbsorbed'
  BY <1>13 DEF Elapse
<1>14. ASSUME NEW t \in Waiters, Relock(t) PROVE ValueOrder' /\ SignalNotAbsorbed'
  BY <1>14 DEF Relock
<1>15. ASSUME NEW t \in Waiters, Uncount(t) PROVE ValueOrder' /\ SignalNotAbsorbed'
  BY <1>15 DEF Uncount
<1>16. ASSUME NEW t \in Waiters, GiveUp(t) PROVE ValueOrder' /\ SignalNotAbsorbed'
  BY <1>16 DEF GiveUp
<1>17. ASSUME NEW t \in Signallers, Lock(t, Main) PROVE ValueOrder' /\ SignalNotAbsorbed'
  BY <1>17 DEF Lock
<1>18. ASSUME NEW t \in Signallers, Unlock(t) PROVE ValueOrder' /\ SignalNotAbsorbed'
  BY <1>18 DEF Unlock
<1>19. ASSUME NEW t \in Signallers, Signal(t) PROVE ValueOrder' /\ SignalNotAbsorbed'
  BY <1>19 DEF Signal
<1>20. ASSUME NEW t \in Signallers, LoadPrevious(t)
       PROVE  ValueOrder' /\ SignalNotAbsorbed'
  BY <1>20 DEF LoadPrevious
<1>21. ASSUME NEW t \in Signallers, StoreValue(t) PROVE ValueOrder' /\ SignalNotAbsorbed'
  BY <1>21 DEF StoreValue
<1>22. ASSUME NEW t \in Signallers, WakeOne(t) \/ WakeAll(t)
       PROVE  ValueOrder' /\ SignalNotAbsorbed'
  <2>1. /\ UNCHANGED <<word, owner, mutex, v, timeout>>
        /\ \A u \in Waiters :
             pc'[u] = pc[u] \/ (pc[u] = "asleep" /\ pc'[u] = "woken")
    BY <1>22, WakeStep DEF WakeOne, WakeAll
  <2>2. \A s \in Signallers \ {t} : pc[s] = "idle"
    BY <1>22, WakeStep
  <2>3. pc'[t] = "locked" /\ \A s \in Signallers \ {t} : pc'[s] = "idle"
    BY <1>22, <2>2, WakeStep
  <2> QED
    BY <2>1, <2>3
<1> QED
  BY <1>1, <1>2, <1>3, <1>4, <1>5, <1>6, <1>7, <1>8, <1>9, <1>10, <1>11,
     <1>12, <1>13, <1>14, <1>15, <1>16, <1>17, <1>18, <1>19, <1>20, <1>21, <1>22
     DEF Next, Waiting, Signalling

(* The invariant holds initially and is kept by every step.                *)
THEOREM Invariance == Spec => []IInv
<1>1. Init => IInv
  <2> SUFFICES ASSUME Init PROVE IInv
    OBVIOUS
  <2>1. CountedWaiters = {}
    BY DEF Init, CountedWaiters, Counted, Blocked, Threads
  <2>2. CaptureCounted
    BY <2>1, FS_EmptySet
       DEF Init, CaptureCounted, Captured, Counted, Blocked, Threads
  <2>3. TypeOK
    BY MutexAssumption, MaxAssumption
       DEF Init, TypeOK, Threads, Timeouts, WaiterLocations, SignallerLocations
  <2>4. Ownership /\ LastAlone /\ ValueOrder /\ SignalNotAbsorbed
    BY DEF Init, Ownership, LastAlone, ValueOrder, SignalNotAbsorbed, Threads,
           Owning, Captured, Counted, Blocked
  <2> QED
    BY <2>2, <2>3, <2>4 DEF IInv
<1>2. IInv /\ [Next]_vars => IInv'
  BY TypeInductive, OwnershipInductive, CaptureInductive, OrderInductive DEF IInv
<1> QED
  BY <1>1, <1>2, PTL DEF Spec

(* The words and the locals of every thread keep their types.              *)
THEOREM TypeCorrect == Spec => []TypeOK
BY Invariance, PTL DEF IInv

(* The condition is captured by the mutex of every waiter inside _wait and *)
(* given up by the last of them.                                           *)
THEOREM CaptureExact == Spec => []CaptureCounted
BY Invariance, PTL DEF IInv

(* The thread a signal wakes leaves _wait.                                 *)
THEOREM SignalKept == Spec => []SignalNotAbsorbed
BY Invariance, PTL DEF IInv

=============================================================================
