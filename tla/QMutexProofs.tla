---------------------------- MODULE QMutexProofs ----------------------------
(***************************************************************************)
(* Proofs about QMutex for every set of threads: type correctness, mutual  *)
(* exclusion, and that no wake-up is lost.                                 *)
(*                                                                         *)
(* Mutual exclusion is not inductive by itself: it needs that LOCK_BIT is  *)
(* set exactly while the mutex is held.  Both hold only if no signal       *)
(* interrupts a thread that locks through class qmutex, whose lock() drops *)
(* the error (InterruptsReported); no lost wake-up needs no such           *)
(* assumption.                                                             *)
(***************************************************************************)
EXTENDS QMutex, TLAPS

(* Every caller that a signal may interrupt looks at the status of _lock.  *)
InterruptsReported == Interruptible \cap QmutexClients = {}

(* Every state of the mutex is well typed.                                 *)
LEMMA TypeInductive == TypeOK /\ [Next]_vars => TypeOK'
<1> SUFFICES ASSUME TypeOK, [Next]_vars PROVE TypeOK'
  OBVIOUS
<1> USE DEF TypeOK, Bits, LOCK_BIT, WAIT_BIT, Locations, Timeouts, Goto
<1>1. CASE UNCHANGED vars
  BY <1>1 DEF vars
<1>2. ASSUME NEW t \in Threads, Lock(t) PROVE TypeOK'
  BY <1>2 DEF Lock
<1>3. ASSUME NEW t \in Threads, TryLock(t) PROVE TypeOK'
  BY <1>3 DEF TryLock
<1>4. ASSUME NEW t \in Threads, Check(t) PROVE TypeOK'
  BY <1>4 DEF Check
<1>5. ASSUME NEW t \in Threads, SetWait(t) PROVE TypeOK'
  BY <1>5 DEF SetWait
<1>6. ASSUME NEW t \in Threads, Wait(t) PROVE TypeOK'
  BY <1>6 DEF Wait, sprt_qlock_wait
<1>7. ASSUME NEW t \in Threads, TimedOut(t) PROVE TypeOK'
  BY <1>7 DEF TimedOut
<1>8. ASSUME NEW t \in Threads, Interrupted(t) PROVE TypeOK'
  BY <1>8 DEF Interrupted
<1>9. ASSUME NEW t \in Threads, Elapse(t) PROVE TypeOK'
  BY <1>9 DEF Elapse
<1>10. ASSUME NEW t \in Threads, Retry(t) PROVE TypeOK'
  BY <1>10 DEF Retry
<1>11. ASSUME NEW t \in Threads, Unlock(t) PROVE TypeOK'
  BY <1>11 DEF Unlock
<1>12. ASSUME NEW t \in Threads, Wake(t) PROVE TypeOK'
  BY <1>12 DEF Wake, sprt_qlock_wake_one, Sleepers
<1> QED
  BY <1>1, <1>2, <1>3, <1>4, <1>5, <1>6, <1>7, <1>8, <1>9, <1>10, <1>11, <1>12
     DEF Next, Proceed

(* The word, the locations and the locals keep their types.                *)
THEOREM TypeCorrect == Spec => []TypeOK
<1>1. Init => TypeOK
  BY DEF Init, TypeOK, Bits, Locations, Timeouts
<1> QED
  BY <1>1, TypeInductive, PTL DEF Spec

-----------------------------------------------------------------------------
(* What Wake does to the program counters: t leaves, one sleeper is woken. *)
LEMMA WakeStep ==
  ASSUME TypeOK, NEW t \in Threads, Wake(t)
  PROVE  /\ pc'[t] = "idle"
         /\ \A u \in Threads : u # t /\ pc[u] # "asleep" => pc'[u] = pc[u]
         /\ \A u \in Threads :
              u # t /\ pc[u] = "asleep" => pc'[u] \in {"asleep", "woken"}
         /\ Sleepers(pc) # {} => \E u \in Threads : pc'[u] = "woken"
<1> DEFINE after == [pc EXCEPT ![t] = "idle"]
<1>1. /\ pc[t] = "wake"
      /\ pc' \in sprt_qlock_wake_one(after)
      /\ pc \in [Threads -> Locations]
  BY DEF Wake, TypeOK
<1>2. DOMAIN after = Threads /\ DOMAIN pc = Threads
  BY <1>1
<1>3. \A u \in Threads : after[u] = IF u = t THEN "idle" ELSE pc[u]
  BY <1>1
<1>4. Sleepers(after) = Sleepers(pc)
  BY <1>1, <1>2, <1>3 DEF Sleepers
<1>5. CASE Sleepers(pc) = {}
  <2>1. pc' = after
    BY <1>1, <1>4, <1>5 DEF sprt_qlock_wake_one
  <2> QED
    BY <2>1, <1>3, <1>5
<1>6. CASE Sleepers(pc) # {}
  <2>1. PICK s \in Sleepers(pc) : pc' = [after EXCEPT ![s] = "woken"]
    BY <1>1, <1>4, <1>6 DEF sprt_qlock_wake_one
  <2>2. s \in Threads /\ pc[s] = "asleep" /\ s # t
    BY <1>1, <1>2 DEF Sleepers
  <2>3. \A u \in Threads : pc'[u] = IF u = s THEN "woken" ELSE after[u]
    BY <2>1, <1>2
  <2> QED
    BY <2>2, <2>3, <1>3
<1> QED
  BY <1>5, <1>6

(* A step keeps LOCK_BIT in agreement with the holder, and the holder      *)
(* unique, as long as interrupted callers look at the status.              *)
LEMMA ExclusionInductive ==
  ASSUME InterruptsReported, TypeOK, LockedIffHeld, MutualExclusion, [Next]_vars
  PROVE  LockedIffHeld' /\ MutualExclusion'
<1> USE DEF TypeOK, LockedIffHeld, MutualExclusion, Holders, Bits, LOCK_BIT,
            WAIT_BIT, Goto
<1>1. CASE UNCHANGED vars
  BY <1>1 DEF vars
<1>2. ASSUME NEW t \in Threads, Lock(t) PROVE LockedIffHeld' /\ MutualExclusion'
  BY <1>2 DEF Lock
<1>3. ASSUME NEW t \in Threads, TryLock(t) PROVE LockedIffHeld' /\ MutualExclusion'
  BY <1>3 DEF TryLock
<1>4. ASSUME NEW t \in Threads, Check(t) PROVE LockedIffHeld' /\ MutualExclusion'
  BY <1>4 DEF Check
<1>5. ASSUME NEW t \in Threads, SetWait(t) PROVE LockedIffHeld' /\ MutualExclusion'
  BY <1>5 DEF SetWait
<1>6. ASSUME NEW t \in Threads, Wait(t) PROVE LockedIffHeld' /\ MutualExclusion'
  BY <1>6 DEF Wait, sprt_qlock_wait
<1>7. ASSUME NEW t \in Threads, TimedOut(t) PROVE LockedIffHeld' /\ MutualExclusion'
  BY <1>7 DEF TimedOut
<1>8. ASSUME NEW t \in Threads, Interrupted(t)
      PROVE LockedIffHeld' /\ MutualExclusion'
  BY <1>8 DEF Interrupted, InterruptsReported
<1>9. ASSUME NEW t \in Threads, Elapse(t) PROVE LockedIffHeld' /\ MutualExclusion'
  BY <1>9 DEF Elapse
<1>10. ASSUME NEW t \in Threads, Retry(t) PROVE LockedIffHeld' /\ MutualExclusion'
  BY <1>10 DEF Retry
<1>11. ASSUME NEW t \in Threads, Unlock(t) PROVE LockedIffHeld' /\ MutualExclusion'
  BY <1>11 DEF Unlock
<1>12. ASSUME NEW t \in Threads, Wake(t) PROVE LockedIffHeld' /\ MutualExclusion'
  <2>1. value' = value /\ pc[t] = "wake"
    BY <1>12 DEF Wake
  <2>2. \A u \in Threads : pc'[u] = "critical" <=> pc[u] = "critical"
    BY <1>12, <2>1, WakeStep
  <2> QED
    BY <2>1, <2>2
<1> QED
  BY <1>1, <1>2, <1>3, <1>4, <1>5, <1>6, <1>7, <1>8, <1>9, <1>10, <1>11, <1>12
     DEF Next, Proceed

(* At most one thread is between a successful lock and its unlock, for any *)
(* number of lockers, try-lockers, timeouts and reported interruptions.    *)
THEOREM Exclusion ==
  ASSUME InterruptsReported
  PROVE  Spec => [](MutualExclusion /\ LockedIffHeld)
<1>1. Init => MutualExclusion /\ LockedIffHeld
  BY DEF Init, MutualExclusion, LockedIffHeld, Holders
<1>2. TypeOK /\ MutualExclusion /\ LockedIffHeld /\ [Next]_vars
        => (MutualExclusion /\ LockedIffHeld)'
  BY ExclusionInductive
<1> QED
  BY <1>1, <1>2, TypeCorrect, PTL DEF Spec

-----------------------------------------------------------------------------
(* A step from a state where no wake-up is lost loses none: whoever clears *)
(* the word goes on to wake a sleeper, and a woken thread sets both bits.  *)
LEMMA WakeupInductive ==
  ASSUME TypeOK, NoLostWakeup, [Next]_vars
  PROVE  NoLostWakeup'
<1> USE DEF TypeOK, NoLostWakeup, Sleepers, Bits, LOCK_BIT, WAIT_BIT, Goto
<1>1. CASE UNCHANGED vars
  BY <1>1 DEF vars
<1>2. ASSUME NEW t \in Threads, Lock(t) PROVE NoLostWakeup'
  BY <1>2 DEF Lock
<1>3. ASSUME NEW t \in Threads, TryLock(t) PROVE NoLostWakeup'
  BY <1>3 DEF TryLock
<1>4. ASSUME NEW t \in Threads, Check(t) PROVE NoLostWakeup'
  BY <1>4 DEF Check
<1>5. ASSUME NEW t \in Threads, SetWait(t) PROVE NoLostWakeup'
  BY <1>5 DEF SetWait
<1>6. ASSUME NEW t \in Threads, Wait(t) PROVE NoLostWakeup'
  BY <1>6 DEF Wait, sprt_qlock_wait
<1>7. ASSUME NEW t \in Threads, TimedOut(t) PROVE NoLostWakeup'
  BY <1>7 DEF TimedOut
<1>8. ASSUME NEW t \in Threads, Interrupted(t) PROVE NoLostWakeup'
  BY <1>8 DEF Interrupted
<1>9. ASSUME NEW t \in Threads, Elapse(t) PROVE NoLostWakeup'
  BY <1>9 DEF Elapse
<1>10. ASSUME NEW t \in Threads, Retry(t) PROVE NoLostWakeup'
  BY <1>10 DEF Retry
<1>11. ASSUME NEW t \in Threads, Unlock(t) PROVE NoLostWakeup'
  BY <1>11 DEF Unlock
<1>12. ASSUME NEW t \in Threads, Wake(t) PROVE NoLostWakeup'
  <2>1. DOMAIN pc' = Threads /\ DOMAIN pc = Threads
    BY <1>12, TypeInductive
  <2>2. Sleepers(pc)' # {} => Sleepers(pc) # {}
    BY <1>12, <2>1, WakeStep DEF Wake
  <2>3. Sleepers(pc) # {} => \E u \in Threads : pc'[u] = "woken"
    BY <1>12, WakeStep
  <2> QED
    BY <2>2, <2>3
<1> QED
  BY <1>1, <1>2, <1>3, <1>4, <1>5, <1>6, <1>7, <1>8, <1>9, <1>10, <1>11, <1>12
     DEF Next, Proceed

(* While a thread sleeps on the word, somebody is bound to wake a sleeper. *)
THEOREM WakeupKept == Spec => []NoLostWakeup
<1>1. Init => NoLostWakeup
  BY DEF Init, NoLostWakeup, Sleepers
<1>2. TypeOK /\ NoLostWakeup /\ [Next]_vars => NoLostWakeup'
  BY WakeupInductive
<1> QED
  BY <1>1, <1>2, TypeCorrect, PTL DEF Spec

=============================================================================
