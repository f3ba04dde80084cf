------------------------- MODULE OnceTimelineProofs -------------------------
(***************************************************************************)
(* Proofs about the two primitives on which everybody sleeps on one word   *)
(* and is woken at once, qtimeline and qonce.                              *)
(*                                                                         *)
(* QTimeline, for every number of waiters and signallers and every width   *)
(* of the counter, overflow included: type correctness, and that no        *)
(* wake-up is lost.  The latter needs the invariant WaitReady, what wait   *)
(* knows of its local copy of the word before it sleeps.                   *)
(*                                                                         *)
(* QOnce, for any number of threads: the callback runs at most once,       *)
(* nobody returns before it has returned, and no waiter is forgotten.      *)
(***************************************************************************)
EXTENDS QTimeline, QOnce, TLAPS

(* Inside the loop the local copy is below the target, and at the futex    *)
(* wait it has WAITERS_BIT.                                                *)
WaitReady ==
  \A t \in Waiters :
    /\ pc[t] \in {"check", "wait"} => v[t].count < target[t]
    /\ pc[t] = "wait" => v[t].waiters

(* A step keeps the types: the sum of signal is reduced to the range.      *)
LEMMA TypeInductive == TypeOK /\ [Next]_vars => TypeOK'
<1> SUFFICES ASSUME TypeOK, [Next]_vars PROVE TypeOK'
  OBVIOUS
<1> USE RangeAssumption
    DEF TypeOK, Values, Words, Word, NoWord, Timeouts, Locations, Goto, Threads
<1>a. Word \in Words /\ NoWord \in Words
  OBVIOUS
<1>b. ASSUME NEW t \in Waiters, Return(t), UNCHANGED <<count, waiters>>
      PROVE  TypeOK'
  BY <1>a, <1>b DEF Return
<1>1. CASE UNCHANGED vars
  BY <1>1 DEF vars
<1>2. ASSUME NEW t \in Waiters, Wait(t) PROVE TypeOK'
  BY <1>2 DEF Wait
<1>3. ASSUME NEW t \in Waiters, Load(t) PROVE TypeOK'
  <2>1. CASE Return(t)
    BY <1>3, <1>b, <2>1 DEF Load
  <2>2. CASE /\ v' = [v EXCEPT ![t] = Word]
             /\ Goto(t, "check")
             /\ UNCHANGED <<target, timeout>>
    BY <1>3, <1>a, <2>2 DEF Load
  <2> QED
    BY <1>3, <2>1, <2>2 DEF Load
<1>4. ASSUME NEW t \in Waiters, Check(t) PROVE TypeOK'
  BY <1>4, <1>b DEF Check
<1>5. ASSUME NEW t \in Waiters, SetWaiters(t) PROVE TypeOK'
  BY <1>5 DEF SetWaiters
<1>6. ASSUME NEW t \in Waiters, FutexWait(t) PROVE TypeOK'
  BY <1>6 DEF FutexWait, sprt_qlock_wait
<1>7. ASSUME NEW t \in Waiters, Failed(t) PROVE TypeOK'
  BY <1>7, <1>b DEF Failed
<1>8. ASSUME NEW t \in Waiters, Elapse(t) PROVE TypeOK'
  BY <1>8 DEF Elapse
<1>9. ASSUME NEW t \in Signallers, Signal(t) PROVE TypeOK'
  BY <1>9 DEF Signal
<1>10. ASSUME NEW t \in Signallers, Drop(t) PROVE TypeOK'
  BY <1>10 DEF Drop
<1>11. ASSUME NEW t \in Signallers, SetAndSignal(t) PROVE TypeOK'
  BY <1>11 DEF SetAndSignal
<1>12. ASSUME NEW t \in Signallers, Wake(t) PROVE TypeOK'
  BY <1>12 DEF Wake, sprt_qlock_wake_all
<1> QED
  BY <1>1, <1>2, <1>3, <1>4, <1>5, <1>6, <1>7, <1>8, <1>9, <1>10, <1>11, <1>12
     DEF Next, Waiting, Signalling

(* The word and the locals of every thread keep their types.               *)
THEOREM TypeCorrect == Spec => []TypeOK
<1>1. Init => TypeOK
  <2>1. NoWord \in Words /\ 0 \in Values
    BY RangeAssumption DEF Words, NoWord, Values
  <2> QED
    BY <2>1 DEF Init, TypeOK, Timeouts, Locations
<1> QED
  BY <1>1, TypeInductive, PTL DEF Spec

-----------------------------------------------------------------------------
(* wake_all leaves nobody asleep and moves nobody but the sleepers.        *)
LEMMA WakeStep ==
  ASSUME TypeOK, NEW t \in Signallers, Wake(t)
  PROVE  /\ \A u \in Threads : pc'[u] # "asleep"
         /\ \A u \in Waiters : pc'[u] \in {"check", "wait"} => pc'[u] = pc[u]
<1>1. /\ pc \in [Threads -> Locations]
      /\ pc' = sprt_qlock_wake_all([pc EXCEPT ![t] = "idle"])
  BY DEF TypeOK, Wake
<1> QED
  BY <1>1 DEF sprt_qlock_wake_all, Threads

(* A step keeps what wait knows of its copy of the word.                   *)
LEMMA ReadyInductive ==
  ASSUME TypeOK, WaitReady, [Next]_vars
  PROVE  WaitReady'
<1> USE DEF TypeOK, WaitReady, Values, Words, Word, NoWord, Goto, Return, Threads
<1>1. CASE UNCHANGED vars
  BY <1>1 DEF vars
<1>2. ASSUME NEW t \in Waiters, Wait(t) PROVE WaitReady'
  BY <1>2 DEF Wait
<1>3. ASSUME NEW t \in Waiters, Load(t) PROVE WaitReady'
  BY <1>3 DEF Load
<1>4. ASSUME NEW t \in Waiters, Check(t) PROVE WaitReady'
  BY <1>4 DEF Check
<1>5. ASSUME NEW t \in Waiters, SetWaiters(t) PROVE WaitReady'
  BY <1>5 DEF SetWaiters
<1>6. ASSUME NEW t \in Waiters, FutexWait(t) PROVE WaitReady'
  BY <1>6 DEF FutexWait, sprt_qlock_wait
<1>7. ASSUME NEW t \in Waiters, Failed(t) PROVE WaitReady'
  BY <1>7 DEF Failed
<1>8. ASSUME NEW t \in Waiters, Elapse(t) PROVE WaitReady'
  BY <1>8 DEF Elapse
<1>9. ASSUME NEW t \in Signallers, Signal(t) PROVE WaitReady'
  BY <1>9 DEF Signal
<1>10. ASSUME NEW t \in Signallers, Drop(t) PROVE WaitReady'
  BY <1>10 DEF Drop
<1>11. ASSUME NEW t \in Signallers, SetAndSignal(t) PROVE WaitReady'
  BY <1>11 DEF SetAndSignal
<1>12. ASSUME NEW t \in Signallers, Wake(t) PROVE WaitReady'
  BY <1>12, WakeStep DEF Wake
<1> QED
  BY <1>1, <1>2, <1>3, <1>4, <1>5, <1>6, <1>7, <1>8, <1>9, <1>10, <1>11, <1>12
     DEF Next, Waiting, Signalling

(* A step from a state where no wake-up is lost loses none.                *)
LEMMA WakeupInductive ==
  ASSUME TypeOK, WaitReady, NoLostWakeup, [Next]_vars
  PROVE  NoLostWakeup'
<1> USE DEF TypeOK, NoLostWakeup, Goto, Return, Threads
<1>1. CASE UNCHANGED vars
  BY <1>1 DEF vars
<1>2. ASSUME NEW t \in Waiters, Wait(t) PROVE NoLostWakeup'
  BY <1>2 DEF Wait
<1>3. ASSUME NEW t \in Waiters, Load(t) PROVE NoLostWakeup'
  BY <1>3 DEF Load
<1>4. ASSUME NEW t \in Waiters, Check(t) PROVE NoLostWakeup'
  BY <1>4 DEF Check
<1>5. ASSUME NEW t \in Waiters, SetWaiters(t) PROVE NoLostWakeup'
  BY <1>5 DEF SetWaiters
<1>6. ASSUME NEW t \in Waiters, FutexWait(t) PROVE NoLostWakeup'
  <2>1. pc'[t] = "asleep" => waiters /\ count < target[t]
    BY <1>6 DEF FutexWait, sprt_qlock_wait, Word, WaitReady
  <2> QED
    BY <1>6, <2>1 DEF FutexWait, sprt_qlock_wait
<1>7. ASSUME NEW t \in Waiters, Failed(t) PROVE NoLostWakeup'
  BY <1>7 DEF Failed
<1>8. ASSUME NEW t \in Waiters, Elapse(t) PROVE NoLostWakeup'
  BY <1>8 DEF Elapse
<1>9. ASSUME NEW t \in Signallers, Signal(t) PROVE NoLostWakeup'
  BY <1>9 DEF Signal
<1>10. ASSUME NEW t \in Signallers, Drop(t) PROVE NoLostWakeup'
  BY <1>10 DEF Drop
<1>11. ASSUME NEW t \in Signallers, SetAndSignal(t) PROVE NoLostWakeup'
  BY <1>11 DEF SetAndSignal
<1>12. ASSUME NEW t \in Signallers, Wake(t) PROVE NoLostWakeup'
  BY <1>12, WakeStep
<1> QED
  BY <1>1, <1>2, <1>3, <1>4, <1>5, <1>6, <1>7, <1>8, <1>9, <1>10, <1>11, <1>12
     DEF Next, Waiting, Signalling

(* Nobody sleeps on a target that is reached, or unknown to the next       *)
(* signal, unless a signal is about to wake everyone.                      *)
THEOREM WakeupKept == Spec => []NoLostWakeup
<1>1. Init => WaitReady /\ NoLostWakeup
  BY DEF Init, WaitReady, NoLostWakeup, Threads
<1>2. TypeOK /\ WaitReady /\ [Next]_vars => WaitReady'
  BY ReadyInductive
<1>3. TypeOK /\ WaitReady /\ NoLostWakeup /\ [Next]_vars => NoLostWakeup'
  BY WakeupInductive
<1> QED
  BY <1>1, <1>2, <1>3, TypeCorrect, PTL DEF Spec


-----------------------------------------------------------------------------
(* qonce, which shares nothing with the timeline above: its own threads    *)
(* and its own word.                                                       *)

(* Where The First One is while the callback is not known to be complete.  *)
Performing == {"callback", "complete"}

(* The bits tell how far the callback has come: LOCK_BIT that somebody has *)
(* entered it, COMPLETE_BIT that it has returned and its thread has left.  *)
BitsTell ==
  /\ value # {} => "LOCK" \in value
  /\ started = IF "LOCK" \in value THEN 1 ELSE 0
  /\ finished \in {0, 1}
  /\ finished = 1 => "LOCK" \in value
  /\ "COMPLETE" \in value => finished = 1
  /\ "LOCK" \in value /\ "COMPLETE" \notin value =>
       \E t \in Callers : at[t] \in Performing

(* At most one thread is The First One, and only until COMPLETE_BIT.       *)
FirstAlone ==
  /\ \A t, u \in Callers : at[t] \in Performing /\ at[u] \in Performing => t = u
  /\ \A t \in Callers :
       /\ at[t] \in Performing => "LOCK" \in value /\ "COMPLETE" \notin value
       /\ at[t] = "callback" => finished = 0
       /\ at[t] = "complete" => finished = 1

(* A thread that has to wait was not the first, a thread that waits has    *)
(* announced itself, and waits for a word without COMPLETE_BIT.            *)
WaitAnnounced ==
  \A t \in Callers :
    /\ at[t] = "set_wait" => "LOCK" \in value
    /\ at[t] \in {"wait", "asleep", "woken"} => "WAIT" \in value
    /\ at[t] = "wait" => "COMPLETE" \notin val[t]

OnceInv ==
  /\ OnceTypeOK
  /\ BitsTell
  /\ FirstAlone
  /\ WaitAnnounced
  /\ ReturnAfterCallback
  /\ NoForgottenWaiter

(* What wake_all does to the threads that are not its caller.              *)
LEMMA OnceWakeStep ==
  ASSUME OnceTypeOK, NEW t \in Callers, WakeAll(t)
  PROVE  /\ at' \in [Callers -> Places]
         /\ at'[t] = "returned"
         /\ \A u \in Callers : at'[u] # "asleep"
         /\ \A u \in Callers : at[u] # "asleep" /\ u # t => at'[u] = at[u]
         /\ \A u \in Callers : at[u] = "asleep" => at'[u] = "woken"
BY DEF OnceTypeOK, WakeAll, sprt_qlock_wake_all, Places

(* One step keeps the invariant.                                           *)
LEMMA OnceInductive ==
  ASSUME OnceInv, [OnceNext]_onceVars
  PROVE  OnceInv'
<1> USE DEF OnceInv, OnceTypeOK, BitsTell, FirstAlone, WaitAnnounced,
            ReturnAfterCallback, NoForgottenWaiter, Performing, Sleepers, Bits,
            Places, Move
<1>1. ASSUME NEW t \in Callers, Perform(t) PROVE OnceInv'
  <2>1. CASE value = {}
    <3>1. /\ value' = {"LOCK"} /\ started' = 1 /\ finished' = finished
          /\ at' = [at EXCEPT ![t] = "callback"] /\ val' = [val EXCEPT ![t] = {}]
      BY <1>1, <2>1 DEF Perform
    <3>2. \A u \in Callers : at[u] \notin Performing \cup {"wait", "asleep", "woken"}
      BY <2>1
    <3>3. OnceTypeOK'
      BY <3>1
    <3>4. finished = 0 /\ \A u \in Callers : at[u] \notin {"returned", "wake"}
      BY <2>1
    <3> QED
      BY <3>1, <3>2, <3>3, <3>4
  <2>2. CASE "COMPLETE" \in value
    BY <1>1, <2>2 DEF Perform
  <2>3. CASE value # {} /\ "COMPLETE" \notin value
    BY <1>1, <2>3 DEF Perform
  <2> QED
    BY <2>1, <2>2, <2>3
<1>2. ASSUME NEW t \in Callers, Callback(t) PROVE OnceInv'
  BY <1>2 DEF Callback
<1>3. ASSUME NEW t \in Callers, Complete(t) PROVE OnceInv'
  BY <1>3 DEF Complete
<1>4. ASSUME NEW t \in Callers, WakeAll(t) PROVE OnceInv'
  <2>1. at[t] = "wake" /\ UNCHANGED <<value, val, started, finished>>
    BY <1>4 DEF WakeAll
  <2>2. \A u \in Callers : at[u] \in Performing <=> at'[u] \in Performing
    BY <1>4, <2>1, OnceWakeStep
  <2>3. OnceTypeOK' /\ NoForgottenWaiter'
    BY <1>4, <2>1, OnceWakeStep
  <2>4. BitsTell'
    BY <2>1, <2>2
  <2>5. FirstAlone'
    <3>1. \A u \in Callers : at'[u] \in Performing => at'[u] = at[u]
      BY <1>4, <2>1, OnceWakeStep
    <3> QED
      BY <2>1, <2>2, <3>1
  <2>6. WaitAnnounced' /\ ReturnAfterCallback'
    BY <1>4, <2>1, OnceWakeStep
  <2> QED
    BY <2>3, <2>4, <2>5, <2>6
<1>5. ASSUME NEW t \in Callers, SetWait(t) PROVE OnceInv'
  <2>1. /\ at[t] = "set_wait" /\ value' = value \cup {"WAIT"}
        /\ val' = [val EXCEPT ![t] = value]
        /\ started' = started /\ finished' = finished
    BY <1>5 DEF SetWait
  <2>2. CASE "COMPLETE" \in value
    <3>1. at' = [at EXCEPT ![t] = "returned"]
      BY <1>5, <2>2 DEF SetWait
    <3> QED
      BY <2>1, <2>2, <3>1
  <2>3. CASE "COMPLETE" \notin value
    <3>1. at' = [at EXCEPT ![t] = "wait"]
      BY <1>5, <2>3 DEF SetWait
    <3>2. OnceTypeOK' /\ WaitAnnounced' /\ ReturnAfterCallback'
      BY <2>1, <2>3, <3>1
    <3>3. BitsTell'
      <4>1. \A u \in Callers : at[u] \in Performing => at'[u] \in Performing
        BY <2>1, <3>1
      <4>2. \A b \in {"LOCK", "COMPLETE"} : b \in value' <=> b \in value
        BY <2>1
      <4> QED
        BY <2>1, <2>3, <4>1, <4>2
    <3>4. FirstAlone'
      BY <2>1, <2>3, <3>1
    <3>5. NoForgottenWaiter'
      BY <2>1, <2>3, <3>1
    <3> QED
      BY <3>2, <3>3, <3>4, <3>5
  <2> QED
    BY <2>2, <2>3
<1>6. ASSUME NEW t \in Callers, WaitComplete(t) PROVE OnceInv'
  <2>1. at[t] = "wait" /\ UNCHANGED <<value, val, started, finished>>
    BY <1>6 DEF WaitComplete
  <2>2. CASE value = val[t]
    <3>1. at' = [at EXCEPT ![t] = "asleep"]
      BY <1>6, <2>2 DEF WaitComplete, sprt_qlock_wait
    <3>2. "WAIT" \in value /\ "COMPLETE" \notin value
      BY <2>1, <2>2
    <3>3. PICK u \in Callers : at[u] \in Performing
      BY <3>2
    <3>4. at'[u] \in Performing
      BY <2>1, <3>1, <3>3
    <3> QED
      BY <2>1, <3>1, <3>2, <3>4
  <2>3. CASE value # val[t]
    <3>1. at' = [at EXCEPT ![t] = "woken"]
      BY <1>6, <2>3 DEF WaitComplete, sprt_qlock_wait
    <3> QED
      BY <2>1, <3>1
  <2> QED
    BY <2>2, <2>3
<1>7. ASSUME NEW t \in Callers, Reload(t) PROVE OnceInv'
  BY <1>7 DEF Reload
<1>8. ASSUME NEW t \in Callers, Interrupted(t) PROVE OnceInv'
  BY <1>8 DEF Interrupted
<1>9. CASE UNCHANGED onceVars
  BY <1>9 DEF onceVars
<1> QED
  BY <1>1, <1>2, <1>3, <1>4, <1>5, <1>6, <1>7, <1>8, <1>9
     DEF OnceNext, Proceed

(* The strengthened invariant holds in every reachable state.              *)
THEOREM OnceInvariance == OnceSpec => []OnceInv
<1>1. OnceInit => OnceInv
  BY DEF OnceInit, OnceInv, OnceTypeOK, BitsTell, FirstAlone, WaitAnnounced,
         ReturnAfterCallback, NoForgottenWaiter, Performing, Sleepers,
         Bits, Places
<1>2. OnceInv /\ [OnceNext]_onceVars => OnceInv'
  BY OnceInductive
<1> QED
  BY <1>1, <1>2, PTL DEF OnceSpec

(* The word of qonce and the locals of perform keep their types.           *)
THEOREM OnceTypeCorrect == OnceSpec => []OnceTypeOK
BY OnceInvariance, PTL DEF OnceInv

(* The callback of perform runs at most once, however many threads race    *)
(* for LOCK_BIT.                                                           *)
THEOREM OnlyOnce == OnceSpec => []AtMostOnce
<1>1. OnceInv => AtMostOnce
  BY DEF OnceInv, BitsTell, AtMostOnce
<1> QED
  BY <1>1, OnceInvariance, PTL

(* Nobody returns from perform before the callback has returned.           *)
THEOREM NobodyEarly == OnceSpec => []ReturnAfterCallback
BY OnceInvariance, PTL DEF OnceInv

(* No waiter of perform is forgotten: The First One sees WAIT_BIT or is    *)
(* already waking.                                                         *)
THEOREM OnceWakeupKept == OnceSpec => []NoForgottenWaiter
BY OnceInvariance, PTL DEF OnceInv


=============================================================================
