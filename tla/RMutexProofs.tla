---------------------------- MODULE RMutexProofs ----------------------------
(***************************************************************************)
(* Proofs about RMutex for every number of threads: until the word of an   *)
(* owner is overwritten, try_lock lets a second thread in or a join drops  *)
(* the joiner's own lock, the word, the count and the threads inside       *)
(* agree; and no sleeper is forgotten, with the word overwritten or not.   *)
(* The inductive invariant adds to the two properties where the owner of   *)
(* the word may be (OwnerPlace), what a thread knows of the word it        *)
(* fetched (Fetched), what is left to do for one that has ended            *)
(* (EndedPlace), and that the mark of a dead owner is on its way out       *)
(* (DiedPassing).                                                          *)
(***************************************************************************)
EXTENDS RMutex, TLAPS

(* While the word is intact a thread inside is between calls, and one that *)
(* is freeing the mutex still owns the word and has no count left.         *)
OwnerPlace ==
  intact =>
    /\ \A t \in inside : pc[t] = "idle"
    /\ \A t \in Releasing : word.owner = t /\ inside = {} /\ counter = 0

(* What a thread knows of the word between its fetch and its next access:  *)
(* it does not own the word, it waits on a word that announces it, retries *)
(* on an unowned one and compares with an unannounced one.                 *)
Fetched ==
  \A t \in Threads :
    /\ pc[t] \in {"announce", "wait", "asleep", "woken", "retry"}
         => word.owner # t
    /\ pc[t] = "wait" => expected[t].waiters
    /\ pc[t] \in {"woken", "asleep", "retry"} => expected[t].owner = Nobody
    /\ pc[t] = "unlock_cas" => ~expected[t].waiters

(* A thread that has ended is through with its last call, or unlocks what  *)
(* it found in its own list: a detached one does not stay an owner.        *)
EndedPlace ==
  \A t \in ended :
    /\ pc[t] \in {"idle", "unlock_cas", "store", "wake_store", "wake"}
    /\ t \in Detached /\ word.owner = t => pc[t] \in {"unlock_cas", "store"}

(* OWNER_DIED stays in the word only until its owner gets to rlock_wake.   *)
DiedPassing ==
  word.died => word.owner \in Threads /\ pc[word.owner] = "wake_store"

IInv ==
  /\ TypeOK
  /\ CountExact
  /\ OwnerPlace
  /\ Fetched
  /\ DiedPassing
  /\ EndedPlace
  /\ NoLostWakeup

(* What Goto does to the locals.                                           *)
LEMMA GotoStep ==
  ASSUME TypeOK, NEW t \in Threads, NEW l \in Locations, NEW w \in Words,
         Goto(t, l, w)
  PROVE  /\ pc' \in [Threads -> Locations] /\ expected' \in [Threads -> Words]
         /\ pc'[t] = l /\ expected'[t] = w
         /\ \A u \in Threads \ {t} :
              pc'[u] = pc[u] /\ expected'[u] = expected[u]
BY DEF TypeOK, Goto

(* The free word.                                                          *)
LEMMA FreeWord ==
  Free \in Words /\ Free.owner = Nobody /\ ~Free.waiters /\ ~Free.died
BY DEF Free, Words

(* The words of a new owner, without and with WAITERS_BIT.                 *)
LEMMA OwnedWord ==
  ASSUME NEW t \in Threads, NEW w,
         \/ w = [Free EXCEPT !.owner = t]
         \/ w = [Free EXCEPT !.owner = t, !.waiters = TRUE]
  PROVE  w \in Words /\ w.owner = t /\ ~w.died
BY DEF Free, Words

(* The word with OWNER_DIED.                                               *)
LEMMA DiedWord ==
  ASSUME NEW w \in Words, NEW x, x = [w EXCEPT !.died = TRUE]
  PROVE  x \in Words /\ x.owner = w.owner /\ x.waiters = w.waiters
BY DEF Words

(* The thread is told it has the mutex: where it goes, what it counts.     *)
LEMMA LockedStep ==
  ASSUME TypeOK, NEW t \in Threads, Locked(t)
  PROVE  /\ counter' = counter + 1 /\ inside' = inside \cup {t}
         /\ registered' \in SUBSET Threads
         /\ UNCHANGED <<ownerDied, notRecoverable, ended, extra>>
         /\ pc' \in [Threads -> Locations] /\ expected' \in [Threads -> Words]
         /\ pc'[t] = "idle"
         /\ \A u \in Threads \ {t} :
              pc'[u] = pc[u] /\ expected'[u] = expected[u]
<1>1. Goto(t, "idle", Free) /\ "idle" \in Locations
  BY DEF Locked, Locations
<1> QED
  BY <1>1, GotoStep, FreeWord DEF Locked, TypeOK

(* The thread finds it has the mutex already.                              *)
LEMMA RelockedStep ==
  ASSUME TypeOK, NEW t \in Threads, Relocked(t)
  PROVE  /\ \/ counter' = counter + 1 /\ extra' = extra + 1
            \/ UNCHANGED <<counter, extra>>
         /\ UNCHANGED <<ownerDied, notRecoverable, registered, ended, inside>>
         /\ pc' \in [Threads -> Locations] /\ expected' \in [Threads -> Words]
         /\ pc'[t] = "idle"
         /\ \A u \in Threads \ {t} :
              pc'[u] = pc[u] /\ expected'[u] = expected[u]
<1>1. Goto(t, "idle", Free) /\ "idle" \in Locations
  BY DEF Relocked, Locations
<1> QED
  BY <1>1, GotoStep, FreeWord DEF Relocked, flags

(* The head of the loop sends a thread that does not own the word to its   *)
(* next access, and changes nothing else.                                  *)
LEMMA HeadStep ==
  ASSUME TypeOK, NEW t \in Threads, NEW w \in Words, Head(t, w),
         w.died \/ w.owner # t
  PROVE  /\ UNCHANGED <<counter, ownerDied, notRecoverable, registered, ended,
                        inside, extra>>
         /\ pc' \in [Threads -> Locations] /\ expected' \in [Threads -> Words]
         /\ \/ pc'[t] = "idle" /\ w.died
            \/ /\ ~w.died /\ expected'[t] = w
               /\ \/ pc'[t] = "retry" /\ w.owner = Nobody
                  \/ pc'[t] = "wait" /\ w.owner # Nobody /\ w.waiters
                  \/ pc'[t] = "announce" /\ w.owner # Nobody /\ ~w.waiters
         /\ \A u \in Threads \ {t} :
              pc'[u] = pc[u] /\ expected'[u] = expected[u]
<1> DEFINE l == IF w.owner = Nobody THEN "retry"
                ELSE IF w.waiters THEN "wait" ELSE "announce"
<1>1. UNCHANGED <<counter, ownerDied, notRecoverable, registered, ended, inside,
                  extra>>
  BY DEF Head, flags
<1>2. l \in Locations /\ "idle" \in Locations
  BY DEF Locations
<1>3. CASE w.died
  BY <1>1, <1>2, <1>3, GotoStep, FreeWord DEF Head
<1>4. CASE ~w.died
  <2>1. Goto(t, l, w)
    BY <1>4 DEF Head
  <2>2. /\ pc'[t] = l /\ expected'[t] = w
        /\ pc' \in [Threads -> Locations] /\ expected' \in [Threads -> Words]
        /\ \A u \in Threads \ {t} :
             pc'[u] = pc[u] /\ expected'[u] = expected[u]
    <3> HIDE DEF l
    <3> QED
      BY <1>2, <2>1, GotoStep
  <2> QED
    BY <1>1, <1>4, <2>2
<1> QED
  BY <1>3, <1>4

(* _unlock up to its first write: where the thread goes, what it counts.   *)
LEMMA ReleaseStep ==
  ASSUME TypeOK, NEW t \in Threads, NEW n \in Nat, Release(t, n)
  PROVE  /\ counter' \in Nat
         /\ pc' \in [Threads -> Locations] /\ expected' \in [Threads -> Words]
         /\ \A u \in Threads \ {t} :
              pc'[u] = pc[u] /\ expected'[u] = expected[u]
         /\ \/ /\ n = 0 \/ word.owner # t
               /\ counter' = n /\ pc'[t] = "idle"
            \/ /\ n > 1 /\ word.owner = t
               /\ counter' = n - 1 /\ pc'[t] = "idle"
            \/ /\ n = 1 /\ word.owner = t /\ counter' = 0
               /\ \/ pc'[t] = "store"
                  \/ pc'[t] = "unlock_cas" /\ ~expected'[t].waiters
<1>1. /\ Free \in Words /\ word \in Words
      /\ {"idle", "store", "unlock_cas"} \subseteq Locations
  BY FreeWord DEF TypeOK, Locations
<1>2. CASE n = 0 \/ word.owner # t
  BY <1>1, <1>2, GotoStep DEF Release
<1>3. CASE n > 1 /\ word.owner = t
  BY <1>1, <1>3, GotoStep DEF Release
<1>4. CASE n = 1 /\ word.owner = t /\ word.waiters
  BY <1>1, <1>4, GotoStep DEF Release
<1>5. CASE n = 1 /\ word.owner = t /\ ~word.waiters
  BY <1>1, <1>5, GotoStep DEF Release
<1> QED
  BY <1>2, <1>3, <1>4, <1>5

(* A wake moves nobody but the caller and at most one sleeper, and wakes   *)
(* one if there is any.                                                    *)
LEMMA WakeStep ==
  ASSUME TypeOK, NEW t \in Threads, Wake(t)
  PROVE  /\ pc' \in [Threads -> Locations]
         /\ pc[t] = "wake" /\ pc'[t] = "idle"
         /\ \A u \in Threads \ {t} :
              pc'[u] = pc[u] \/ (pc[u] = "asleep" /\ pc'[u] = "woken")
         /\ Sleepers(pc') # {} => \E u \in Threads : pc'[u] = "woken"
<1> DEFINE p == [pc EXCEPT ![t] = "idle"]
<1>1. pc \in [Threads -> Locations] /\ pc[t] = "wake"
  BY DEF TypeOK, Wake
<1>2. /\ p \in [Threads -> Locations] /\ p[t] = "idle"
      /\ \A u \in Threads \ {t} : p[u] = pc[u]
  BY <1>1 DEF Locations
<1>3. pc' \in sprt_qlock_wake_one(p)
  BY DEF Wake
<1> HIDE DEF p
<1>4. CASE Sleepers(p) = {}
  BY <1>1, <1>2, <1>3, <1>4 DEF sprt_qlock_wake_one
<1>5. CASE Sleepers(p) # {}
  <2>1. PICK u \in Sleepers(p) : pc' = [p EXCEPT ![u] = "woken"]
    BY <1>3, <1>5 DEF sprt_qlock_wake_one
  <2>2. u \in Threads /\ p[u] = "asleep" /\ u # t
    BY <1>2 DEF Sleepers
  <2> QED
    BY <1>1, <1>2, <2>1, <2>2 DEF Locations
<1> QED
  BY <1>4, <1>5

(* A step keeps the types.                                                 *)
LEMMA TypeInductive ==
  ASSUME IInv, [Next]_vars
  PROVE  TypeOK'
<1> USE ThreadsAssumption, CounterAssumption
    DEF IInv, TypeOK, Fetched, Ready
<1>1. CASE UNCHANGED vars
  BY <1>1 DEF vars, attr, flags
<1>2. ASSUME NEW t \in Threads, Lock(t) PROVE TypeOK'
  <2>1. CASE word = Free
    <3>1. Locked(t) /\ word' \in Words /\ word'.owner = t /\ ~word'.died
      BY <1>2, <2>1, OwnedWord DEF Lock
    <3> QED
      BY <1>2, <2>1, <3>1, LockedStep, FreeWord DEF Lock, attr
  <2>2. CASE word # Free /\ ~word.died /\ word.owner = t
    BY <1>2, <2>2, RelockedStep DEF Lock, Head, attr
  <2>3. CASE word # Free /\ (word.died \/ word.owner # t)
    BY <1>2, <2>3, HeadStep DEF Lock, attr
  <2> QED
    BY <2>1, <2>2, <2>3
<1>3. ASSUME NEW t \in Threads, TryLock(t) PROVE TypeOK'
  <2>1. CASE word.owner = t
    BY <1>3, <2>1, RelockedStep DEF TryLock, attr
  <2>2. CASE word.owner # t /\ word = Free
    <3>1. Locked(t) /\ word' \in Words /\ word'.owner = t /\ ~word'.died
      BY <1>3, <2>2, OwnedWord DEF TryLock
    <3> QED
      BY <1>3, <2>2, <3>1, LockedStep, FreeWord DEF TryLock, attr
  <2>3. CASE word.owner # t /\ word # Free
    BY <1>3, <2>3, LockedStep DEF TryLock, attr
  <2> QED
    BY <2>1, <2>2, <2>3
<1>4. ASSUME NEW t \in Threads, Announce(t) PROVE TypeOK'
  BY <1>4 DEF Announce, Goto, Locations, attr, flags, Free, Words
<1>5. ASSUME NEW t \in Threads, Wait(t) PROVE TypeOK'
  BY <1>5 DEF Wait, sprt_qlock_wait, Locations, attr, flags, Free, Words
<1>6. ASSUME NEW t \in Threads, Retry(t) PROVE TypeOK'
  <2>1. CASE word = expected[t]
    <3>1. Locked(t) /\ word' \in Words /\ word'.owner = t /\ ~word'.died
      BY <1>6, <2>1, OwnedWord DEF Retry
    <3> QED
      BY <1>6, <2>1, <3>1, LockedStep, FreeWord DEF Retry, attr
  <2>2. CASE word # expected[t]
    <3>1. Head(t, word) /\ word \in Words /\ (word.died \/ word.owner # t)
      BY <1>6, <2>2 DEF Retry
    <3> QED
      BY <1>6, <2>2, <3>1, HeadStep DEF Retry, attr
  <2> QED
    BY <2>1, <2>2
<1>7. ASSUME NEW t \in Threads, Unlock(t) PROVE TypeOK'
  BY <1>7, ReleaseStep DEF Unlock, attr
<1>8. ASSUME NEW t \in Threads, UnlockInconsistent(t) PROVE TypeOK'
  <2>1. CASE counter = 0 \/ word.owner # t
    BY <1>8, <2>1 DEF UnlockInconsistent, attr
  <2>2. CASE counter # 0 /\ word.owner = t
    <3>1. Goto(t, "wake_store", Free) /\ "wake_store" \in Locations
      BY <1>8, <2>2 DEF UnlockInconsistent, Locations
    <3>2. word' \in Words /\ word'.owner = t /\ word'.waiters = word.waiters
      BY <1>8, <2>2, DiedWord DEF UnlockInconsistent
    <3> QED
      BY <1>8, <2>2, <3>1, <3>2, GotoStep, FreeWord
         DEF UnlockInconsistent, attr
  <2> QED
    BY <2>1, <2>2
<1>9. ASSUME NEW t \in Threads, UnlockCas(t) PROVE TypeOK'
  <2>1. CASE word = expected[t]
    <3>1. Goto(t, "idle", Free) /\ "idle" \in Locations
      BY <1>9, <2>1 DEF UnlockCas, Locations
    <3> QED
      BY <1>9, <2>1, <3>1, GotoStep, FreeWord DEF UnlockCas, attr, flags
  <2>2. CASE word # expected[t]
    <3>1. Goto(t, "store", Free) /\ "store" \in Locations
      BY <1>9, <2>2 DEF UnlockCas, Locations
    <3> QED
      BY <1>9, <2>2, <3>1, GotoStep, FreeWord DEF UnlockCas, attr, flags
  <2> QED
    BY <2>1, <2>2
<1>10. ASSUME NEW t \in Threads, Store(t) PROVE TypeOK'
  BY <1>10 DEF Store, Goto, Locations, attr, flags, Free, Words
<1>11. ASSUME NEW t \in Threads, WakeStore(t) PROVE TypeOK'
  BY <1>11 DEF WakeStore, Goto, Locations, attr, flags, Free, Words
<1>12. ASSUME NEW t \in Threads, Wake(t) PROVE TypeOK'
  BY <1>12, WakeStep DEF Wake, attr, flags
<1>13. ASSUME NEW t \in Threads, GiveUp(t) PROVE TypeOK'
  BY <1>13 DEF GiveUp, Goto, Locations, attr, flags, Free, Words
<1>14. ASSUME NEW t \in Threads, ThreadExit(t) PROVE TypeOK'
  <2>1. CASE t \in Detached /\ word.owner = t
    BY <1>14, <2>1, ReleaseStep DEF ThreadExit, ForceUnlock, attr
  <2>2. CASE t \in Detached /\ word.owner # t
    BY <1>14, <2>2 DEF ThreadExit, ForceUnlock, attr
  <2>3. CASE t \notin Detached
    BY <1>14, <2>3 DEF ThreadExit, attr
  <2> QED
    BY <2>1, <2>2, <2>3
<1>15. ASSUME NEW t \in Threads, Consistent(t) PROVE TypeOK'
  BY <1>15 DEF Consistent, Goto, Locations, attr, flags, Free, Words
<1>16. ASSUME NEW t \in Threads, NEW u \in Threads, Join(t, u)
       PROVE  TypeOK'
  <2>1. CASE word.owner = t
    BY <1>16, <2>1, ReleaseStep DEF Join, ForceUnlock, attr
  <2>2. CASE word.owner # t
    BY <1>16, <2>2 DEF Join, ForceUnlock, attr
  <2> QED
    BY <2>1, <2>2
<1> QED
  BY <1>1, <1>2, <1>3, <1>4, <1>5, <1>6, <1>7, <1>8, <1>9, <1>10, <1>11,
     <1>12, <1>13, <1>14, <1>15, <1>16 DEF Next, Proceed

(* A step keeps the word, the count and the threads inside in agreement.   *)
LEMMA CountInductive ==
  ASSUME IInv, [Next]_vars
  PROVE  CountExact' /\ OwnerPlace'
<1> USE ThreadsAssumption, CounterAssumption
    DEF IInv, TypeOK, CountExact, OwnerPlace, Fetched, Releasing, Ready
<1>1. CASE UNCHANGED vars
  BY <1>1 DEF vars, attr, flags
<1>2. ASSUME NEW t \in Threads, Lock(t) PROVE CountExact' /\ OwnerPlace'
  <2>1. CASE word = Free
    <3>1. Locked(t) /\ word' \in Words /\ word'.owner = t /\ ~word'.died
      BY <1>2, <2>1, OwnedWord DEF Lock
    <3> QED
      BY <1>2, <2>1, <3>1, LockedStep, FreeWord DEF Lock, attr
  <2>2. CASE word # Free /\ ~word.died /\ word.owner = t
    BY <1>2, <2>2, RelockedStep DEF Lock, Head, attr
  <2>3. CASE word # Free /\ (word.died \/ word.owner # t)
    BY <1>2, <2>3, HeadStep DEF Lock, attr
  <2> QED
    BY <2>1, <2>2, <2>3
<1>3. ASSUME NEW t \in Threads, TryLock(t) PROVE CountExact' /\ OwnerPlace'
  <2>1. CASE word.owner = t
    BY <1>3, <2>1, RelockedStep DEF TryLock, attr
  <2>2. CASE word.owner # t /\ word = Free
    <3>1. Locked(t) /\ word' \in Words /\ word'.owner = t /\ ~word'.died
      BY <1>3, <2>2, OwnedWord DEF TryLock
    <3> QED
      BY <1>3, <2>2, <3>1, LockedStep, FreeWord DEF TryLock, attr
  <2>3. CASE word.owner # t /\ word # Free
    BY <1>3, <2>3, LockedStep DEF TryLock, attr
  <2> QED
    BY <2>1, <2>2, <2>3
<1>4. ASSUME NEW t \in Threads, Announce(t) PROVE CountExact' /\ OwnerPlace'
  BY <1>4 DEF Announce, Goto, Locations, attr, flags, Free, Words
<1>5. ASSUME NEW t \in Threads, Wait(t) PROVE CountExact' /\ OwnerPlace'
  BY <1>5 DEF Wait, sprt_qlock_wait, Locations, attr, flags, Free, Words
<1>6. ASSUME NEW t \in Threads, Retry(t) PROVE CountExact' /\ OwnerPlace'
  <2>1. CASE word = expected[t]
    <3>1. Locked(t) /\ word' \in Words /\ word'.owner = t /\ ~word'.died
      BY <1>6, <2>1, OwnedWord DEF Retry
    <3> QED
      BY <1>6, <2>1, <3>1, LockedStep, FreeWord DEF Retry, attr
  <2>2. CASE word # expected[t]
    <3>1. Head(t, word) /\ word \in Words /\ (word.died \/ word.owner # t)
      BY <1>6, <2>2 DEF Retry
    <3> QED
      BY <1>6, <2>2, <3>1, HeadStep DEF Retry, attr
  <2> QED
    BY <2>1, <2>2
<1>7. ASSUME NEW t \in Threads, Unlock(t) PROVE CountExact' /\ OwnerPlace'
  BY <1>7, ReleaseStep DEF Unlock, attr
<1>8. ASSUME NEW t \in Threads, UnlockInconsistent(t)
      PROVE  CountExact' /\ OwnerPlace'
  <2>1. CASE counter = 0 \/ word.owner # t
    BY <1>8, <2>1 DEF UnlockInconsistent, attr
  <2>2. CASE counter # 0 /\ word.owner = t
    <3>1. Goto(t, "wake_store", Free) /\ "wake_store" \in Locations
      BY <1>8, <2>2 DEF UnlockInconsistent, Locations
    <3>2. word' \in Words /\ word'.owner = t /\ word'.waiters = word.waiters
      BY <1>8, <2>2, DiedWord DEF UnlockInconsistent
    <3> QED
      BY <1>8, <2>2, <3>1, <3>2, GotoStep, FreeWord
         DEF UnlockInconsistent, attr
  <2> QED
    BY <2>1, <2>2
<1>9. ASSUME NEW t \in Threads, UnlockCas(t) PROVE CountExact' /\ OwnerPlace'
  <2>1. CASE word = expected[t]
    <3>1. Goto(t, "idle", Free) /\ "idle" \in Locations
      BY <1>9, <2>1 DEF UnlockCas, Locations
    <3> QED
      BY <1>9, <2>1, <3>1, GotoStep, FreeWord DEF UnlockCas, attr, flags
  <2>2. CASE word # expected[t]
    <3>1. Goto(t, "store", Free) /\ "store" \in Locations
      BY <1>9, <2>2 DEF UnlockCas, Locations
    <3> QED
      BY <1>9, <2>2, <3>1, GotoStep, FreeWord DEF UnlockCas, attr, flags
  <2> QED
    BY <2>1, <2>2
<1>10. ASSUME NEW t \in Threads, Store(t) PROVE CountExact' /\ OwnerPlace'
  BY <1>10 DEF Store, Goto, Locations, attr, flags, Free, Words
<1>11. ASSUME NEW t \in Threads, WakeStore(t) PROVE CountExact' /\ OwnerPlace'
  BY <1>11 DEF WakeStore, Goto, Locations, attr, flags, Free, Words
<1>12. ASSUME NEW t \in Threads, Wake(t) PROVE CountExact' /\ OwnerPlace'
  <2>1. /\ Releasing' = Releasing
        /\ \A u \in Threads : pc[u] = "idle" => pc'[u] = "idle"
    BY <1>12, WakeStep
  <2> QED
    BY <1>12, <2>1 DEF Wake, flags
<1>13. ASSUME NEW t \in Threads, GiveUp(t) PROVE CountExact' /\ OwnerPlace'
  BY <1>13 DEF GiveUp, Goto, Locations, attr, flags, Free, Words
<1>14. ASSUME NEW t \in Threads, ThreadExit(t) PROVE CountExact' /\ OwnerPlace'
  <2>1. CASE t \in Detached /\ word.owner = t
    BY <1>14, <2>1, ReleaseStep DEF ThreadExit, ForceUnlock, attr
  <2>2. CASE t \in Detached /\ word.owner # t
    BY <1>14, <2>2 DEF ThreadExit, ForceUnlock, attr
  <2>3. CASE t \notin Detached
    BY <1>14, <2>3 DEF ThreadExit, attr
  <2> QED
    BY <2>1, <2>2, <2>3
<1>15. ASSUME NEW t \in Threads, Consistent(t) PROVE CountExact' /\ OwnerPlace'
  BY <1>15 DEF Consistent, Goto, Locations, attr, flags, Free, Words
<1>16. ASSUME NEW t \in Threads, NEW u \in Threads, Join(t, u)
       PROVE  CountExact' /\ OwnerPlace'
  <2>1. CASE word.owner = t
    BY <1>16, <2>1, ReleaseStep DEF Join, ForceUnlock, attr
  <2>2. CASE word.owner # t
    BY <1>16, <2>2 DEF Join, ForceUnlock, attr
  <2> QED
    BY <2>1, <2>2
<1> QED
  BY <1>1, <1>2, <1>3, <1>4, <1>5, <1>6, <1>7, <1>8, <1>9, <1>10, <1>11,
     <1>12, <1>13, <1>14, <1>15, <1>16 DEF Next, Proceed

(* A step keeps what the threads know of the word they fetched.            *)
LEMMA FetchedInductive ==
  ASSUME IInv, [Next]_vars
  PROVE  Fetched' /\ DiedPassing' /\ EndedPlace'
<1> USE ThreadsAssumption, CounterAssumption
    DEF IInv, TypeOK, Fetched, DiedPassing, EndedPlace, Ready
<1>1. CASE UNCHANGED vars
  BY <1>1 DEF vars, attr, flags
<1>2. ASSUME NEW t \in Threads, Lock(t) PROVE Fetched' /\ DiedPassing' /\ EndedPlace'
  <2>1. CASE word = Free
    <3>1. Locked(t) /\ word' \in Words /\ word'.owner = t /\ ~word'.died
      BY <1>2, <2>1, OwnedWord DEF Lock
    <3> QED
      BY <1>2, <2>1, <3>1, LockedStep, FreeWord DEF Lock, attr
  <2>2. CASE word # Free /\ ~word.died /\ word.owner = t
    BY <1>2, <2>2, RelockedStep DEF Lock, Head, attr
  <2>3. CASE word # Free /\ (word.died \/ word.owner # t)
    BY <1>2, <2>3, HeadStep DEF Lock, attr
  <2> QED
    BY <2>1, <2>2, <2>3
<1>3. ASSUME NEW t \in Threads, TryLock(t) PROVE Fetched' /\ DiedPassing' /\ EndedPlace'
  <2>1. CASE word.owner = t
    BY <1>3, <2>1, RelockedStep DEF TryLock, attr
  <2>2. CASE word.owner # t /\ word = Free
    <3>1. Locked(t) /\ word' \in Words /\ word'.owner = t /\ ~word'.died
      BY <1>3, <2>2, OwnedWord DEF TryLock
    <3> QED
      BY <1>3, <2>2, <3>1, LockedStep, FreeWord DEF TryLock, attr
  <2>3. CASE word.owner # t /\ word # Free
    BY <1>3, <2>3, LockedStep DEF TryLock, attr
  <2> QED
    BY <2>1, <2>2, <2>3
<1>4. ASSUME NEW t \in Threads, Announce(t) PROVE Fetched' /\ DiedPassing' /\ EndedPlace'
  BY <1>4 DEF Announce, Goto, Locations, attr, flags, Free, Words
<1>5. ASSUME NEW t \in Threads, Wait(t) PROVE Fetched' /\ DiedPassing' /\ EndedPlace'
  BY <1>5 DEF Wait, sprt_qlock_wait, Locations, attr, flags, Free, Words
<1>6. ASSUME NEW t \in Threads, Retry(t) PROVE Fetched' /\ DiedPassing' /\ EndedPlace'
  <2>1. CASE word = expected[t]
    <3>1. Locked(t) /\ word' \in Words /\ word'.owner = t /\ ~word'.died
      BY <1>6, <2>1, OwnedWord DEF Retry
    <3> QED
      BY <1>6, <2>1, <3>1, LockedStep, FreeWord DEF Retry, attr
  <2>2. CASE word # expected[t]
    <3>1. Head(t, word) /\ word \in Words /\ (word.died \/ word.owner # t)
      BY <1>6, <2>2 DEF Retry
    <3> QED
      BY <1>6, <2>2, <3>1, HeadStep DEF Retry, attr
  <2> QED
    BY <2>1, <2>2
<1>7. ASSUME NEW t \in Threads, Unlock(t) PROVE Fetched' /\ DiedPassing' /\ EndedPlace'
  BY <1>7, ReleaseStep DEF Unlock, attr
<1>8. ASSUME NEW t \in Threads, UnlockInconsistent(t)
      PROVE  Fetched' /\ DiedPassing' /\ EndedPlace'
  <2>1. CASE counter = 0 \/ word.owner # t
    BY <1>8, <2>1 DEF UnlockInconsistent, attr
  <2>2. CASE counter # 0 /\ word.owner = t
    <3>1. Goto(t, "wake_store", Free) /\ "wake_store" \in Locations
      BY <1>8, <2>2 DEF UnlockInconsistent, Locations
    <3>2. word' \in Words /\ word'.owner = t /\ word'.waiters = word.waiters
      BY <1>8, <2>2, DiedWord DEF UnlockInconsistent
    <3> QED
      BY <1>8, <2>2, <3>1, <3>2, GotoStep, FreeWord
         DEF UnlockInconsistent, attr
  <2> QED
    BY <2>1, <2>2
<1>9. ASSUME NEW t \in Threads, UnlockCas(t) PROVE Fetched' /\ DiedPassing' /\ EndedPlace'
  <2>1. CASE word = expected[t]
    <3>1. Goto(t, "idle", Free) /\ "idle" \in Locations
      BY <1>9, <2>1 DEF UnlockCas, Locations
    <3> QED
      BY <1>9, <2>1, <3>1, GotoStep, FreeWord DEF UnlockCas, attr, flags
  <2>2. CASE word # expected[t]
    <3>1. Goto(t, "store", Free) /\ "store" \in Locations
      BY <1>9, <2>2 DEF UnlockCas, Locations
    <3> QED
      BY <1>9, <2>2, <3>1, GotoStep, FreeWord DEF UnlockCas, attr, flags
  <2> QED
    BY <2>1, <2>2
<1>10. ASSUME NEW t \in Threads, Store(t) PROVE Fetched' /\ DiedPassing' /\ EndedPlace'
  BY <1>10 DEF Store, Goto, Locations, attr, flags, Free, Words
<1>11. ASSUME NEW t \in Threads, WakeStore(t) PROVE Fetched' /\ DiedPassing' /\ EndedPlace'
  BY <1>11 DEF WakeStore, Goto, Locations, attr, flags, Free, Words
<1>12. ASSUME NEW t \in Threads, Wake(t) PROVE Fetched' /\ DiedPassing' /\ EndedPlace'
  <2>1. /\ pc[t] = "wake" /\ pc'[t] = "idle" /\ UNCHANGED <<word, expected>>
        /\ \A u \in Threads \ {t} :
             pc'[u] = pc[u] \/ (pc[u] = "asleep" /\ pc'[u] = "woken")
    BY <1>12, WakeStep DEF Wake
  <2>2. Fetched'
    BY <2>1
  <2>3. DiedPassing' /\ EndedPlace'
    BY <1>12, <2>1 DEF Wake, flags
  <2> QED
    BY <2>2, <2>3
<1>13. ASSUME NEW t \in Threads, GiveUp(t) PROVE Fetched' /\ DiedPassing' /\ EndedPlace'
  BY <1>13 DEF GiveUp, Goto, Locations, attr, flags, Free, Words
<1>14. ASSUME NEW t \in Threads, ThreadExit(t) PROVE Fetched' /\ DiedPassing' /\ EndedPlace'
  <2>1. CASE t \in Detached /\ word.owner = t
    BY <1>14, <2>1, ReleaseStep DEF ThreadExit, ForceUnlock, attr
  <2>2. CASE t \in Detached /\ word.owner # t
    BY <1>14, <2>2 DEF ThreadExit, ForceUnlock, attr
  <2>3. CASE t \notin Detached
    BY <1>14, <2>3 DEF ThreadExit, attr
  <2> QED
    BY <2>1, <2>2, <2>3
<1>15. ASSUME NEW t \in Threads, Consistent(t) PROVE Fetched' /\ DiedPassing' /\ EndedPlace'
  BY <1>15 DEF Consistent, Goto, Locations, attr, flags, Free, Words
<1>16. ASSUME NEW t \in Threads, NEW u \in Threads, Join(t, u)
       PROVE  Fetched' /\ DiedPassing' /\ EndedPlace'
  <2>1. CASE word.owner = t
    BY <1>16, <2>1, ReleaseStep DEF Join, ForceUnlock, attr
  <2>2. CASE word.owner # t
    BY <1>16, <2>2 DEF Join, ForceUnlock, attr
  <2> QED
    BY <2>1, <2>2
<1> QED
  BY <1>1, <1>2, <1>3, <1>4, <1>5, <1>6, <1>7, <1>8, <1>9, <1>10, <1>11,
     <1>12, <1>13, <1>14, <1>15, <1>16 DEF Next, Proceed

(* A step keeps a sleeper announced, or a wake-up on its way.              *)
LEMMA WakeupInductive ==
  ASSUME IInv, [Next]_vars
  PROVE  NoLostWakeup'
<1> USE ThreadsAssumption, CounterAssumption
    DEF IInv, TypeOK, Fetched, DiedPassing, NoLostWakeup, Sleepers, Ready
<1>1. CASE UNCHANGED vars
  BY <1>1 DEF vars, attr, flags
<1>2. ASSUME NEW t \in Threads, Lock(t) PROVE NoLostWakeup'
  <2>1. CASE word = Free
    <3>1. Locked(t) /\ word' \in Words /\ word'.owner = t /\ ~word'.died
      BY <1>2, <2>1, OwnedWord DEF Lock
    <3> QED
      BY <1>2, <2>1, <3>1, LockedStep, FreeWord DEF Lock, attr
  <2>2. CASE word # Free /\ ~word.died /\ word.owner = t
    BY <1>2, <2>2, RelockedStep DEF Lock, Head, attr
  <2>3. CASE word # Free /\ (word.died \/ word.owner # t)
    BY <1>2, <2>3, HeadStep DEF Lock, attr
  <2> QED
    BY <2>1, <2>2, <2>3
<1>3. ASSUME NEW t \in Threads, TryLock(t) PROVE NoLostWakeup'
  <2>1. CASE word.owner = t
    BY <1>3, <2>1, RelockedStep DEF TryLock, attr
  <2>2. CASE word.owner # t /\ word = Free
    <3>1. Locked(t) /\ word' \in Words /\ word'.owner = t /\ ~word'.died
      BY <1>3, <2>2, OwnedWord DEF TryLock
    <3> QED
      BY <1>3, <2>2, <3>1, LockedStep, FreeWord DEF TryLock, attr
  <2>3. CASE word.owner # t /\ word # Free
    BY <1>3, <2>3, LockedStep DEF TryLock, attr
  <2> QED
    BY <2>1, <2>2, <2>3
<1>4. ASSUME NEW t \in Threads, Announce(t) PROVE NoLostWakeup'
  BY <1>4 DEF Announce, Goto, Locations, attr, flags, Free, Words
<1>5. ASSUME NEW t \in Threads, Wait(t) PROVE NoLostWakeup'
  BY <1>5 DEF Wait, sprt_qlock_wait, Locations, attr, flags, Free, Words
<1>6. ASSUME NEW t \in Threads, Retry(t) PROVE NoLostWakeup'
  <2>1. CASE word = expected[t]
    <3>1. word'.waiters
      BY <1>6, <2>1 DEF Retry, Free
    <3> QED
      BY <3>1
  <2>2. CASE word # expected[t]
    <3>1. Head(t, word) /\ word \in Words /\ (word.died \/ word.owner # t)
      BY <1>6, <2>2 DEF Retry
    <3> QED
      BY <1>6, <2>2, <3>1, HeadStep DEF Retry, attr
  <2> QED
    BY <2>1, <2>2
<1>7. ASSUME NEW t \in Threads, Unlock(t) PROVE NoLostWakeup'
  BY <1>7, ReleaseStep DEF Unlock, attr
<1>8. ASSUME NEW t \in Threads, UnlockInconsistent(t) PROVE NoLostWakeup'
  <2>1. CASE counter = 0 \/ word.owner # t
    BY <1>8, <2>1 DEF UnlockInconsistent, attr
  <2>2. CASE counter # 0 /\ word.owner = t
    <3>1. Goto(t, "wake_store", Free) /\ "wake_store" \in Locations
      BY <1>8, <2>2 DEF UnlockInconsistent, Locations
    <3>2. word' \in Words /\ word'.owner = t /\ word'.waiters = word.waiters
      BY <1>8, <2>2, DiedWord DEF UnlockInconsistent
    <3> QED
      BY <1>8, <2>2, <3>1, <3>2, GotoStep, FreeWord
         DEF UnlockInconsistent, attr
  <2> QED
    BY <2>1, <2>2
<1>9. ASSUME NEW t \in Threads, UnlockCas(t) PROVE NoLostWakeup'
  <2>1. CASE word = expected[t]
    <3>1. Goto(t, "idle", Free) /\ "idle" \in Locations
      BY <1>9, <2>1 DEF UnlockCas, Locations
    <3> QED
      BY <1>9, <2>1, <3>1, GotoStep, FreeWord DEF UnlockCas, attr, flags
  <2>2. CASE word # expected[t]
    <3>1. Goto(t, "store", Free) /\ "store" \in Locations
      BY <1>9, <2>2 DEF UnlockCas, Locations
    <3> QED
      BY <1>9, <2>2, <3>1, GotoStep, FreeWord DEF UnlockCas, attr, flags
  <2> QED
    BY <2>1, <2>2
<1>10. ASSUME NEW t \in Threads, Store(t) PROVE NoLostWakeup'
  BY <1>10 DEF Store, Goto, Locations, attr, flags, Free, Words
<1>11. ASSUME NEW t \in Threads, WakeStore(t) PROVE NoLostWakeup'
  BY <1>11 DEF WakeStore, Goto, Locations, attr, flags, Free, Words
<1>12. ASSUME NEW t \in Threads, Wake(t) PROVE NoLostWakeup'
  BY <1>12, WakeStep DEF Wake, attr, flags
<1>13. ASSUME NEW t \in Threads, GiveUp(t) PROVE NoLostWakeup'
  BY <1>13 DEF GiveUp, Goto, Locations, attr, flags, Free, Words
<1>14. ASSUME NEW t \in Threads, ThreadExit(t) PROVE NoLostWakeup'
  <2>1. CASE t \in Detached /\ word.owner = t
    BY <1>14, <2>1, ReleaseStep DEF ThreadExit, ForceUnlock, attr
  <2>2. CASE t \in Detached /\ word.owner # t
    BY <1>14, <2>2 DEF ThreadExit, ForceUnlock, attr
  <2>3. CASE t \notin Detached
    BY <1>14, <2>3 DEF ThreadExit, attr
  <2> QED
    BY <2>1, <2>2, <2>3
<1>15. ASSUME NEW t \in Threads, Consistent(t) PROVE NoLostWakeup'
  BY <1>15 DEF Consistent, Goto, Locations, attr, flags, Free, Words
<1>16. ASSUME NEW t \in Threads, NEW u \in Threads, Join(t, u)
       PROVE  NoLostWakeup'
  <2>1. CASE word.owner = t
    BY <1>16, <2>1, ReleaseStep DEF Join, ForceUnlock, attr
  <2>2. CASE word.owner # t
    BY <1>16, <2>2 DEF Join, ForceUnlock, attr
  <2> QED
    BY <2>1, <2>2
<1> QED
  BY <1>1, <1>2, <1>3, <1>4, <1>5, <1>6, <1>7, <1>8, <1>9, <1>10, <1>11,
     <1>12, <1>13, <1>14, <1>15, <1>16 DEF Next, Proceed

(* The invariant holds initially and is kept by every step.                *)
THEOREM Invariance == Spec => []IInv
<1>1. Init => IInv
  <2> SUFFICES ASSUME Init PROVE IInv
    OBVIOUS
  <2>1. \A t \in Threads : pc[t] = "idle"
    BY DEF Init
  <2>2. TypeOK
    BY FreeWord DEF Init, TypeOK, Locations
  <2>3. CountExact /\ OwnerPlace
    BY <2>1, FreeWord DEF Init, CountExact, OwnerPlace, Releasing
  <2>4. Fetched /\ DiedPassing /\ EndedPlace
    BY <2>1, FreeWord DEF Init, Fetched, DiedPassing, EndedPlace
  <2>5. NoLostWakeup
    BY <2>1, <2>2 DEF NoLostWakeup, Sleepers, TypeOK
  <2> QED
    BY <2>2, <2>3, <2>4, <2>5 DEF IInv
<1>2. IInv /\ [Next]_vars => IInv'
  BY TypeInductive, CountInductive, FetchedInductive, WakeupInductive DEF IInv
<1> QED
  BY <1>1, <1>2, PTL DEF Spec

(* The word, the count and the locals of every thread keep their types.    *)
THEOREM TypeCorrect == Spec => []TypeOK
BY Invariance, PTL DEF IInv

(* Until an owner's word is overwritten, try_lock lets a thread in beside  *)
(* the owner or a join unlocks the joiner's own mutex, the one thread      *)
(* inside, ended or not, owns the word and the count is exact.             *)
THEOREM CountAndOwner == Spec => []CountExact
BY Invariance, PTL DEF IInv

(* The three known defects are the only ways to let two threads in.        *)
THEOREM ExclusionWhileIntact == Spec => [](intact => MutualExclusion)
<1>1. IInv => (intact => MutualExclusion)
  BY DEF IInv, CountExact, MutualExclusion
<1> QED
  BY Invariance, <1>1, PTL

(* No unlock leaves a thread asleep that nobody will wake, not even one    *)
(* that overwrites the word of another owner.                              *)
THEOREM WakeupNotLost == Spec => []NoLostWakeup
BY Invariance, PTL DEF IInv

(* A detached thread that has ended is not the owner, but for the steps in *)
(* which it frees the mutex: force_unlock finds what it owned.  (For a     *)
(* joinable one DeadOwnerFreed fails.)                                     *)
THEOREM DetachedOwnerFreed ==
  Spec => [](\A t \in ended \cap Detached :
               word.owner = t => pc[t] \in {"unlock_cas", "store"})
<1>1. IInv => \A t \in ended \cap Detached :
                word.owner = t => pc[t] \in {"unlock_cas", "store"}
  BY DEF IInv, EndedPlace
<1> QED
  BY Invariance, <1>1, PTL

=============================================================================
