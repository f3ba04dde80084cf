------------------------------- MODULE RMutex -------------------------------
(***************************************************************************)
(* rmutex_base of include/sprt/runtime/thread/rmutex.h as mutex_t of       *)
(* core/pthread/pthread_mutex.cc uses it: a pthread mutex of type          *)
(* recursive or errorcheck, robust or not, with no priority protocol.      *)
(* rlock_wait, rlock_try_wait and rlock_wake are those of the locks        *)
(* without priority inheritance (the same on Linux, Darwin and Windows):   *)
(* rlock_try_wait does nothing and answers 0, and rlock_wake stores 0 in   *)
(* the word before it wakes one thread.                                    *)
(*                                                                         *)
(* One action per atomic access to the word. rlock.counter is changed by   *)
(* the owner only, in the step that makes or finds it the owner.  No       *)
(* timeout is kept: the test `*timeout && timeout == 0` is never true, so  *)
(* a timed lock gives up only when its wait fails.                         *)
(***************************************************************************)
EXTENDS Futex, Naturals

CONSTANTS
  Threads,
  TryLockers,     \* threads that call try_lock
  CanGiveUp,      \* threads whose wait may fail (ETIMEDOUT, EINTR)
  Detached,       \* threads that release their record themselves
  MaxCounter,     \* bound: no call to lock with so many counted already
  Nobody

ASSUME ThreadsAssumption ==
  /\ Nobody \notin Threads
  /\ TryLockers \subseteq Threads /\ CanGiveUp \subseteq Threads
  /\ Detached \subseteq Threads
ASSUME CounterAssumption == MaxCounter \in Nat

VARIABLES
  type,         \* attr.flags & TypeNMask, fixed by pthread_mutex_init
  robust,       \* attr.flags has Robust, fixed by pthread_mutex_init
  word,         \* the futex word: owner, WAITERS_BIT, OWNER_DIED
  counter,      \* rlock.counter
  ownerDied,    \* attr.flags has OwnerDied
  notRecoverable,
  registered,   \* threads with the mutex in threadRobustMutexes
  ended,        \* threads that are no more; their ids are not used again
  pc,
  expected,     \* expected[t]: the word fetched last by t
  inside,       \* threads that lock or try_lock told they have the mutex,
                \* one that has ended with it and left it locked included
  extra,        \* history: counts added or kept with no unlock to follow
  intact        \* history: no owner was overwritten, nobody let in beside it

attr == <<type, robust>>
flags == <<ownerDied, notRecoverable, registered, ended>>
vars == <<attr, word, counter, flags, pc, expected, inside, extra, intact>>

Words == [owner : Threads \cup {Nobody}, waiters : BOOLEAN, died : BOOLEAN]
Free == [owner |-> Nobody, waiters |-> FALSE, died |-> FALSE]
Locations == {"idle", "announce", "wait", "asleep", "woken", "retry",
              "unlock_cas", "store", "wake_store", "wake"}

TypeOK ==
  /\ type \in {"Recursive", "ErrorCheck"} /\ robust \in BOOLEAN
  /\ word \in Words
  /\ counter \in Nat /\ extra \in Nat
  /\ ownerDied \in BOOLEAN /\ notRecoverable \in BOOLEAN /\ intact \in BOOLEAN
  /\ registered \in SUBSET Threads /\ inside \in SUBSET Threads
  /\ ended \in SUBSET Threads
  /\ pc \in [Threads -> Locations]
  /\ expected \in [Threads -> Words]

Init ==
  /\ type \in {"Recursive", "ErrorCheck"} /\ robust \in BOOLEAN
  /\ word = Free /\ counter = 0
  /\ ownerDied = FALSE /\ notRecoverable = FALSE
  /\ registered = {} /\ ended = {}
  /\ pc = [t \in Threads |-> "idle"]
  /\ expected = [t \in Threads |-> Free]
  /\ inside = {} /\ extra = 0 /\ intact = TRUE

Goto(t, location, fetched) ==
  /\ pc' = [pc EXCEPT ![t] = location]
  /\ expected' = [expected EXCEPT ![t] = fetched]

(* The thread is between calls.                                            *)
Ready(t) == pc[t] = "idle" /\ t \notin ended

-----------------------------------------------------------------------------
(* _lock answered Ok: mutex_t counts the lock and, the first time, enters  *)
(* a robust mutex into the list of the thread; its caller is told 0, or    *)
(* EOWNERDEAD.                                                             *)
Locked(t) ==
  /\ counter' = counter + 1
  /\ registered' = IF robust /\ counter' = 1 THEN registered \cup {t}
                                             ELSE registered
  /\ inside' = inside \cup {t}
  /\ Goto(t, "idle", Free)
  /\ UNCHANGED <<ownerDied, notRecoverable, ended, extra>>

(* _lock answered Propagate: a recursive mutex counts the lock, but both   *)
(* types fall through to the case of Timeout and answer ETIMEDOUT.         *)
Relocked(t) ==
  /\ IF type = "Recursive" THEN counter' = counter + 1 /\ extra' = extra + 1
                           ELSE UNCHANGED <<counter, extra>>
  /\ Goto(t, "idle", Free)
  /\ UNCHANGED <<flags, inside>>

(* Head of the loop of _lock, for the word just fetched.                   *)
Head(t, fetched) ==
  IF ~fetched.died /\ fetched.owner = t THEN Relocked(t)
  ELSE /\ IF fetched.died THEN Goto(t, "idle", Free)
          ELSE Goto(t, IF fetched.owner = Nobody THEN "retry"
                       ELSE IF fetched.waiters THEN "wait" ELSE "announce",
                    fetched)
       /\ UNCHANGED <<counter, flags, inside, extra>>

(* lock: compare-and-swap from 0 to the thread id. The owner calls it too. *)
Lock(t) ==
  /\ Ready(t)
  /\ counter < MaxCounter
  /\ IF word = Free THEN word' = [Free EXCEPT !.owner = t] /\ Locked(t)
                    ELSE UNCHANGED word /\ Head(t, word)
  /\ UNCHANGED <<attr, intact>>

(* fetchOr(WAITERS_BIT): no wait when the mutex was released meanwhile.    *)
Announce(t) ==
  /\ pc[t] = "announce"
  /\ word' = [word EXCEPT !.waiters = TRUE]
  /\ Goto(t, IF word.owner = Nobody THEN "retry" ELSE "wait", word')
  /\ UNCHANGED <<attr, counter, flags, inside, extra, intact>>

(* WaitFn; when it returns, the word is assumed to be 0.                   *)
Wait(t) ==
  /\ pc[t] = "wait"
  /\ pc' = sprt_qlock_wait(pc, t, word, expected[t])
  /\ expected' = [expected EXCEPT ![t] = Free]
  /\ UNCHANGED <<attr, word, counter, flags, inside, extra, intact>>

(* WaitFn fails: lock answers ETIMEDOUT, or the error.                     *)
GiveUp(t) ==
  /\ pc[t] = "asleep"
  /\ t \in CanGiveUp
  /\ Goto(t, "idle", Free)
  /\ UNCHANGED <<attr, word, counter, flags, inside, extra, intact>>

(* Foot of the loop: compare-and-swap to the thread id and WAITERS_BIT.    *)
Retry(t) ==
  /\ pc[t] \in {"woken", "retry"}
  /\ IF word = expected[t]
       THEN word' = [Free EXCEPT !.owner = t, !.waiters = TRUE] /\ Locked(t)
       ELSE UNCHANGED word /\ Head(t, word)
  /\ UNCHANGED <<attr, intact>>

(* try_lock: for a taken mutex the answer is that of rlock_try_wait, 0.    *)
TryLock(t) ==
  /\ Ready(t)
  /\ t \in TryLockers
  /\ counter < MaxCounter
  /\ IF word.owner = t THEN Relocked(t) /\ UNCHANGED <<word, intact>>
     ELSE /\ word' = IF word = Free THEN [Free EXCEPT !.owner = t] ELSE word
          /\ intact' = (intact /\ word = Free)
          /\ Locked(t)
  /\ UNCHANGED attr

-----------------------------------------------------------------------------
(* Mutant: nobody asks whether the caller is the owner.                    *)
ReleaseAnyOwner(t, count) ==
  /\ counter' = count - 1
  /\ IF count > 1 THEN Goto(t, "idle", Free)
     ELSE Goto(t, IF word.waiters THEN "store" ELSE "unlock_cas", word)

(* rmutex_base::_unlock up to the first write of the word, for `count`     *)
(* locks: only the owner of a counted lock goes on, and only the last      *)
(* count frees the mutex.                                                  *)
Release(t, count) ==
  IF count = 0 \/ word.owner # t
    THEN counter' = count /\ Goto(t, "idle", Free)
    ELSE /\ counter' = count - 1
         /\ IF count > 1 THEN Goto(t, "idle", Free)
            ELSE Goto(t, IF word.waiters THEN "store" ELSE "unlock_cas", word)

(* unlock of a mutex in order. A count left over by a relock stays.        *)
Unlock(t) ==
  /\ Ready(t)
  /\ t \in inside
  /\ ~ownerDied
  /\ Release(t, counter)
  /\ inside' = inside \ {t}
  /\ registered' = IF pc'[t] = "idle" THEN registered ELSE registered \ {t}
  /\ UNCHANGED <<attr, word, ownerDied, notRecoverable, ended, extra, intact>>

(* unlock of a mutex whose owner died, with no call of consistent: the     *)
(* mutex becomes unrecoverable and the word gets OWNER_DIED; the count     *)
(* stays.                                                                  *)
UnlockInconsistent(t) ==
  /\ Ready(t)
  /\ t \in inside
  /\ ownerDied
  /\ inside' = inside \ {t}
  /\ IF counter = 0 \/ word.owner # t
       THEN UNCHANGED <<word, notRecoverable, pc, expected, extra>>
       ELSE /\ notRecoverable' = TRUE
            /\ word' = [word EXCEPT !.died = TRUE]
            /\ Goto(t, "wake_store", Free)
            /\ extra' = extra + 1
  /\ UNCHANGED <<attr, counter, ownerDied, registered, ended, intact>>

(* Mutant: a plain store in place of the compare-and-swap.                 *)
UnlockPlain(t) ==
  /\ pc[t] = "unlock_cas"
  /\ word' = Free
  /\ Goto(t, "idle", Free)
  /\ UNCHANGED <<attr, counter, flags, inside, extra, intact>>

(* No waiter was announced when _unlock loaded the word: compare-and-swap. *)
UnlockCas(t) ==
  /\ pc[t] = "unlock_cas"
  /\ IF word = expected[t] THEN word' = Free /\ Goto(t, "idle", Free)
                           ELSE UNCHANGED word /\ Goto(t, "store", Free)
  /\ UNCHANGED <<attr, counter, flags, inside, extra, intact>>

(* The compare-and-swap failed or was not tried: store 0.                  *)
Store(t) ==
  /\ pc[t] = "store"
  /\ word' = Free
  /\ Goto(t, "wake_store", Free)
  /\ UNCHANGED <<attr, counter, flags, inside, extra, intact>>

(* rlock_wake: store 0 once more, whatever the word holds by now.          *)
WakeStore(t) ==
  /\ pc[t] = "wake_store"
  /\ word' = Free
  /\ intact' = (intact /\ word.owner \in {Nobody, t})
  /\ Goto(t, "wake", Free)
  /\ UNCHANGED <<attr, counter, flags, inside, extra>>

Wake(t) ==
  /\ pc[t] = "wake"
  /\ pc' \in sprt_qlock_wake_one([pc EXCEPT ![t] = "idle"])
  /\ UNCHANGED <<attr, word, counter, flags, expected, inside, extra, intact>>

(* Mutant: the recursion of the thread is not dropped.                     *)
ForceUnlockOnce(t, u) ==
  /\ registered' = registered \ {u}
  /\ IF word.owner = t
       THEN ownerDied' = TRUE /\ extra' = 0 /\ Release(t, counter)
       ELSE UNCHANGED <<ownerDied, extra, counter, pc, expected>>

(* force_unlock of the mutex in the robust list of u, run by t: the owner  *)
(* test is for the id of the thread that runs it.  What recursion there    *)
(* was is dropped.                                                         *)
ForceUnlock(t, u) ==
  /\ registered' = registered \ {u}
  /\ IF word.owner = t
       THEN ownerDied' = TRUE /\ extra' = 0 /\ Release(t, 1)
       ELSE UNCHANGED <<ownerDied, extra, counter, pc, expected>>

(* A thread with the mutex in its robust list ends.  A detached one        *)
(* destroys its memory pool and so walks the list itself; the list of a    *)
(* joinable one is left to whoever joins or detaches it.                   *)
ThreadExit(t) ==
  /\ Ready(t)
  /\ t \in registered
  /\ ended' = ended \cup {t}
  /\ IF t \in Detached
       THEN ForceUnlock(t, t) /\ inside' = inside \ {t}
       ELSE UNCHANGED <<ownerDied, registered, counter, pc, expected, inside,
                        extra>>
  /\ UNCHANGED <<attr, word, notRecoverable, intact>>

(* Thread t joins u and destroys its memory pool: what u owned stays       *)
(* owned.  A mutex that t owns itself, and u has only left in its list, is *)
(* unlocked under t.                                                       *)
Join(t, u) ==
  /\ Ready(t)
  /\ u \in ended \cap registered
  /\ ForceUnlock(t, u)
  /\ intact' = (intact /\ word.owner # t)
  /\ UNCHANGED <<attr, word, notRecoverable, ended, inside>>

(* consistent: clears OwnerDied (and answers EINVAL all the same).         *)
Consistent(t) ==
  /\ Ready(t)
  /\ t \in inside
  /\ robust /\ ~notRecoverable /\ ownerDied
  /\ ownerDied' = FALSE
  /\ UNCHANGED <<attr, word, counter, notRecoverable, registered, ended, pc,
                 expected, inside, extra, intact>>

(* The steps a thread takes once inside a call, or holding the mutex.      *)
Proceed(t) ==
  Announce(t) \/ Wait(t) \/ Retry(t) \/ Unlock(t)
    \/ UnlockInconsistent(t) \/ UnlockCas(t) \/ Store(t) \/ WakeStore(t)
    \/ Wake(t)

Next ==
  \E t \in Threads :
    Lock(t) \/ TryLock(t) \/ Proceed(t) \/ GiveUp(t) \/ ThreadExit(t)
      \/ Consistent(t) \/ \E u \in Threads : Join(t, u)

(* A thread that can run does, and a critical section ends.                *)
Fairness == \A t \in Threads : WF_vars(Proceed(t))

Spec == Init /\ [][Next]_vars /\ Fairness

-----------------------------------------------------------------------------
(* "Use as a general purpose mutex": no two threads hold it.               *)
MutualExclusion == \A t, u \in inside : t = u

(* A store of rlock_wake that hits a word locked again since the store of  *)
(* _unlock, a try_lock of a taken mutex, and a join by the owner of a      *)
(* thread that has the mutex in its list, are the only ways to break       *)
(* mutual exclusion: before the first of them the one thread inside is the *)
(* owner of the word.  The count tells it when to free the mutex: it is    *)
(* its own lock and the extra counts, and a mutex stays owned with nobody  *)
(* inside only for those.  A joinable thread that ends with the mutex      *)
(* stays its owner, and its count stays too.                               *)
Releasing == {t \in Threads : pc[t] \in {"unlock_cas", "store"}}
CountExact ==
  intact =>
    /\ counter = extra + (IF inside = {} THEN 0 ELSE 1)
    /\ inside # {} => inside = {word.owner}
    /\ inside = {} /\ Releasing = {} /\ extra = 0 => word.owner = Nobody

(* While a thread sleeps, WAITERS_BIT tells the owner, or a wake-up is on  *)
(* its way, through the race of fetchOr(WAITERS_BIT) with the              *)
(* compare-and-swap of _unlock and through every overwritten word.         *)
NoLostWakeup ==
  Sleepers(pc) # {} =>
    \/ word.waiters
    \/ \E t \in Threads :
         pc[t] \in {"announce", "store", "wake_store", "wake", "woken",
                    "retry"}

(* A sleeper is not forgotten: some sleeper is woken in the end, unless    *)
(* this one gives up, the owner keeps the mutex for an extra count, it was *)
(* a joinable thread and has ended, or the word was overwritten.           *)
SleeperIsWoken ==
  \A t \in Threads :
    pc[t] = "asleep"
      ~> \/ pc[t] # "asleep" \/ \E u \in Threads : pc[u] = "woken"
         \/ extra > 0 \/ ~intact \/ word.owner \in ended \ Detached

(* "Mutex with dead owner should be locked successfully at first before    *)
(* call `consistent`": a thread whose robust list was walked does not own  *)
(* the mutex, once it or the one that joined it is through with it.  The   *)
(* code keeps this for detached threads only.                              *)
DeadOwnerFreed ==
  \A t \in ended \ registered :
    word.owner = t => pc[t] \in {"unlock_cas", "store"}

=============================================================================
