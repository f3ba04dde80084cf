------------------------------ MODULE QMutex ------------------------------
(***************************************************************************)
(* qmutex_base::_lock, _try_lock and _unlock of                            *)
(* include/sprt/runtime/thread/qmutex.h, one action per atomic access to   *)
(* the futex word, and the two kinds of caller they have:                  *)
(*                                                                         *)
(*   - class qmutex, whose lock() has no timeout and drops the status that *)
(*     _lock returns;                                                      *)
(*   - mutex_t (core/pthread/pthread_mutex.cc), which passes an optional   *)
(*     timeout and takes the mutex for locked only on Status::Ok.          *)
(*                                                                         *)
(* The word is the set of its bits, so fetchOr is a union and exchange(0)  *)
(* is the empty set.  Of a timeout only what the code compares is kept:    *)
(* none, some time left, or zero.                                          *)
(***************************************************************************)
EXTENDS Futex

CONSTANTS
  Threads,
  QmutexClients,    \* threads that lock through class qmutex
  Interruptible     \* threads a signal may interrupt in futex wait (EINTR)

ASSUME ClientsAssumption ==
  QmutexClients \subseteq Threads /\ Interruptible \subseteq Threads

VARIABLES
  value,    \* the futex word: a set of bits
  pc,       \* pc[t]: where thread t is
  c,        \* c[t]: the value fetched last by t, local to _lock
  timeout   \* timeout[t]: what is left of the timeout of t's call

vars == <<value, pc, c, timeout>>

LOCK_BIT == "LOCK"
WAIT_BIT == "WAIT"
Bits == {LOCK_BIT, WAIT_BIT}
Locations == {"idle", "check", "set_wait", "wait", "asleep", "woken", "retry",
              "critical", "wake"}
Timeouts == {"infinite", "left", "zero"}

TypeOK ==
  /\ value \in SUBSET Bits
  /\ pc \in [Threads -> Locations]
  /\ c \in [Threads -> SUBSET Bits]
  /\ timeout \in [Threads -> Timeouts]

Init ==
  /\ value = {}
  /\ pc = [t \in Threads |-> "idle"]
  /\ c = [t \in Threads |-> {}]
  /\ timeout = [t \in Threads |-> "infinite"]

Goto(t, location) == pc' = [pc EXCEPT ![t] = location]

-----------------------------------------------------------------------------
(* _lock: the first fetchOr. A qmutex has no timeout.                      *)
Lock(t) ==
  /\ pc[t] = "idle"
  /\ \E limit \in IF t \in QmutexClients THEN {"infinite"} ELSE Timeouts :
       timeout' = [timeout EXCEPT ![t] = limit]
  /\ c' = [c EXCEPT ![t] = value]
  /\ value' = value \cup {LOCK_BIT}
  /\ Goto(t, IF LOCK_BIT \in value THEN "check" ELSE "critical")

(* _try_lock: the same fetchOr, without a second attempt.                  *)
TryLock(t) ==
  /\ pc[t] = "idle"
  /\ value' = value \cup {LOCK_BIT}
  /\ Goto(t, IF LOCK_BIT \in value THEN "idle" ELSE "critical")
  /\ UNCHANGED <<c, timeout>>

(* Head of the loop: give up on an exhausted timeout; announce a waiter    *)
(* unless the fetched value already had one.                               *)
Check(t) ==
  /\ pc[t] = "check"
  /\ Goto(t, IF timeout[t] = "zero" THEN "idle"
             ELSE IF WAIT_BIT \in c[t] THEN "wait" ELSE "set_wait")
  /\ UNCHANGED <<value, c, timeout>>

(* fetchOr(WAIT_BIT): no wait when the lock was released meanwhile.        *)
SetWait(t) ==
  /\ pc[t] = "set_wait"
  /\ value' = value \cup {WAIT_BIT}
  /\ Goto(t, IF LOCK_BIT \in value THEN "wait" ELSE "retry")
  /\ UNCHANGED <<c, timeout>>

(* WaitFn for the word with both bits set.                                 *)
Wait(t) ==
  /\ pc[t] = "wait"
  /\ pc' = sprt_qlock_wait(pc, t, value, Bits)
  /\ UNCHANGED <<value, c, timeout>>

(* WaitFn fails with ETIMEDOUT.                                            *)
TimedOut(t) ==
  /\ pc[t] = "asleep"
  /\ timeout[t] # "infinite"
  /\ Goto(t, "idle")
  /\ UNCHANGED <<value, c, timeout>>

(* WaitFn fails with EINTR: _lock returns the error, which qmutex::lock    *)
(* drops, so that its caller goes on as if it had the lock.                *)
Interrupted(t) ==
  /\ pc[t] = "asleep"
  /\ t \in Interruptible
  /\ Goto(t, IF t \in QmutexClients THEN "critical" ELSE "idle")
  /\ UNCHANGED <<value, c, timeout>>

(* After the wait: subtract the elapsed time from the timeout.             *)
Elapse(t) ==
  /\ pc[t] = "woken"
  /\ \E left \in IF timeout[t] = "left" THEN {"left", "zero"} ELSE {timeout[t]} :
       timeout' = [timeout EXCEPT ![t] = left]
  /\ Goto(t, "retry")
  /\ UNCHANGED <<value, c>>

(* Mutants: the retry sets LOCK_BIT only; a woken thread takes the lock    *)
(* without looking at the fetched value.                                   *)
RetryUnmarked(t) ==
  /\ pc[t] = "retry"
  /\ c' = [c EXCEPT ![t] = value]
  /\ value' = value \cup {LOCK_BIT}
  /\ Goto(t, IF LOCK_BIT \in value THEN "check" ELSE "critical")
  /\ UNCHANGED timeout

RetryUntested(t) ==
  /\ pc[t] = "retry"
  /\ c' = [c EXCEPT ![t] = value]
  /\ value' = value \cup Bits
  /\ Goto(t, "critical")
  /\ UNCHANGED timeout

(* Foot of the loop: fetchOr of both bits, since others may still sleep.   *)
Retry(t) ==
  /\ pc[t] = "retry"
  /\ c' = [c EXCEPT ![t] = value]
  /\ value' = value \cup Bits
  /\ Goto(t, IF LOCK_BIT \in value THEN "check" ELSE "critical")
  /\ UNCHANGED timeout

(* Mutant: a waiter is looked for in the value just stored.                *)
UnlockRereads(t) ==
  /\ pc[t] = "critical"
  /\ value' = {}
  /\ Goto(t, IF WAIT_BIT \in value' THEN "wake" ELSE "idle")
  /\ UNCHANGED <<c, timeout>>

(* _unlock: exchange(0); a waiter has to be woken if WAIT_BIT was set.     *)
Unlock(t) ==
  /\ pc[t] = "critical"
  /\ value' = {}
  /\ Goto(t, IF WAIT_BIT \in value THEN "wake" ELSE "idle")
  /\ UNCHANGED <<c, timeout>>

(* _unlock: WakeFn.                                                        *)
Wake(t) ==
  /\ pc[t] = "wake"
  /\ pc' \in sprt_qlock_wake_one([pc EXCEPT ![t] = "idle"])
  /\ UNCHANGED <<value, c, timeout>>

(* The steps a thread takes once inside a call, or holding the lock.       *)
Proceed(t) ==
  Check(t) \/ SetWait(t) \/ Wait(t) \/ Elapse(t) \/ Retry(t) \/ Unlock(t)
    \/ Wake(t)

Next ==
  \E t \in Threads :
    Lock(t) \/ TryLock(t) \/ Proceed(t) \/ TimedOut(t) \/ Interrupted(t)

(* A thread that can run does, and a critical section ends.  Nothing makes *)
(* a thread call lock, and no timeout or signal has to happen.             *)
Fairness == \A t \in Threads : WF_vars(Proceed(t))

Spec == Init /\ [][Next]_vars /\ Fairness

-----------------------------------------------------------------------------
Holders == {t \in Threads : pc[t] = "critical"}

(* No two threads are between a successful lock and the matching unlock.   *)
MutualExclusion == \A t, u \in Holders : t = u

(* Of the wake-up of the comment in _lock ("to unlock other potential      *)
(* waiters"): while a thread sleeps, the word tells the holder to wake     *)
(* somebody, or a wake-up is on its way, in an _unlock about to call       *)
(* WakeFn or in a woken thread about to set WAIT_BIT again, through every  *)
(* barging locker, try_lock, timeout and interruption.                     *)
NoLostWakeup ==
  Sleepers(pc) # {} =>
    \/ value = Bits
    \/ \E t \in Threads : pc[t] \in {"wake", "woken", "retry"}

(* LOCK_BIT is set exactly while some thread holds the mutex: neither a    *)
(* failed try_lock nor a locker that times out leaves it behind.           *)
LockedIffHeld == LOCK_BIT \in value <=> Holders # {}

(* A thread asleep in lock() is not forgotten: some sleeper is woken in    *)
(* the end, unless this one gives up first. (Which one the lock goes to is *)
(* not promised: a qmutex is not fair.)                                    *)
SleeperIsWoken ==
  \A t \in Threads :
    pc[t] = "asleep" ~> (pc[t] # "asleep" \/ \E u \in Threads : pc[u] = "woken")

=============================================================================
