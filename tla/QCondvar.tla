------------------------------ MODULE QCondvar ------------------------------
(***************************************************************************)
(* qcondvar_base of include/sprt/runtime/thread/qcondvar.h, under          *)
(* sprt::condition_variable and pthread_cond_t: _wait, with and without a  *)
(* timeout, and _signal with wake_one and wake_all, one action per atomic  *)
(* access to the shared words.                                             *)
(*                                                                         *)
(* The mutexes are external: a mutex has an owner or none, and locking it  *)
(* cannot fail, as in sprt::condition_variable.  Threads signal with the   *)
(* mutex Main held; waiters come with any mutex, so the capture of the     *)
(* condition by one mutex and the refusal of the others happen.            *)
(***************************************************************************)
EXTENDS Futex, Integers, FiniteSets

CONSTANTS
  Waiters,       \* threads that call wait and wait_for
  Signallers,    \* threads that call notify_one and notify_all
  Mutexes,       \* the mutexes waiters come with
  Main,          \* the mutex the signallers hold
  None,          \* no mutex, and no thread
  MaxValue       \* bound on the 32-bit value, which does not wrap

ASSUME RolesAssumption == Waiters \cap Signallers = {}
ASSUME MutexAssumption == Main \in Mutexes /\ None \notin Mutexes
ASSUME FiniteAssumption == IsFiniteSet(Waiters)
ASSUME NoneAssumption == None \notin Waiters \cup Signallers
ASSUME MaxAssumption == MaxValue \in Nat \ {0}

Threads == Waiters \cup Signallers

VARIABLES
  mutexid,    \* the mutex that captured the condition
  counter,    \* number of waiters that captured it
  value,      \* the futex word
  previous,   \* the value the last waiter started from
  owner,      \* owner[m]: the thread that holds mutex m
  pc,         \* pc[t]: where thread t is
  mutex,      \* mutex[t]: the mutex t brought to its call
  v,          \* v[t]: the local v of _wait and of _signal
  timeout     \* timeout[t]: what is left of the timeout of t's call

vars == <<mutexid, counter, value, previous, owner, pc, mutex, v, timeout>>

Timeouts == {"infinite", "left", "zero"}

(* Where a waiter has released the mutex and waits for a signal.           *)
Blocked == {"test", "wait", "asleep", "woken"}

(* Where the condition is captured, and where the capture is counted.      *)
Counted == Blocked \cup {"load", "store", "unlock", "relock", "uncount"}
Captured == Counted \cup {"count", "release"}

CountedWaiters == {t \in Waiters : pc[t] \in Counted}

WaiterLocations == Captured \cup {"idle", "locked"}
SignallerLocations == {"idle", "locked", "previous", "value", "one", "all"}

TypeOK ==
  /\ mutexid \in Mutexes \cup {None}
  /\ counter \in Nat
  /\ value \in 0 .. MaxValue
  /\ previous \in 0 .. MaxValue
  /\ owner \in [Mutexes -> Threads \cup {None}]
  /\ pc \in [Threads -> WaiterLocations \cup SignallerLocations]
  /\ mutex \in [Threads -> Mutexes \cup {None}]
  /\ v \in [Threads -> Nat]
  /\ timeout \in [Waiters -> Timeouts]
  /\ \A t \in Waiters : pc[t] \in WaiterLocations
  /\ \A t \in Signallers : pc[t] \in SignallerLocations

Init ==
  /\ mutexid = None
  /\ counter = 0
  /\ value = 0
  /\ previous = 0
  /\ owner = [m \in Mutexes |-> None]
  /\ pc = [t \in Threads |-> "idle"]
  /\ mutex = [t \in Threads |-> None]
  /\ v = [t \in Threads |-> 0]
  /\ timeout = [t \in Waiters |-> "infinite"]

Goto(t, location) == pc' = [pc EXCEPT ![t] = location]

word == <<mutexid, counter, value, previous>>

-----------------------------------------------------------------------------
(* A thread takes a mutex before its call, a signaller the mutex Main, and *)
(* gives it back afterwards.                                               *)
Lock(t, m) ==
  /\ pc[t] = "idle"
  /\ owner[m] = None
  /\ owner' = [owner EXCEPT ![m] = t]
  /\ mutex' = [mutex EXCEPT ![t] = m]
  /\ Goto(t, "locked")
  /\ UNCHANGED <<word, v, timeout>>

Unlock(t) ==
  /\ pc[t] = "locked"
  /\ owner' = [owner EXCEPT ![mutex[t]] = None]
  /\ mutex' = [mutex EXCEPT ![t] = None]
  /\ v' = [v EXCEPT ![t] = 0]
  /\ timeout' = [timeout EXCEPT ![t] = "infinite"]
  /\ Goto(t, "idle")
  /\ UNCHANGED word

-----------------------------------------------------------------------------
(* Mutant: a condition captured by another mutex is taken over.            *)
CaptureAny(t) ==
  /\ pc[t] = "locked"
  /\ \E limit \in Timeouts : timeout' = [timeout EXCEPT ![t] = limit]
  /\ mutexid' = mutex[t]
  /\ Goto(t, "count")
  /\ UNCHANGED <<counter, value, previous, owner, mutex, v>>

(* _wait: compare-exchange of mutexid.  ErrorInvalidArguemnt, with nothing *)
(* changed, when another mutex captured the condition.                     *)
Capture(t) ==
  /\ pc[t] = "locked"
  /\ mutexid \in {None, mutex[t]}
  /\ \E limit \in Timeouts : timeout' = [timeout EXCEPT ![t] = limit]
  /\ mutexid' = mutex[t]
  /\ Goto(t, "count")
  /\ UNCHANGED <<counter, value, previous, owner, mutex, v>>

(* Mutant: a new capture is not counted.                                   *)
CountNothing(t) ==
  /\ pc[t] = "count"
  /\ Goto(t, "load")
  /\ UNCHANGED <<word, owner, mutex, v, timeout>>

Count(t) ==
  /\ pc[t] = "count"
  /\ counter' = counter + 1
  /\ Goto(t, "load")
  /\ UNCHANGED <<mutexid, value, previous, owner, mutex, v, timeout>>

(* Load of value, still under the mutex.                                   *)
Load(t) ==
  /\ pc[t] = "load"
  /\ v' = [v EXCEPT ![t] = value]
  /\ Goto(t, "store")
  /\ UNCHANGED <<word, owner, mutex, timeout>>

(* Mutant: previous is left at the value of the first waiter.              *)
StoreNothing(t) ==
  /\ pc[t] = "store"
  /\ Goto(t, "unlock")
  /\ UNCHANGED <<word, owner, mutex, v, timeout>>

(* Store of previous, still under the mutex.                               *)
Store(t) ==
  /\ pc[t] = "store"
  /\ previous' = v[t]
  /\ Goto(t, "unlock")
  /\ UNCHANGED <<mutexid, counter, value, owner, mutex, v, timeout>>

(* UnlockFn.                                                               *)
Release(t) ==
  /\ pc[t] = "unlock"
  /\ owner' = [owner EXCEPT ![mutex[t]] = None]
  /\ Goto(t, "test")
  /\ UNCHANGED <<word, mutex, v, timeout>>

(* Head of the loop: leave when the value has changed or when no time is   *)
(* left.                                                                   *)
Test(t) ==
  /\ pc[t] = "test"
  /\ Goto(t, IF v[t] # value \/ timeout[t] = "zero" THEN "relock" ELSE "wait")
  /\ UNCHANGED <<word, owner, mutex, v, timeout>>

(* Mutant: waits for whatever the value is now.                            *)
FutexWaitUnchecked(t) ==
  /\ pc[t] = "wait"
  /\ Goto(t, "asleep")
  /\ UNCHANGED <<word, owner, mutex, v, timeout>>

(* WaitFn(&value, v).                                                      *)
FutexWait(t) ==
  /\ pc[t] = "wait"
  /\ pc' = sprt_qlock_wait(pc, t, value, v[t])
  /\ UNCHANGED <<word, owner, mutex, v, timeout>>

(* WaitFn fails: ETIMEDOUT leaves the loop, any other error goes round it. *)
TimedOut(t) ==
  /\ pc[t] = "asleep"
  /\ timeout[t] = "left"
  /\ Goto(t, "relock")
  /\ UNCHANGED <<word, owner, mutex, v, timeout>>

Interrupted(t) ==
  /\ pc[t] = "asleep"
  /\ Goto(t, "woken")
  /\ UNCHANGED <<word, owner, mutex, v, timeout>>

(* Subtract the elapsed time.                                              *)
Elapse(t) ==
  /\ pc[t] = "woken"
  /\ \E left \in IF timeout[t] = "left" THEN {"left", "zero"} ELSE {timeout[t]} :
       timeout' = [timeout EXCEPT ![t] = left]
  /\ Goto(t, "test")
  /\ UNCHANGED <<word, owner, mutex, v>>

(* LockFn.                                                                 *)
Relock(t) ==
  /\ pc[t] = "relock"
  /\ owner[mutex[t]] = None
  /\ owner' = [owner EXCEPT ![mutex[t]] = t]
  /\ Goto(t, "uncount")
  /\ UNCHANGED <<word, mutex, v, timeout>>

(* fetchSub of counter: the last waiter gives the condition up.            *)
Uncount(t) ==
  /\ pc[t] = "uncount"
  /\ counter' = counter - 1
  /\ Goto(t, IF counter = 1 THEN "release" ELSE "locked")
  /\ UNCHANGED <<mutexid, value, previous, owner, mutex, v, timeout>>

GiveUp(t) ==
  /\ pc[t] = "release"
  /\ mutexid' = None
  /\ Goto(t, "locked")
  /\ UNCHANGED <<counter, value, previous, owner, mutex, v, timeout>>

-----------------------------------------------------------------------------
(* _signal: nothing to do when no mutex captured the condition.            *)
Signal(t) ==
  /\ pc[t] = "locked"
  /\ mutexid # None
  /\ value < MaxValue
  /\ Goto(t, "previous")
  /\ UNCHANGED <<word, owner, mutex, v, timeout>>

(* Load of previous.                                                       *)
LoadPrevious(t) ==
  /\ pc[t] = "previous"
  /\ v' = [v EXCEPT ![t] = 1 + previous]
  /\ Goto(t, "value")
  /\ UNCHANGED <<word, owner, mutex, timeout>>

(* Store of value, then WakeFn for one thread or for all of them.          *)
StoreValue(t) ==
  /\ pc[t] = "value"
  /\ value' = v[t]
  /\ \E wake \in {"one", "all"} : Goto(t, wake)
  /\ UNCHANGED <<mutexid, counter, previous, owner, mutex, v, timeout>>

WakeOne(t) ==
  /\ pc[t] = "one"
  /\ pc' \in sprt_qlock_wake_one([pc EXCEPT ![t] = "locked"])
  /\ UNCHANGED <<word, owner, mutex, v, timeout>>

(* Mutant: wakes one thread only.                                          *)
WakeAllButOne(t) ==
  /\ pc[t] = "all"
  /\ pc' \in sprt_qlock_wake_one([pc EXCEPT ![t] = "locked"])
  /\ UNCHANGED <<word, owner, mutex, v, timeout>>

WakeAll(t) ==
  /\ pc[t] = "all"
  /\ pc' = sprt_qlock_wake_all([pc EXCEPT ![t] = "locked"])
  /\ UNCHANGED <<word, owner, mutex, v, timeout>>

-----------------------------------------------------------------------------
Waiting(t) ==
  \/ Count(t) \/ Load(t) \/ Store(t) \/ Release(t) \/ Test(t) \/ FutexWait(t)
  \/ Elapse(t) \/ Relock(t) \/ Uncount(t) \/ GiveUp(t)

Signalling(t) == LoadPrevious(t) \/ StoreValue(t) \/ WakeOne(t) \/ WakeAll(t)

Next ==
  \/ \E t \in Waiters :
       \/ \E m \in Mutexes : Lock(t, m)
       \/ Unlock(t) \/ Capture(t) \/ Waiting(t) \/ TimedOut(t) \/ Interrupted(t)
  \/ \E t \in Signallers :
       Lock(t, Main) \/ Unlock(t) \/ Signal(t) \/ Signalling(t)

(* A thread inside a call runs when it can.                                *)
Fairness ==
  /\ \A t \in Waiters : WF_vars(Waiting(t))
  /\ \A t \in Signallers : WF_vars(Signalling(t))

Spec == Init /\ [][Next]_vars /\ Fairness

-----------------------------------------------------------------------------
(* The condition belongs to the mutex of every waiter inside _wait, and    *)
(* counter counts them exactly: it is given up by the last waiter and by   *)
(* no earlier one, so that a signal never takes a condition with blocked   *)
(* waiters for a free one ("no waiters") and never serves two mutexes.     *)
CaptureCounted ==
  /\ counter = Cardinality(CountedWaiters)
  /\ \A t \in Waiters : pc[t] \in Captured => mutexid = mutex[t]

(* When a signaller is about to wake, every waiter of its mutex that is    *)
(* blocked started from another value than the one stored: the thread that *)
(* the futex picks leaves _wait and the signal is not absorbed by a thread *)
(* that goes back to sleep, although value is computed from previous and   *)
(* not from itself.                                                        *)
SignalNotAbsorbed ==
  \A s \in Signallers, t \in Waiters :
    pc[s] \in {"one", "all"} /\ pc[t] \in Blocked /\ mutex[t] = Main
      => v[t] # value

(* notify_all releases every waiter that is blocked when it wakes.         *)
BroadcastWakesAll ==
  \A s \in Signallers, t \in Waiters :
    (pc[s] = "all" /\ pc[t] \in Blocked /\ mutex[t] = Main)
      ~> pc[t] \notin Blocked

(* notify_one releases at least one of the waiters blocked when it wakes.  *)
SignalWakesOne ==
  \A s \in Signallers, W \in (SUBSET Waiters) \ {{}} :
    (pc[s] = "one" /\ W = {t \in Waiters : pc[t] \in Blocked /\ mutex[t] = Main})
      ~> \E t \in W : pc[t] \notin Blocked

=============================================================================
