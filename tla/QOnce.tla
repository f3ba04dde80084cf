------------------------------- MODULE QOnce -------------------------------
(***************************************************************************)
(* qonce::perform of include/sprt/runtime/thread/qonce.h, which is also    *)
(* pthread_once (core/runtime_core_pthread.cpp): any number of threads     *)
(* call it on one word, the first runs the callback, the others wait for   *)
(* it to return.  The word is the set of its bits.                         *)
(*                                                                         *)
(* The names differ from those of QTimeline: OnceTimelineProofs extends    *)
(* both.                                                                   *)
(***************************************************************************)
EXTENDS Futex, Naturals

CONSTANT Callers

VARIABLES
  value,      \* the futex word
  at,         \* at[t]: where thread t is
  val,        \* val[t]: the value fetched last by t, local to perform
  started,    \* number of times the callback was entered
  finished    \* number of times the callback has returned

onceVars == <<value, at, val, started, finished>>

Bits == {"LOCK", "WAIT", "COMPLETE"}
Places == {"idle", "callback", "complete", "wake", "set_wait", "wait",
           "asleep", "woken", "returned"}

OnceTypeOK ==
  /\ value \in SUBSET Bits
  /\ at \in [Callers -> Places]
  /\ val \in [Callers -> SUBSET Bits]
  /\ started \in Nat
  /\ finished \in Nat

OnceInit ==
  /\ value = {}
  /\ at = [t \in Callers |-> "idle"]
  /\ val = [t \in Callers |-> {}]
  /\ started = 0
  /\ finished = 0

Move(t, location) == at' = [at EXCEPT ![t] = location]

-----------------------------------------------------------------------------
(* Mutants: the first caller is recognised by a clear COMPLETE_BIT; a late *)
(* caller returns as soon as LOCK_BIT is set.                              *)
PerformUnlessComplete(t) ==
  /\ at[t] \in {"idle", "returned"}
  /\ value' = value \cup {"LOCK"}
  /\ val' = [val EXCEPT ![t] = value]
  /\ \/ /\ "COMPLETE" \notin value
        /\ Move(t, "callback") /\ started' = started + 1
     \/ /\ "COMPLETE" \in value
        /\ Move(t, "returned") /\ UNCHANGED started
  /\ UNCHANGED finished

PerformNoWait(t) ==
  /\ at[t] \in {"idle", "returned"}
  /\ value' = value \cup {"LOCK"}
  /\ val' = [val EXCEPT ![t] = value]
  /\ \/ /\ value = {}
        /\ Move(t, "callback") /\ started' = started + 1
     \/ /\ value # {}
        /\ Move(t, "returned") /\ UNCHANGED started
  /\ UNCHANGED finished

(* The first fetchOr tells the first caller, the late ones and the ones    *)
(* that have to wait apart.                                                *)
Perform(t) ==
  /\ at[t] \in {"idle", "returned"}
  /\ value' = value \cup {"LOCK"}
  /\ val' = [val EXCEPT ![t] = value]
  /\ \/ /\ value = {}
        /\ Move(t, "callback") /\ started' = started + 1
     \/ /\ "COMPLETE" \in value
        /\ Move(t, "returned") /\ UNCHANGED started
     \/ /\ value # {} /\ "COMPLETE" \notin value
        /\ Move(t, "set_wait") /\ UNCHANGED started
  /\ UNCHANGED finished

(* The callback returns.                                                   *)
Callback(t) ==
  /\ at[t] = "callback"
  /\ finished' = finished + 1
  /\ Move(t, "complete")
  /\ UNCHANGED <<value, val, started>>

(* Mutant: waiters are looked for before COMPLETE_BIT is set, in the value *)
(* fetched on entry.                                                       *)
CompleteStale(t) ==
  /\ at[t] = "complete"
  /\ value' = value \cup {"COMPLETE"}
  /\ Move(t, IF "WAIT" \in val[t] THEN "wake" ELSE "returned")
  /\ UNCHANGED <<val, started, finished>>

(* fetchOr(COMPLETE_BIT).                                                  *)
Complete(t) ==
  /\ at[t] = "complete"
  /\ val' = [val EXCEPT ![t] = value]
  /\ value' = value \cup {"COMPLETE"}
  /\ Move(t, IF "WAIT" \in value THEN "wake" ELSE "returned")
  /\ UNCHANGED <<started, finished>>

(* Mutant: wakes one waiter.                                               *)
WakeFirst(t) ==
  /\ at[t] = "wake"
  /\ at' \in sprt_qlock_wake_one([at EXCEPT ![t] = "returned"])
  /\ UNCHANGED <<value, val, started, finished>>

(* wake_all.                                                               *)
WakeAll(t) ==
  /\ at[t] = "wake"
  /\ at' = sprt_qlock_wake_all([at EXCEPT ![t] = "returned"])
  /\ UNCHANGED <<value, val, started, finished>>

(* fetchOr(WAIT_BIT); the loop is entered unless COMPLETE_BIT was set.     *)
SetWait(t) ==
  /\ at[t] = "set_wait"
  /\ val' = [val EXCEPT ![t] = value]
  /\ value' = value \cup {"WAIT"}
  /\ Move(t, IF "COMPLETE" \in value THEN "returned" ELSE "wait")
  /\ UNCHANGED <<started, finished>>

(* Wait for the word to change from the fetched value.  The result is not  *)
(* looked at: a failed wait is a wait that returns.                        *)
WaitComplete(t) ==
  /\ at[t] = "wait"
  /\ at' = sprt_qlock_wait(at, t, value, val[t])
  /\ UNCHANGED <<value, val, started, finished>>

(* A signal interrupts the wait.                                           *)
Interrupted(t) ==
  /\ at[t] = "asleep"
  /\ Move(t, "woken")
  /\ UNCHANGED <<value, val, started, finished>>

(* Load the word and test COMPLETE_BIT again.                              *)
Reload(t) ==
  /\ at[t] = "woken"
  /\ val' = [val EXCEPT ![t] = value]
  /\ Move(t, IF "COMPLETE" \in value THEN "returned" ELSE "wait")
  /\ UNCHANGED <<value, started, finished>>

Proceed(t) ==
  \/ Callback(t) \/ Complete(t) \/ WakeAll(t)
  \/ SetWait(t) \/ WaitComplete(t) \/ Reload(t)

OnceNext == \E t \in Callers : Perform(t) \/ Proceed(t) \/ Interrupted(t)

(* A thread inside perform runs when it can, and the callback returns.     *)
OnceFairness == \A t \in Callers : WF_onceVars(Proceed(t))

OnceSpec == OnceInit /\ [][OnceNext]_onceVars /\ OnceFairness

-----------------------------------------------------------------------------
(* The callback runs at most once.                                         *)
AtMostOnce == started <= 1

(* Nobody returns from perform before the callback has returned: its       *)
(* effects are there for every caller.                                     *)
ReturnAfterCallback ==
  \A t \in Callers : at[t] \in {"returned", "wake"} => finished = 1

(* While a thread sleeps, the thread that will wake it is under way: The   *)
(* First One before it fetches the word, with WAIT_BIT set for it to see,  *)
(* or already in wake_all.                                                 *)
NoForgottenWaiter ==
  Sleepers(at) # {} =>
    \/ "WAIT" \in value /\ \E t \in Callers : at[t] \in {"callback", "complete"}
    \/ \E t \in Callers : at[t] = "wake"

(* Every call returns.                                                     *)
EveryCallReturns ==
  \A t \in Callers : at[t] \notin {"idle", "returned"} ~> at[t] = "returned"

=============================================================================
