----------------------------- MODULE QTimeline -----------------------------
(***************************************************************************)
(* qtimeline of include/sprt/runtime/thread/qtimeline.h: wait, with and    *)
(* without a timeout, signal and set_and_signal, one action per atomic     *)
(* access to the futex word.                                               *)
(*                                                                         *)
(* The 32-bit word is a counter of 31 bits below WAITERS_BIT.  It is kept  *)
(* as its two parts, with the carry of fetchAdd into WAITERS_BIT; the      *)
(* range of the counter is a parameter, so that overflow happens in small  *)
(* models too.                                                             *)
(***************************************************************************)
EXTENDS Futex, Naturals

CONSTANTS
  Waiters,       \* threads that call wait
  Signallers,    \* threads that call signal and set_and_signal
  Range          \* number of values of the counter: VALUE_MASK + 1

ASSUME RolesAssumption == Waiters \cap Signallers = {}
ASSUME RangeAssumption == Range \in Nat \ {0}

Threads == Waiters \cup Signallers

VARIABLES
  count,     \* the word without WAITERS_BIT
  waiters,   \* WAITERS_BIT
  pc,        \* pc[t]: where thread t is
  target,    \* target[t]: the value t waits for, 0 outside of wait
  v,         \* v[t]: the word t read last, local to the loop of wait
  timeout    \* timeout[t]: what is left of the timeout of t's call

vars == <<count, waiters, pc, target, v, timeout>>

Values == 0 .. Range - 1
Words == [count : Values, waiters : BOOLEAN]
NoWord == [count |-> 0, waiters |-> FALSE]
Word == [count |-> count, waiters |-> waiters]
Timeouts == {"infinite", "left", "zero"}
Locations == {"idle", "load", "check", "set", "wait", "asleep", "woken",
              "drop", "wake"}

TypeOK ==
  /\ count \in Values
  /\ waiters \in BOOLEAN
  /\ pc \in [Threads -> Locations]
  /\ target \in [Waiters -> Values]
  /\ v \in [Waiters -> Words]
  /\ timeout \in [Waiters -> Timeouts]

Init ==
  /\ count = 0
  /\ waiters = FALSE
  /\ pc = [t \in Threads |-> "idle"]
  /\ target = [t \in Waiters |-> 0]
  /\ v = [t \in Waiters |-> NoWord]
  /\ timeout = [t \in Waiters |-> "infinite"]

Goto(t, location) == pc' = [pc EXCEPT ![t] = location]

(* wait returns: its parameters and locals go out of scope.                *)
Return(t) ==
  /\ Goto(t, "idle")
  /\ target' = [target EXCEPT ![t] = 0]
  /\ v' = [v EXCEPT ![t] = NoWord]
  /\ timeout' = [timeout EXCEPT ![t] = "infinite"]

-----------------------------------------------------------------------------
(* A call of either wait.                                                  *)
Wait(t) ==
  /\ pc[t] = "idle"
  /\ \E val \in Values : target' = [target EXCEPT ![t] = val]
  /\ \E limit \in Timeouts : timeout' = [timeout EXCEPT ![t] = limit]
  /\ Goto(t, "load")
  /\ UNCHANGED <<count, waiters, v>>

(* Load the word, on entry and at the foot of the loop; return when the    *)
(* target is reached.                                                      *)
Load(t) ==
  /\ pc[t] = "load"
  /\ \/ /\ count < target[t]
        /\ v' = [v EXCEPT ![t] = Word]
        /\ Goto(t, "check")
        /\ UNCHANGED <<target, timeout>>
     \/ /\ count >= target[t]
        /\ Return(t)
  /\ UNCHANGED <<count, waiters>>

(* Head of the loop: ErrorTimeout when no time is left; wait at once if    *)
(* the loaded word has WAITERS_BIT.                                        *)
Check(t) ==
  /\ pc[t] = "check"
  /\ \/ /\ timeout[t] = "zero"
        /\ Return(t)
     \/ /\ timeout[t] # "zero"
        /\ Goto(t, IF v[t].waiters THEN "wait" ELSE "set")
        /\ UNCHANGED <<target, v, timeout>>
  /\ UNCHANGED <<count, waiters>>

(* fetchOr(WAITERS_BIT); the target may have been reached meanwhile.       *)
SetWaiters(t) ==
  /\ pc[t] = "set"
  /\ waiters' = TRUE
  /\ v' = [v EXCEPT ![t] = [count |-> count, waiters |-> TRUE]]
  /\ Goto(t, IF count < target[t] THEN "wait" ELSE "woken")
  /\ UNCHANGED <<count, target, timeout>>

(* Wait for the word to change from v.                                     *)
FutexWait(t) ==
  /\ pc[t] = "wait"
  /\ pc' = sprt_qlock_wait(pc, t, Word, v[t])
  /\ UNCHANGED <<count, waiters, target, v, timeout>>

(* The futex wait fails, with ETIMEDOUT or EINTR: wait returns the error.  *)
Failed(t) ==
  /\ pc[t] = "asleep"
  /\ Return(t)
  /\ UNCHANGED <<count, waiters>>

(* Subtract the elapsed time and load again.                               *)
Elapse(t) ==
  /\ pc[t] = "woken"
  /\ \E left \in IF timeout[t] = "left" THEN {"left", "zero"} ELSE {timeout[t]} :
       timeout' = [timeout EXCEPT ![t] = left]
  /\ Goto(t, "load")
  /\ UNCHANGED <<count, waiters, target, v>>

(* Mutant: the sum is not reduced to the width of the word.                *)
SignalUnbounded(t) ==
  /\ pc[t] = "idle"
  /\ \E val \in Values \ {0} : count' = count + val
  /\ Goto(t, IF waiters THEN "drop" ELSE "idle")
  /\ UNCHANGED <<waiters, target, v, timeout>>

(* signal: fetchAdd, with the carry into WAITERS_BIT.                      *)
Signal(t) ==
  /\ pc[t] = "idle"
  /\ \E val \in Values \ {0} :
       LET sum == count + val
       IN  /\ count' = IF sum < Range THEN sum ELSE sum - Range
           /\ waiters' = (waiters # (sum >= Range))
  /\ Goto(t, IF waiters THEN "drop" ELSE "idle")
  /\ UNCHANGED <<target, v, timeout>>

(* Mutant: leaves the wake-up to another signal already in progress.       *)
DropOnce(t) ==
  /\ pc[t] = "drop"
  /\ waiters' = FALSE
  /\ Goto(t, IF waiters THEN "wake" ELSE "idle")
  /\ UNCHANGED <<count, target, v, timeout>>

(* signal: fetchAnd(VALUE_MASK).                                           *)
Drop(t) ==
  /\ pc[t] = "drop"
  /\ waiters' = FALSE
  /\ Goto(t, "wake")
  /\ UNCHANGED <<count, target, v, timeout>>

(* set_and_signal: exchange, which also drops WAITERS_BIT.                 *)
SetAndSignal(t) ==
  /\ pc[t] = "idle"
  /\ \E val \in Values : count' = val
  /\ waiters' = FALSE
  /\ Goto(t, IF waiters THEN "wake" ELSE "idle")
  /\ UNCHANGED <<target, v, timeout>>

(* Mutant: wakes one thread only.                                          *)
WakeOne(t) ==
  /\ pc[t] = "wake"
  /\ pc' \in sprt_qlock_wake_one([pc EXCEPT ![t] = "idle"])
  /\ UNCHANGED <<count, waiters, target, v, timeout>>

(* wake_all, at the end of both.                                           *)
Wake(t) ==
  /\ pc[t] = "wake"
  /\ pc' = sprt_qlock_wake_all([pc EXCEPT ![t] = "idle"])
  /\ UNCHANGED <<count, waiters, target, v, timeout>>

Waiting(t) == Load(t) \/ Check(t) \/ SetWaiters(t) \/ FutexWait(t) \/ Elapse(t)

Signalling(t) == Drop(t) \/ Wake(t)

Next ==
  \/ \E t \in Waiters : Wait(t) \/ Waiting(t) \/ Failed(t)
  \/ \E t \in Signallers : Signal(t) \/ SetAndSignal(t) \/ Signalling(t)

(* A thread inside a call runs when it can.                                *)
Fairness ==
  /\ \A t \in Waiters : WF_vars(Waiting(t))
  /\ \A t \in Signallers : WF_vars(Signalling(t))

Spec == Init /\ [][Next]_vars /\ Fairness

-----------------------------------------------------------------------------
(* A thread sleeps in wait only while its target is not reached and the    *)
(* word tells the next signal about it, or a signal is about to wake       *)
(* everyone; whatever the order of signals, of set_and_signal back to a    *)
(* smaller value and of overflows of the counter.                          *)
NoLostWakeup ==
  \A t \in Waiters :
    pc[t] = "asleep" =>
      \/ waiters /\ count < target[t]
      \/ \E u \in Signallers : pc[u] \in {"drop", "wake"}

(* A thread does not stay in wait for a value the timeline keeps at or     *)
(* above: "If the value is already greater than or equal to the target,    *)
(* the thread is not blocked".                                             *)
ReachedWaitReturns ==
  \A t \in Waiters : ~ <>[](pc[t] # "idle" /\ count >= target[t])

=============================================================================
