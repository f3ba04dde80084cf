------------------------------ MODULE QBarrier ------------------------------
(***************************************************************************)
(* qbarrier_base::_wait of include/sprt/runtime/thread/qbarrier.h, under   *)
(* pthread_barrier_wait, one action per atomic access to barrier_data.     *)
(*                                                                         *)
(* nthreads is kept as its two parts: the number of threads of a batch,    *)
(* which no call changes, and PassFlag.                                    *)
(***************************************************************************)
EXTENDS Futex, Integers, FiniteSets

CONSTANTS
  Threads,
  Count,        \* nthreads & ValueMask: the threads of a batch
  MaxCalls      \* bound on the calls of _wait of each thread

ASSUME ThreadsAssumption == IsFiniteSet(Threads)
ASSUME CountAssumption == Count \in Nat \ {0}
ASSUME CallsAssumption == MaxCalls \in Nat

VARIABLES
  pass,          \* PassFlag of nthreads
  nIn,           \* threads of the batches that are not complete
  nOut,          \* exit tickets handed out since the last complete batch
  generations,   \* complete batches
  pc,            \* pc[t]: where thread t is
  gen,           \* gen[t]: the generation t has seen
  golden,        \* golden[t]: t holds the golden ticket of its batch
  calls,         \* calls[t]: calls t has made, ticket taken
  returns        \* returns[t]: calls that returned Ok or Done

vars == <<pass, nIn, nOut, generations, pc, gen, golden, calls, returns>>

data == <<pass, nIn, nOut, generations>>
history == <<calls, returns>>

Locations == {"idle", "ticket", "reopen", "pass", "wait", "asleep", "woken",
              "spin", "exit", "clear", "next", "drop", "wake", "failed"}

TypeOK ==
  /\ pass \in BOOLEAN
  /\ nIn \in 0 .. Cardinality(Threads)
  /\ nOut \in Nat
  /\ generations \in Nat
  /\ pc \in [Threads -> Locations]
  /\ gen \in [Threads -> Nat]
  /\ golden \in [Threads -> BOOLEAN]
  /\ calls \in [Threads -> 0 .. MaxCalls]
  /\ returns \in [Threads -> 0 .. MaxCalls]

Init ==
  /\ pass = FALSE
  /\ nIn = 0
  /\ nOut = 0
  /\ generations = 0
  /\ pc = [t \in Threads |-> "idle"]
  /\ gen = [t \in Threads |-> 0]
  /\ golden = [t \in Threads |-> FALSE]
  /\ calls = [t \in Threads |-> 0]
  /\ returns = [t \in Threads |-> 0]

Goto(t, location) == pc' = [pc EXCEPT ![t] = location]

(* _wait returns Ok or Done.                                               *)
Return(t) ==
  /\ returns' = [returns EXCEPT ![t] = @ + 1]
  /\ gen' = [gen EXCEPT ![t] = 0]
  /\ golden' = [golden EXCEPT ![t] = FALSE]

-----------------------------------------------------------------------------
(* Load of generations.                                                    *)
Wait(t) ==
  /\ pc[t] = "idle"
  /\ calls[t] < MaxCalls
  /\ gen' = [gen EXCEPT ![t] = generations]
  /\ Goto(t, "ticket")
  /\ UNCHANGED <<data, golden, history>>

(* fetchAdd of nIn: the last thread of a batch gets the golden ticket, the *)
(* others wait for PassFlag.                                               *)
Ticket(t) ==
  /\ pc[t] = "ticket"
  /\ nIn' = nIn + 1
  /\ calls' = [calls EXCEPT ![t] = @ + 1]
  /\ LET last == nIn % Count = Count - 1
     IN  /\ golden' = [golden EXCEPT ![t] = last]
         /\ Goto(t, IF last THEN "reopen" ELSE "wait")
  /\ UNCHANGED <<pass, nOut, generations, gen, returns>>

(* Mutant: nIn keeps growing.                                              *)
ReopenNothing(t) ==
  /\ pc[t] = "reopen"
  /\ Goto(t, "pass")
  /\ UNCHANGED <<data, gen, golden, history>>

(* Golden ticket: fetchSub of nIn opens the next batch.                    *)
Reopen(t) ==
  /\ pc[t] = "reopen"
  /\ nIn' = nIn - Count
  /\ Goto(t, "pass")
  /\ UNCHANGED <<pass, nOut, generations, gen, golden, history>>

(* Golden ticket: fetchOr(PassFlag), again after every wait until the      *)
(* previous batch has dropped the flag.                                    *)
SetPass(t) ==
  /\ pc[t] = "pass"
  /\ pass' = TRUE
  /\ Goto(t, IF pass THEN "wait" ELSE "clear")
  /\ UNCHANGED <<nIn, nOut, generations, gen, golden, history>>

(* WaitFn: the golden ticket sleeps while PassFlag is set, the others      *)
(* while it is not.                                                        *)
FutexWait(t) ==
  /\ pc[t] = "wait"
  /\ pc' = sprt_qlock_wait(pc, t, pass, golden[t])
  /\ UNCHANGED <<data, gen, golden, history>>

(* WaitFn fails with another error than EAGAIN, and so does _wait: its     *)
(* ticket stays taken.  The thread makes no other call.                    *)
Failed(t) ==
  /\ pc[t] = "asleep"
  /\ Goto(t, "failed")
  /\ UNCHANGED <<data, gen, golden, history>>

(* The golden ticket tries the flag again; the others wait again unless    *)
(* PassFlag is set.                                                        *)
Woken(t) ==
  /\ pc[t] = "woken"
  /\ Goto(t, IF golden[t] THEN "pass" ELSE IF pass THEN "spin" ELSE "wait")
  /\ UNCHANGED <<data, gen, golden, history>>

(* Mutant: does not wait for nOut to be cleared.                           *)
SpinNever(t) ==
  /\ pc[t] = "spin"
  /\ gen' = [gen EXCEPT ![t] = generations]
  /\ Goto(t, "exit")
  /\ UNCHANGED <<data, golden, history>>

(* Spin until the golden ticket has advanced generations.                  *)
Spin(t) ==
  /\ pc[t] = "spin"
  /\ generations # gen[t]
  /\ gen' = [gen EXCEPT ![t] = generations]
  /\ Goto(t, "exit")
  /\ UNCHANGED <<data, golden, history>>

(* Mutant: nobody is kept for another batch.                               *)
ExitAnyway(t) ==
  /\ pc[t] = "exit"
  /\ nOut' = nOut + 1
  /\ \/ /\ nOut # Count - 2
        /\ Return(t)
        /\ Goto(t, "idle")
     \/ /\ nOut = Count - 2
        /\ Goto(t, "drop")
        /\ UNCHANGED <<gen, golden, returns>>
  /\ UNCHANGED <<pass, nIn, generations, calls>>

(* fetchAdd of nOut: leave, leave as the last one ("black ticket"), or     *)
(* wait for another batch.                                                 *)
Exit(t) ==
  /\ pc[t] = "exit"
  /\ nOut' = nOut + 1
  /\ \/ /\ nOut < Count - 2
        /\ Return(t)
        /\ Goto(t, "idle")
     \/ /\ nOut = Count - 2
        /\ Goto(t, "drop")
        /\ UNCHANGED <<gen, golden, returns>>
     \/ /\ nOut > Count - 2
        /\ Goto(t, "wait")
        /\ UNCHANGED <<gen, golden, returns>>
  /\ UNCHANGED <<pass, nIn, generations, calls>>

(* Mutant: the last one leaves PassFlag set.                               *)
DropNothing(t) ==
  /\ pc[t] = "drop"
  /\ Goto(t, "wake")
  /\ UNCHANGED <<data, gen, golden, history>>

(* Black ticket: fetchAnd(ValueMask).                                      *)
Drop(t) ==
  /\ pc[t] = "drop"
  /\ pass' = FALSE
  /\ Goto(t, "wake")
  /\ UNCHANGED <<nIn, nOut, generations, gen, golden, history>>

(* Golden ticket: clear nOut, then advance generations.                    *)
Clear(t) ==
  /\ pc[t] = "clear"
  /\ nOut' = 0
  /\ Goto(t, "next")
  /\ UNCHANGED <<pass, nIn, generations, gen, golden, history>>

NextGeneration(t) ==
  /\ pc[t] = "next"
  /\ generations' = generations + 1
  /\ Goto(t, "wake")
  /\ UNCHANGED <<pass, nIn, nOut, gen, golden, history>>

(* WakeFn, wake_all for both kinds of caller, and return.                  *)
Wake(t) ==
  /\ pc[t] = "wake"
  /\ pc' = sprt_qlock_wake_all([pc EXCEPT ![t] = "idle"])
  /\ Return(t)
  /\ UNCHANGED <<data, calls>>

Step(t) ==
  \/ Ticket(t) \/ Reopen(t) \/ SetPass(t) \/ FutexWait(t) \/ Woken(t)
  \/ Spin(t) \/ Exit(t) \/ Drop(t) \/ Clear(t) \/ NextGeneration(t) \/ Wake(t)

Next == \E t \in Threads : Wait(t) \/ Step(t) \/ Failed(t)

(* A thread inside _wait runs when it can.                                 *)
Fairness == \A t \in Threads : WF_vars(Step(t))

Spec == Init /\ [][Next]_vars /\ Fairness

-----------------------------------------------------------------------------
(* The calls of all threads that f counts, the n-th of thread t as <<t, n>>. *)
Counted(f) == {c \in Threads \X (1 .. MaxCalls) : c[2] <= f[c[1]]}

Total(f) == Cardinality(Counted(f))

(* No thread passes the barrier before a whole batch has come: the calls   *)
(* that have returned never exceed the calls of the complete batches,      *)
(* however the exits of one batch overlap the arrivals of the next.        *)
NoEarlyReturn == Total(returns) <= Count * (Total(calls) \div Count)

(* A complete batch lets a thread pass once: a thread that is quick to     *)
(* come back does not pass the same batch again.  When the threads are     *)
(* exactly those of a batch this makes them advance together.              *)
OncePerBatch == \A t \in Threads : returns[t] <= Total(calls) \div Count

(* Unless a wait fails, as many calls return as make whole batches: "we    *)
(* wait until the last thread in group will wake us".                      *)
EveryBatchLeaves ==
  \A k \in 1 .. (Cardinality(Threads) * MaxCalls) \div Count :
    (Total(calls) >= k * Count)
      ~> (Total(returns) >= k * Count \/ \E t \in Threads : pc[t] = "failed")

=============================================================================
