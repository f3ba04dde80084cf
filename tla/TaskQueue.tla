------------------------------ MODULE TaskQueue ------------------------------
(***************************************************************************)
(* TaskQueue of src/dispatch/SPRuntimeDispatchTaskQueue.cc: a thread pool  *)
(* whose owner runs the completions of the tasks.  The owner is one        *)
(* thread; it makes one call at a time, cancel included.  Completions and  *)
(* callbacks go through the same queue and are not told apart.             *)
(*                                                                         *)
(* wait(iv) waits for output in condition_variable::wait_for, whose        *)
(* timeout is never reported (qcondvar.h overwrites it with the status of  *)
(* the lock), so the predicate is tested again and again: it returns when  *)
(* there is output and not before, and it needs no notification for that.  *)
(***************************************************************************)
EXTENDS ThreadPool

CONSTANT Calls    \* the calls the owner makes

ASSUME CallsAssumption ==
  Calls \subseteq {"update", "waitForAll", "wait_for", "wait", "cancel"}

VARIABLES
  call,     \* the call the owner is in
  stack     \* tasks that update took from output and has not run yet

vars == <<poolVars, call, stack>>

OwnerLocations == CancelLocations \cup
  {"idle", "take", "run", "renotify", "load", "counter", "wait", "relock"}

ConditionTypeOK ==
  /\ value \in Nat /\ previous \in Nat /\ start \in [Workers -> Nat]
  /\ notify \in [Notifiers -> Signalling] /\ next \in [Notifiers -> Nat]
  /\ overtaken \in BOOLEAN

TypeOK ==
  /\ finalized \in BOOLEAN /\ lazyInit \in BOOLEAN /\ complete \in BOOLEAN
  /\ workers \in {{}, Workers} /\ continue \in [Workers -> BOOLEAN]
  /\ tasksInQueue \in Nat /\ tasksInExecution \in Nat
  /\ inputQueue \in Seq(Tasks) /\ output \in Seq(Tasks) /\ stack \in Seq(Tasks)
  /\ mutex \in Workers \cup {None}
  /\ ConditionTypeOK
  /\ state \in [Tasks -> TaskState] /\ completions \in [Tasks -> Nat]
  /\ wpc \in [Workers -> WorkerLocations]
  /\ wtask \in [Workers -> Tasks \cup {None}]
  /\ ppc \in [Performers -> PerformerLocations]
  /\ ptask \in [Performers -> Tasks \cup {None}]
  /\ mpc \in OwnerLocations /\ call \in {"none", "update", "waitForAll", "wait"}
  /\ late \subseteq Tasks /\ drained \subseteq Tasks /\ crashed \in BOOLEAN

Init == PoolInit /\ call = "none" /\ stack = <<>>

-----------------------------------------------------------------------------
(* performOnThread, before the pool is cancelled: afterwards it would call *)
(* through a null info.complete at once.                                   *)
PerformOnThread(p, t) ==
  /\ ppc[p] = "idle" /\ notify[p] = "none"
  /\ t \in TasksOf[p] /\ Fresh(t) /\ t \notin Range(stack)
  /\ ~finalized
  /\ GotoP(p, "decline")
  /\ ptask' = [ptask EXCEPT ![p] = t]
  /\ UNCHANGED <<flags, threads, counters, queue, tasks, output, worker, mpc,
                 history, call, stack>>

(* update is called: by itself, or first thing by waitForAll.              *)
Update ==
  /\ mpc = "idle"
  /\ mpc' = "take" /\ call' \in {"update", "waitForAll"} \cap Calls
  /\ UNCHANGED <<flags, threads, counters, queue, tasks, output, worker,
                 performer, history, stack>>

Take ==
  /\ mpc = "take"
  /\ stack' = output /\ output' = <<>>
  /\ mpc' = "run"
  /\ UNCHANGED <<flags, threads, counters, queue, tasks, worker, performer,
                 history, call>>

(* Task::run: the stages that are left, then the complete callbacks.       *)
RunTask ==
  /\ mpc = "run" /\ stack # <<>>
  /\ state' = [state EXCEPT ![Head(stack)] = "Executed"]
  /\ completions' = [completions EXCEPT ![Head(stack)] = @ + 1]
  /\ stack' = Tail(stack)
  /\ UNCHANGED <<flags, threads, counters, queue, output, worker, performer, mpc,
                 history, call>>

(* The end of update: the workers are notified if a task is queued.        *)
Renotify ==
  /\ mpc = "run" /\ stack = <<>>
  /\ IF tasksInQueue > 0 THEN Signal(Owner) ELSE UNCHANGED notify
  /\ mpc' = IF call = "waitForAll" THEN "load" ELSE "idle"
  /\ call' = IF call = "waitForAll" THEN call ELSE "none"
  /\ UNCHANGED <<flags, threads, counters, inputQueue, mutex, value, previous,
                 start, next, overtaken, tasks, output, worker, performer,
                 history, stack>>

(* The loop of waitForAll.                                                 *)
Load ==
  /\ mpc = "load"
  /\ IF tasksInExecution = 0 THEN mpc' = "idle" /\ call' = "none"
                             ELSE mpc' = "counter" /\ UNCHANGED call
  /\ UNCHANGED <<flags, threads, counters, queue, tasks, output, worker,
                 performer, history, stack>>

(* wait(iv)                                                                *)
WaitFor ==
  /\ mpc = "idle" /\ "wait_for" \in Calls
  /\ mpc' = "counter" /\ call' = "wait"
  /\ UNCHANGED <<flags, threads, counters, queue, tasks, output, worker,
                 performer, history, stack>>

Counter ==
  /\ mpc = "counter" /\ output # <<>>
  /\ mpc' = "take"
  /\ UNCHANGED <<flags, threads, counters, queue, tasks, output, worker,
                 performer, history, call, stack>>

(* wait(): sleeps until it is notified, whatever is in the output; then    *)
(* update locks the outputMutex that wait holds (CompletePerform).         *)
Wait ==
  /\ mpc = "idle" /\ "wait" \in Calls
  /\ mpc' = "wait" /\ call' = "wait"
  /\ UNCHANGED <<flags, threads, counters, queue, tasks, output, worker,
                 performer, history, stack>>

-----------------------------------------------------------------------------
OwnerCall ==
  \/ "cancel" \in Calls /\ Cancel /\ UNCHANGED <<call, stack>>
  \/ Update \/ WaitFor \/ Wait

OwnerStep ==
  \/ CancelStep /\ UNCHANGED <<call, stack>>
  \/ Take \/ RunTask \/ Renotify \/ Load \/ Counter

Next ==
  /\ ~crashed
  /\ \/ \E p \in Performers :
          \/ \E t \in Tasks : t \notin Range(stack) /\ Perform(p, t)
                              /\ UNCHANGED <<call, stack>>
          \/ \E t \in Tasks : PerformOnThread(p, t)
          \/ PerformerStep(p) /\ UNCHANGED <<call, stack>>
     \/ \E w \in Workers :
          (WorkerStep(w) \/ Interrupted(w)) /\ UNCHANGED <<call, stack>>
     \/ \E n \in Notifiers : NotifierStep(n) /\ UNCHANGED <<call, stack>>
     \/ notify[Owner] = "none" /\ (OwnerCall \/ OwnerStep)

(* A thread inside a call goes on; no call is ever required to be made.    *)
(* The mutex is taken by whoever finds it free.                            *)
Fairness ==
  /\ \A p \in Performers :
       WF_vars(~crashed /\ (PerformerStep(p) \/ NotifierStep(p)) /\ UNCHANGED <<call, stack>>)
  /\ \A w \in Workers : WF_vars(~crashed /\ WorkerStep(w) /\ UNCHANGED <<call, stack>>)
  /\ WF_vars(/\ ~crashed
             /\ \/ NotifierStep(Owner) /\ UNCHANGED <<call, stack>>
                \/ notify[Owner] = "none" /\ OwnerStep)

Spec == Init /\ [][Next]_vars /\ Fairness

-----------------------------------------------------------------------------
(* tasksInQueue and tasksInExecution count every task that perform has     *)
(* counted and no worker has taken, or finished: the workers' test for     *)
(* work and waitForAll rest on them.  What cancel drains is never taken    *)
(* back from either.                                                       *)
CountersExact ==
  /\ tasksInQueue = Len(inputQueue) + Cardinality(Pushing)
                      + Cardinality(Taking) + Cardinality(drained)
  /\ tasksInExecution = tasksInQueue + Cardinality(Running)

(* Who has a task in hand.                                                 *)
Held == Range(inputQueue) \cup Range(output) \cup Range(stack)
          \cup {wtask[w] : w \in Workers} \cup {ptask[p] : p \in Performers}

(* The complete callbacks of a task that perform has prepared are called   *)
(* once, by update or by cancel, and neither a worker nor a queued task    *)
(* outlives cancel.  What is lost, run twice or left behind is so because  *)
(* of a perform that had passed its test of finalized and was still        *)
(* running as cancel found or made workers empty.                          *)
CompletedOnce ==
  /\ \A t \in Tasks :
       state[t] # "Initial" /\ completions[t] = 0 =>
         t \in Held \cup late \/ crashed
  /\ late = {} =>
       /\ \A t \in Tasks : completions[t] <= IF t \in Held /\ mpc # "clear"
                                            THEN 0 ELSE 1
       /\ ~crashed
       /\ complete \/ (workers = {} /\ inputQueue = <<>>)

(* The workers that sleep on, whatever is still to come of the             *)
(* notifications that were made, or have passed their test of finalized.   *)
Missed ==
  {w \in Workers : \/ wpc[w] \in {"capture", "load", "store", "asleep"}
                   \/ wpc[w] = "wait" /\ start[w] = value}

(* cancel notifies the workers without inputMutexQueue.  A worker that has *)
(* read finalized before, or that brings the value the notification is to  *)
(* store, misses it; at most one does, as it held the mutex when previous  *)
(* was loaded, unless a notification was overtaken by another and set      *)
(* value back to one that sleepers have started from.                      *)
CancelMissesAtMostOne ==
  mpc = "join" /\ notify[Owner] = "none" /\ ~overtaken =>
    Cardinality(Missed) <= 1

(* A task is queued, nobody is about to notify and every worker sleeps.    *)
Forgotten ==
  /\ inputQueue # <<>> /\ ~finalized
  /\ \A p \in Performers : ppc[p] # "notify"
  /\ \A n \in Notifiers : notify[n] = "none"
  /\ \A w \in Workers : wpc[w] = "asleep"

(* perform notifies without inputMutexQueue, and the worker that takes the *)
(* wake may sleep on.  Somebody comes for the task all the same, unless a  *)
(* notification was overtaken by another.                                  *)
TaskRemembered == Forgotten => overtaken

(* What task.h says of a task's function: "to be executed in other         *)
(* thread".  A task in the queue is not left to workers that all sleep.    *)
(* The code does not keep this: a notification may be overtaken.           *)
TaskNotForgotten == ~Forgotten

(* A task in the queue is taken, however the notifications of perform and  *)
(* update mix and whatever task they were for, unless the pool is          *)
(* cancelled, the owner sits on outputMutex for ever or a notification was *)
(* overtaken.                                                              *)
TaskServed ==
  \A t \in Tasks :
    t \in Range(inputQueue) ~>
      t \notin Range(inputQueue) \/ finalized \/ mpc = "relock" \/ overtaken

(* thread_pool.h says of cancel: "stop all workers".  The code does not    *)
(* keep this: cancel waits for ever for a worker that it missed.           *)
CancelStops == mpc = "join" ~> mpc # "join" \/ crashed

(* waitForAll ends, before cancel, unless it waits for output and none is  *)
(* left to come: a worker takes its task out of tasksInExecution after     *)
(* delivering it, and the owner may have fetched the output in between.    *)
WaitForAllEnds ==
  call = "waitForAll" /\ ~finalized ~>
    \/ call # "waitForAll" \/ crashed \/ overtaken
    \/ /\ mpc = "counter" /\ inputQueue = <<>>
       /\ \A w \in Workers : wtask[w] = None

=============================================================================
