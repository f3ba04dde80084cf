----------------------------- MODULE ThreadPool -----------------------------
(***************************************************************************)
(* ThreadPool::WorkerContext and ThreadPool::Worker of                     *)
(* src/dispatch/SPRuntimeDispatchThreadPool.cc, the PriorityQueue of       *)
(* include/sprt/runtime/dispatch/priority_queue.h that holds the tasks     *)
(* and the states of a Task.  info.complete is the OutputContext of a      *)
(* TaskQueue; the calls of the thread that owns the pool, cancel excepted, *)
(* are in TaskQueue.tla.                                                   *)
(*                                                                         *)
(* A critical section of inputMutexQueue that waits for nothing is one     *)
(* step, taken while nobody holds the mutex.  perform, update and cancel   *)
(* notify inputCondition without it, which QCondvar excludes, so the       *)
(* accesses of _wait and _signal to value and previous are steps here too. *)
(* mutexid and counter change under the mutex alone and follow from the    *)
(* locations of the workers (Captured).                                    *)
(***************************************************************************)
EXTENDS Integers, SequencesExt, FiniteSets

CONSTANTS
  Tasks,
  Workers,      \* the info.threadCount threads that spawn creates
  Performers,   \* threads that call perform
  TasksOf,      \* TasksOf[p]: the tasks that p makes
  Priority,     \* Priority[t]: the smallest is taken first
  Owner,        \* the thread that owns the pool
  None

ASSUME PoolAssumption ==
  /\ Workers # {} /\ IsFiniteSet(Workers)
  /\ IsFiniteSet(Tasks) /\ IsFiniteSet(Performers)
  /\ TasksOf \in [Performers -> SUBSET Tasks]
  /\ Priority \in [Tasks -> Int]
  /\ None \notin Tasks /\ None \notin Workers
  /\ Owner \notin Performers

(* Threads that notify inputCondition.                                     *)
Notifiers == Performers \cup {Owner}

VARIABLES
  finalized,
  lazyInit,     \* info.flags has LazyInit
  complete,     \* info.complete is not null
  workers,      \* the elements of the vector workers
  continue,     \* continue[w]: _continueExecution
  tasksInQueue,
  tasksInExecution,
  inputQueue,
  mutex,        \* the worker that holds inputMutexQueue, or None
  value,        \* the words of inputCondition
  previous,
  start,        \* start[w]: v of _wait, the value the worker has read
  notify,       \* notify[n]: the access of _signal that comes next
  next,         \* next[n]: v of _signal, the value it is to store
  state,        \* state[t]: Task::_state
  completions,  \* completions[t]: calls of the complete callbacks of t
  output,       \* OutputContext::outputQueue; outputCounter is its length
  wpc, wtask,   \* location of a worker and the task it holds
  ppc, ptask,   \* location of a performer and the task it was given
  mpc,          \* location of the thread that owns the pool
  late,         \* history: tasks in a call of perform as cancel found or
                \* made workers empty
  drained,      \* history: tasks that cancel took from inputQueue
  overtaken,    \* history: a notification stored less than value was
  crashed       \* a call through a null info.complete

flags == <<finalized, lazyInit, complete>>
threads == <<workers, continue>>
counters == <<tasksInQueue, tasksInExecution>>
condition == <<value, previous, start, notify, next, overtaken>>
queue == <<inputQueue, mutex, condition>>
tasks == <<state, completions>>
worker == <<wpc, wtask>>
performer == <<ppc, ptask>>
history == <<late, drained, crashed>>
poolVars == <<flags, threads, counters, queue, tasks, output, worker,
              performer, mpc, history>>

(* ExecutedSuccessful and ExecutedFailed only differ in what is told to    *)
(* the complete callbacks; both are "Executed".                            *)
TaskState == {"Initial", "Prepared", "Executed"}
WorkerLocations == {"none", "loop", "pop", "took", "deliver", "done", "lock",
                    "check", "test", "capture", "load", "store", "wait", "asleep",
                    "woken", "ended"}
Signalling == {"none", "previous", "value", "wake"}
PerformerLocations == {"idle", "lazy", "spawn", "workers", "decline", "count",
                       "push", "notify"}
CancelLocations == {"stop", "notify_all", "join", "drain", "clear", "release"}

(* The tasks perform may still be called for: nobody has them.             *)
Fresh(t) ==
  /\ state[t] = "Initial" /\ t \notin Range(output)
  /\ \A p \in Performers : ptask[p] # t

Running == {w \in Workers : wpc[w] \in {"deliver", "done"}}
Taking == {w \in Workers : wpc[w] = "took"}
Captured ==
  \E w \in Workers : wpc[w] \in {"load", "store", "wait", "asleep", "woken"}
InPerform == {ptask[p] : p \in Performers} \ {None}
Pushing == {p \in Performers : ppc[p] = "push"}

-----------------------------------------------------------------------------
(* PriorityQueue::pushNode: behind every node that is more urgent and, but *)
(* for insertFirst, behind those as urgent.                                *)
Ahead(q, t, first) ==
  {i \in DOMAIN q : IF first THEN Priority[q[i]] < Priority[t]
                             ELSE Priority[q[i]] <= Priority[t]}

PushNode(q, t, first) ==
  LET n == CHOOSE k \in 0..Len(q) : /\ 1..k \subseteq Ahead(q, t, first)
                                    /\ k + 1 \notin Ahead(q, t, first)
  IN  InsertAt(q, n + 1, t)

GotoW(w, location) == wpc' = [wpc EXCEPT ![w] = location]
GotoP(p, location) == ppc' = [ppc EXCEPT ![p] = location]

Return(p) ==
  /\ GotoP(p, "idle")
  /\ ptask' = [ptask EXCEPT ![p] = None]

(* The load of mutexid in _signal: nothing is left to do without waiters.  *)
Signal(n) ==
  notify' = [notify EXCEPT ![n] = IF Captured THEN "previous" ELSE "none"]

(* OutputContext::perform, through a pointer that cancel sets to null.  A  *)
(* wait() without a timeout is notified, and then locks the outputMutex it *)
(* holds: the owner is at "relock" for ever and nothing more is delivered. *)
CompletePerform(t) ==
  /\ mpc # "relock"
  /\ \/ /\ complete
        /\ output' = Append(output, t)
        /\ mpc' = IF mpc = "wait" THEN "relock" ELSE mpc
        /\ UNCHANGED crashed
     \/ ~complete /\ crashed' = TRUE /\ UNCHANGED <<output, mpc>>

-----------------------------------------------------------------------------
(* WorkerContext::perform                                                  *)

Perform(p, t) ==
  /\ ppc[p] = "idle" /\ notify[p] = "none"
  /\ t \in TasksOf[p] /\ Fresh(t)
  /\ ~finalized
  /\ GotoP(p, "lazy")
  /\ ptask' = [ptask EXCEPT ![p] = t]
  /\ UNCHANGED <<flags, threads, counters, queue, tasks, output, worker, mpc,
                 history>>

TestLazy(p) ==
  /\ ppc[p] = "lazy"
  /\ GotoP(p, IF lazyInit /\ workers = {} THEN "spawn" ELSE "workers")
  /\ UNCHANGED <<flags, threads, counters, queue, tasks, output, worker, ptask,
                 mpc, history>>

Spawn(p) ==
  /\ ppc[p] = "spawn" /\ mutex = None
  /\ IF workers = {}
     THEN /\ workers' = Workers /\ lazyInit' = FALSE
          /\ continue' = [w \in Workers |-> TRUE]
          /\ wpc' = [w \in Workers |-> "loop"]
     ELSE UNCHANGED <<threads, lazyInit, wpc>>
  /\ GotoP(p, "workers")
  /\ UNCHANGED <<finalized, complete, counters, queue, tasks, output, wtask,
                 ptask, mpc, history>>

(* prepare works on the task alone; its callbacks may refuse it.           *)
TestWorkers(p) ==
  /\ ppc[p] = "workers"
  /\ \/ workers = {} /\ Return(p) /\ UNCHANGED state
     \/ /\ workers # {} /\ UNCHANGED ptask
        /\ \/ state' = [state EXCEPT ![ptask[p]] = "Prepared"] /\ GotoP(p, "count")
           \/ state' = [state EXCEPT ![ptask[p]] = "Executed"] /\ GotoP(p, "decline")
  /\ UNCHANGED <<flags, threads, counters, queue, completions, output, worker,
                 mpc, history>>

Decline(p) ==
  /\ ppc[p] = "decline"
  /\ CompletePerform(ptask[p])
  /\ Return(p)
  /\ UNCHANGED <<flags, threads, counters, queue, tasks, worker, late, drained>>

(* Mutant: tasksInQueue is left to the workers.                            *)
CountExecution(p) ==
  /\ ppc[p] = "count"
  /\ tasksInExecution' = tasksInExecution + 1
  /\ GotoP(p, "push")
  /\ UNCHANGED <<flags, threads, tasksInQueue, queue, tasks, output, worker,
                 ptask, mpc, history>>

Count(p) ==
  /\ ppc[p] = "count"
  /\ tasksInExecution' = tasksInExecution + 1
  /\ tasksInQueue' = tasksInQueue + 1
  /\ GotoP(p, "push")
  /\ UNCHANGED <<flags, threads, queue, tasks, output, worker, ptask, mpc,
                 history>>

Push(p) ==
  /\ ppc[p] = "push" /\ mutex = None
  /\ \E first \in BOOLEAN : inputQueue' = PushNode(inputQueue, ptask[p], first)
  /\ GotoP(p, "notify")
  /\ ptask' = [ptask EXCEPT ![p] = None]
  /\ UNCHANGED <<flags, threads, counters, mutex, condition, tasks, output, worker,
                 mpc, history>>

Notify(p) ==
  /\ ppc[p] = "notify"
  /\ Signal(p)
  /\ GotoP(p, "idle")
  /\ UNCHANGED <<flags, threads, counters, inputQueue, mutex, value, previous,
                 start, next, overtaken, tasks, output, worker, ptask, mpc,
                 history>>

-----------------------------------------------------------------------------
(* Worker::worker, called in a loop until it answers false                 *)

(* test_and_set of _continueExecution, which stop clears.                  *)
Loop(w) ==
  /\ wpc[w] = "loop"
  /\ GotoW(w, IF continue[w] THEN "pop" ELSE "ended")
  /\ continue' = [continue EXCEPT ![w] = TRUE]
  /\ UNCHANGED <<flags, workers, counters, queue, tasks, output, wtask,
                 performer, mpc, history>>

PopTask(w) ==
  /\ wpc[w] = "pop" /\ mutex = None
  /\ IF inputQueue = <<>>
     THEN GotoW(w, "lock") /\ UNCHANGED <<inputQueue, wtask>>
     ELSE /\ GotoW(w, "took")
          /\ wtask' = [wtask EXCEPT ![w] = Head(inputQueue)]
          /\ inputQueue' = Tail(inputQueue)
  /\ UNCHANGED <<flags, threads, counters, mutex, condition, tasks, output,
                 performer, mpc, history>>

(* The task is executed by this worker alone.                              *)
Took(w) ==
  /\ wpc[w] = "took"
  /\ tasksInQueue' = tasksInQueue - 1
  /\ state' = [state EXCEPT ![wtask[w]] = "Executed"]
  /\ GotoW(w, "deliver")
  /\ UNCHANGED <<flags, threads, tasksInExecution, queue, completions, output,
                 wtask, performer, mpc, history>>

Deliver(w) ==
  /\ wpc[w] = "deliver"
  /\ CompletePerform(wtask[w])
  /\ GotoW(w, "done")
  /\ wtask' = [wtask EXCEPT ![w] = None]
  /\ UNCHANGED <<flags, threads, counters, queue, tasks, performer, late,
                 drained>>

(* Mutant: the task is never taken out of tasksInExecution.                *)
DoneUncounted(w) ==
  /\ wpc[w] = "done"
  /\ GotoW(w, "loop")
  /\ UNCHANGED <<flags, threads, counters, queue, tasks, output, wtask,
                 performer, mpc, history>>

Done(w) ==
  /\ wpc[w] = "done"
  /\ tasksInExecution' = tasksInExecution - 1
  /\ GotoW(w, "loop")
  /\ UNCHANGED <<flags, threads, tasksInQueue, queue, tasks, output, wtask,
                 performer, mpc, history>>

(* No task: the rest happens under inputMutexQueue.                        *)
LockQueue(w) ==
  /\ wpc[w] = "lock" /\ mutex = None
  /\ mutex' = w
  /\ GotoW(w, "check")
  /\ UNCHANGED <<flags, threads, counters, inputQueue, condition, tasks, output,
                 wtask, performer, mpc, history>>

(* Mutant: a task that arrived before the lock is not looked for.          *)
CheckNothing(w) ==
  /\ wpc[w] = "check"
  /\ GotoW(w, "test")
  /\ UNCHANGED <<flags, threads, counters, queue, tasks, output, wtask,
                 performer, mpc, history>>

Check(w) ==
  /\ wpc[w] = "check"
  /\ IF tasksInQueue > 0 THEN GotoW(w, "loop") /\ mutex' = None
                         ELSE GotoW(w, "test") /\ UNCHANGED mutex
  /\ UNCHANGED <<flags, threads, counters, inputQueue, condition, tasks, output,
                 wtask, performer, mpc, history>>

TestFinalized(w) ==
  /\ wpc[w] = "test"
  /\ IF finalized THEN GotoW(w, "loop") /\ mutex' = None
                  ELSE GotoW(w, "capture") /\ UNCHANGED mutex
  /\ UNCHANGED <<flags, threads, counters, inputQueue, condition, tasks, output,
                 wtask, performer, mpc, history>>

(* _wait: mutexid and counter, the load of value, and the store of         *)
(* previous with the release of the mutex.                                 *)
Capture(w) ==
  /\ wpc[w] = "capture"
  /\ GotoW(w, "load")
  /\ UNCHANGED <<flags, threads, counters, queue, tasks, output, wtask,
                 performer, mpc, history>>

LoadValue(w) ==
  /\ wpc[w] = "load"
  /\ start' = [start EXCEPT ![w] = value]
  /\ GotoW(w, "store")
  /\ UNCHANGED <<flags, threads, counters, inputQueue, mutex, value, previous,
                 notify, next, overtaken, tasks, output, wtask, performer, mpc,
                 history>>

StorePrevious(w) ==
  /\ wpc[w] = "store"
  /\ previous' = start[w] /\ mutex' = None
  /\ GotoW(w, "wait")
  /\ UNCHANGED <<flags, threads, counters, inputQueue, value, start, notify,
                 next, overtaken, tasks, output, wtask, performer, mpc, history>>

(* The loop of _wait: the futex tests value again as the worker sleeps.    *)
FutexWait(w) ==
  /\ wpc[w] = "wait"
  /\ GotoW(w, IF value = start[w] THEN "asleep" ELSE "woken")
  /\ UNCHANGED <<flags, threads, counters, queue, tasks, output, wtask,
                 performer, mpc, history>>

(* The futex wait ends with an error other than a timeout.                 *)
Interrupted(w) ==
  /\ wpc[w] = "asleep"
  /\ GotoW(w, "wait")
  /\ UNCHANGED <<flags, threads, counters, queue, tasks, output, wtask,
                 performer, mpc, history>>

(* LockFn, counter and mutexid, and the unlock as worker returns.          *)
Wake(w) ==
  /\ wpc[w] = "woken" /\ mutex = None
  /\ start' = [start EXCEPT ![w] = 0]
  /\ GotoW(w, "loop")
  /\ UNCHANGED <<flags, threads, counters, inputQueue, mutex, value, previous,
                 notify, next, overtaken, tasks, output, wtask, performer, mpc,
                 history>>

-----------------------------------------------------------------------------
(* Mutant: the value the last worker started from is stored again.         *)
LoadPreviousAgain(n) ==
  /\ notify[n] = "previous"
  /\ next' = [next EXCEPT ![n] = previous]
  /\ notify' = [notify EXCEPT ![n] = "value"]
  /\ UNCHANGED <<flags, threads, counters, inputQueue, mutex, value, previous,
                 start, overtaken, tasks, output, worker, performer, mpc,
                 history>>

(* _signal, once it has found mutexid: 1 + previous is stored whatever     *)
(* value has become since the load, and the futex wakes one worker, or all *)
(* for notify_all.                                                         *)
LoadPrevious(n) ==
  /\ notify[n] = "previous"
  /\ next' = [next EXCEPT ![n] = 1 + previous]
  /\ notify' = [notify EXCEPT ![n] = "value"]
  /\ UNCHANGED <<flags, threads, counters, inputQueue, mutex, value, previous,
                 start, overtaken, tasks, output, worker, performer, mpc,
                 history>>

StoreValue(n) ==
  /\ notify[n] = "value"
  /\ value' = next[n] /\ overtaken' = (overtaken \/ next[n] < value)
  /\ next' = [next EXCEPT ![n] = 0]
  /\ notify' = [notify EXCEPT ![n] = "wake"]
  /\ UNCHANGED <<flags, threads, counters, inputQueue, mutex, previous, start,
                 tasks, output, worker, performer, mpc, history>>

Asleep == {w \in Workers : wpc[w] = "asleep"}

Woken(n) ==
  IF n = Owner \/ Asleep = {} THEN {Asleep} ELSE {{w} : w \in Asleep}

FutexWake(n) ==
  /\ notify[n] = "wake"
  /\ \E woken \in Woken(n) :
       wpc' = [w \in Workers |-> IF w \in woken THEN "wait" ELSE wpc[w]]
  /\ notify' = [notify EXCEPT ![n] = "none"]
  /\ UNCHANGED <<flags, threads, counters, inputQueue, mutex, value, previous,
                 start, next, overtaken, tasks, output, wtask, performer, mpc,
                 history>>

-----------------------------------------------------------------------------
(* WorkerContext::cancel, by the owner of the pool; it may be called again *)

Cancel ==
  /\ mpc = "idle"
  /\ finalized' = TRUE
  /\ mpc' = "stop"
  /\ UNCHANGED <<lazyInit, complete, threads, counters, queue, tasks, output,
                 worker, performer, history>>

Stop ==
  /\ mpc = "stop"
  /\ IF workers = {}
     THEN mpc' = "drain" /\ late' = late \cup InPerform /\ UNCHANGED continue
     ELSE /\ mpc' = "notify_all" /\ UNCHANGED late
          /\ continue' = [w \in Workers |-> FALSE]
  /\ UNCHANGED <<flags, workers, counters, queue, tasks, output, worker,
                 performer, drained, crashed>>

CancelNotify ==
  /\ mpc = "notify_all"
  /\ Signal(Owner)
  /\ mpc' = "join"
  /\ UNCHANGED <<flags, threads, counters, inputQueue, mutex, value, previous,
                 start, next, overtaken, tasks, output, worker, performer,
                 history>>

Join ==
  /\ mpc = "join"
  /\ \A w \in Workers : wpc[w] = "ended"
  /\ workers' = {} /\ wpc' = [w \in Workers |-> "none"]
  /\ mpc' = "drain" /\ late' = late \cup InPerform
  /\ UNCHANGED <<flags, continue, counters, queue, tasks, output, wtask,
                 performer, drained, crashed>>

(* Mutant: the tasks left in the queue are dropped without a word.         *)
DrainNothing ==
  /\ mpc = "drain" /\ mutex = None
  /\ mpc' = "clear"
  /\ UNCHANGED <<flags, threads, counters, queue, tasks, output, worker,
                 performer, history>>

(* foreach cancels every task it finds and clear removes what is there by  *)
(* then.                                                                   *)
Drain ==
  /\ mpc = "drain" /\ mutex = None
  /\ state' = [t \in Tasks |->
                 IF t \in Range(inputQueue) THEN "Executed" ELSE state[t]]
  /\ completions' = [t \in Tasks |->
                       IF t \in Range(inputQueue) /\ state[t] = "Prepared"
                       THEN completions[t] + 1 ELSE completions[t]]
  /\ mpc' = "clear"
  /\ UNCHANGED <<flags, threads, counters, queue, output, worker, performer,
                 history>>

Clear ==
  /\ mpc = "clear" /\ mutex = None
  /\ drained' = drained \cup Range(inputQueue)
  /\ inputQueue' = <<>>
  /\ mpc' = "release"
  /\ UNCHANGED <<flags, threads, counters, mutex, condition, tasks, output, worker,
                 performer, late, crashed>>

Release ==
  /\ mpc = "release"
  /\ complete' = FALSE
  /\ mpc' = "idle"
  /\ UNCHANGED <<finalized, lazyInit, threads, counters, queue, tasks, output,
                 worker, performer, history>>

-----------------------------------------------------------------------------
PoolInit ==
  /\ finalized = FALSE /\ complete = TRUE /\ lazyInit \in BOOLEAN
  /\ workers = (IF lazyInit THEN {} ELSE Workers)
  /\ continue = [w \in Workers |-> ~lazyInit]
  /\ tasksInQueue = 0 /\ tasksInExecution = 0
  /\ inputQueue = <<>> /\ mutex = None
  /\ value = 0 /\ previous = 0 /\ start = [w \in Workers |-> 0]
  /\ notify = [n \in Notifiers |-> "none"] /\ next = [n \in Notifiers |-> 0]
  /\ state = [t \in Tasks |-> "Initial"]
  /\ completions = [t \in Tasks |-> 0]
  /\ output = <<>>
  /\ wpc = [w \in Workers |-> IF lazyInit THEN "none" ELSE "loop"]
  /\ wtask = [w \in Workers |-> None]
  /\ ppc = [p \in Performers |-> "idle"]
  /\ ptask = [p \in Performers |-> None]
  /\ mpc = "idle"
  /\ late = {} /\ drained = {} /\ overtaken = FALSE /\ crashed = FALSE

PerformerStep(p) ==
  \/ TestLazy(p) \/ Spawn(p) \/ TestWorkers(p) \/ Decline(p) \/ Count(p)
  \/ Push(p) \/ Notify(p)

WorkerStep(w) ==
  \/ Loop(w) \/ PopTask(w) \/ Took(w) \/ Deliver(w) \/ Done(w) \/ LockQueue(w)
  \/ Check(w) \/ TestFinalized(w) \/ Capture(w) \/ LoadValue(w)
  \/ StorePrevious(w) \/ FutexWait(w) \/ Wake(w)

NotifierStep(n) ==
  LoadPrevious(n) \/ StoreValue(n) \/ FutexWake(n)

CancelStep ==
  \/ Stop \/ CancelNotify \/ Join \/ Drain \/ Clear \/ Release

=============================================================================
