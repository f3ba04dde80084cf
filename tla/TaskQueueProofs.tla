-------------------------- MODULE TaskQueueProofs --------------------------
(***************************************************************************)
(* Proofs about the thread pool and the task queue on it, for any number   *)
(* of workers, performers and tasks: types, the exactness of the two       *)
(* counters, that a task is completed once unless cancel overtook its      *)
(* perform and, until a notification is overtaken by another, that cancel  *)
(* is missed by one worker at most and no queued task is forgotten.        *)
(*                                                                         *)
(* The counters are exact because a task is in one place at a time         *)
(* (SingleHolder), which in turn needs the state of a task to fit its      *)
(* place (TaskStates): perform takes any task that is still Initial.  What *)
(* cancel guarantees rests on SweepInv: once it has found or made workers  *)
(* empty, only a perform that is on record as late can start workers or    *)
(* fill the queue.  What the notifications guarantee rests on              *)
(* ConditionInv: as long as value only grows, nobody who waits has started *)
(* from more than previous, so a store of 1 + previous moves all of them   *)
(* but the one worker that has read value and not yet stored it            *)
(* (MissedOne), and there is no such worker while a task is queued         *)
(* (QueueWatched).                                                         *)
(***************************************************************************)
EXTENDS TaskQueue, FiniteSetTheorems, SequenceTheorems, TLAPS

(* No task is in a queue twice.                                            *)
Injective(q) == \A i, j \in DOMAIN q : q[i] = q[j] => i = j

(* Where a task can be, beside InPerform and drained.                      *)
Queued == Range(inputQueue)
Delivered == Range(output)
Stacked == Range(stack)
Taken == {wtask[w] : w \in Workers} \ {None}

(* cancel has made or found workers empty.                                 *)
Swept == mpc \in {"drain", "clear", "release"} \/ ~complete

(* Where a worker holds inputMutexQueue.                                   *)
Inside == {"check", "test", "capture", "load", "store"}

(* The locations of the workers say which of them exist and who holds the  *)
(* mutex.                                                                  *)
WorkersPlace ==
  \A w \in Workers :
    /\ workers = {} => wpc[w] = "none"
    /\ mutex = w <=> wpc[w] \in Inside

(* A thread has a task in hand just where the code has.                    *)
HoldsTask ==
  /\ \A w \in Workers : wtask[w] # None <=> wpc[w] \in {"took", "deliver"}
  /\ \A p \in Performers : ptask[p] # None <=> ppc[p] \notin {"idle", "notify"}
  /\ mpc # "run" => stack = <<>>

(* A task is in one place, once.                                           *)
SingleHolder ==
  /\ Injective(inputQueue) /\ Injective(output) /\ Injective(stack)
  /\ \A v, w \in Workers : wtask[v] # None /\ wtask[v] = wtask[w] => v = w
  /\ \A p, q \in Performers : ptask[p] # None /\ ptask[p] = ptask[q] => p = q
  /\ Queued \cap (Delivered \cup Stacked \cup Taken \cup InPerform \cup drained) = {}
  /\ Delivered \cap (Stacked \cup Taken \cup InPerform \cup drained) = {}
  /\ Stacked \cap (Taken \cup InPerform \cup drained) = {}
  /\ Taken \cap (InPerform \cup drained) = {}
  /\ InPerform \cap drained = {}

(* How far a task has come, by the place it is in.  A task that cancel has *)
(* not completed, and that is in the queue when it is cleared, is late.    *)
TaskStates ==
  /\ \A t \in Queued \cup Taken \cup drained : state[t] # "Initial"
  /\ \A p \in Performers :
       /\ ppc[p] \in {"lazy", "spawn", "workers"} => state[ptask[p]] = "Initial"
       /\ ppc[p] \in {"count", "push"} => state[ptask[p]] = "Prepared"
  /\ \A t \in Queued :
       \/ state[t] = "Prepared" /\ (mpc = "clear" => t \in late)
       \/ mpc = "clear" /\ completions[t] > 0
  /\ \A t \in Tasks : state[t] = "Initial" => completions[t] = 0

(* Behind the sweep every perform that is not over is late; without one    *)
(* there are no workers, and once the queue is cleared it stays empty.     *)
SweepInv ==
  /\ mpc \in CancelLocations \/ ~complete => finalized
  /\ Swept => InPerform \subseteq late
  /\ late = {} /\ Swept => workers = {}
  /\ late = {} /\ (mpc = "release" \/ ~complete) => inputQueue = <<>>

(* Without a late perform a task that is still held has not been completed *)
(* but by the cancel that is about to clear the queue, and none twice.     *)
CompletionInv ==
  /\ \A t \in Tasks :
       state[t] # "Initial" /\ completions[t] = 0 => t \in Held \cup late \/ crashed
  /\ late = {} =>
       /\ ~crashed
       /\ \A t \in Tasks : completions[t] <= 1
       /\ \A t \in Delivered \cup Stacked \cup Taken \cup InPerform : completions[t] = 0
       /\ mpc # "clear" => \A t \in Queued : completions[t] = 0

(* A worker that has released the mutex in _wait.                          *)
Waits(w) == wpc[w] \in {"wait", "asleep", "woken"}

(* value does not go back unless a notification is overtaken; previous     *)
(* follows it, behind the worker that is about to store it and ahead of    *)
(* those that have.                                                        *)
ConditionInv ==
  ~overtaken =>
    /\ previous <= value
    /\ \A w \in Workers :
         /\ wpc[w] = "store" => previous <= start[w] /\ start[w] <= value
         /\ Waits(w) => start[w] <= previous

(* The workers that the notification of cancel will not have reached, as   *)
(* far as it has come.                                                     *)
Remaining(w) ==
  \/ wpc[w] \in {"capture", "load", "store"}
  \/ Waits(w) /\ notify[Owner] = "value" /\ start[w] >= next[Owner]
  \/ Waits(w) /\ notify[Owner] \in {"wake", "none"} /\ start[w] = value
  \/ wpc[w] = "asleep" /\ notify[Owner] = "none"

(* There is no more than one when cancel waits for the workers.            *)
MissedOne ==
  mpc = "join" /\ ~overtaken =>
    \A v, w \in Workers : Remaining(v) /\ Remaining(w) => v = w

(* A worker that comes to the queue by itself, and a notification that     *)
(* will still move one.                                                    *)
Awake(w) == wpc[w] # "asleep" /\ (wpc[w] = "wait" => start[w] # value)

Coming(n) ==
  \/ n \in Performers /\ ppc[n] = "notify"
  \/ notify[n] = "previous"
  \/ notify[n] = "value" /\ next[n] > previous
  \/ notify[n] = "wake" /\ value > previous

(* While a task is queued nobody goes to sleep, so previous stands still,  *)
(* and a worker is awake or about to be.                                   *)
QueueWatched ==
  inputQueue # <<>> =>
    /\ \A w \in Workers : wpc[w] \notin {"test", "capture", "load", "store"}
    /\ \/ overtaken
       \/ \E w \in Workers : Awake(w)
       \/ \E n \in Notifiers : Coming(n)

IInv ==
  /\ TypeOK /\ WorkersPlace /\ HoldsTask /\ SingleHolder /\ TaskStates
  /\ SweepInv /\ CompletionInv /\ CountersExact /\ ConditionInv
  /\ MissedOne /\ QueueWatched

(* A step of a worker inside _wait.                                        *)
Waiting(w) ==
  \/ Capture(w) \/ LoadValue(w) \/ StorePrevious(w) \/ FutexWait(w)
  \/ Interrupted(w) \/ Wake(w)

-----------------------------------------------------------------------------
(* Append adds its task to the tasks of a queue.                           *)
LEMMA AppendRange ==
  ASSUME NEW q \in Seq(Tasks), NEW t \in Tasks
  PROVE  /\ Append(q, t) \in Seq(Tasks)
         /\ Range(Append(q, t)) = Range(q) \cup {t}
         /\ Injective(q) /\ t \notin Range(q) => Injective(Append(q, t))
<1>1. /\ Append(q, t) \in Seq(Tasks)
      /\ Len(Append(q, t)) = Len(q) + 1
      /\ \A i \in 1..Len(q) : Append(q, t)[i] = q[i]
      /\ Append(q, t)[Len(q) + 1] = t
  OBVIOUS
<1>2. \A s \in Seq(Tasks) : DOMAIN s = 1..Len(s) /\ Len(s) \in Nat
  OBVIOUS
<1> QED
  BY <1>1, <1>2 DEF Range, Injective

(* A queue has the tasks of its tail and its head, and the head once if    *)
(* nothing is in it twice.                                                 *)
LEMMA TailRange ==
  ASSUME NEW q \in Seq(Tasks), q # <<>>
  PROVE  /\ Head(q) \in Range(q) /\ Head(q) \in Tasks
         /\ Tail(q) \in Seq(Tasks) /\ Len(Tail(q)) = Len(q) - 1
         /\ Range(q) = Range(Tail(q)) \cup {Head(q)}
         /\ Injective(q) => Injective(Tail(q)) /\ Head(q) \notin Range(Tail(q))
<1>1. /\ Tail(q) \in Seq(Tasks) /\ Len(q) \in Nat \ {0}
      /\ Len(Tail(q)) = Len(q) - 1 /\ Head(q) = q[1]
      /\ \A i \in 1..(Len(q) - 1) : Tail(q)[i] = q[i + 1]
      /\ \A i \in 1..Len(q) : q[i] \in Tasks
  OBVIOUS
<1>2. \A s \in Seq(Tasks) : DOMAIN s = 1..Len(s) /\ Len(s) \in Nat
  OBVIOUS
<1>3. Injective(q) => Injective(Tail(q)) /\ Head(q) \notin Range(Tail(q))
  BY <1>1, <1>2 DEF Range, Injective
<1>4. Range(q) \subseteq Range(Tail(q)) \cup {Head(q)}
  <2> SUFFICES ASSUME NEW i \in 1..Len(q), i # 1 PROVE q[i] \in Range(Tail(q))
    BY <1>1, <1>2 DEF Range
  <2>1. i - 1 \in 1..(Len(q) - 1) /\ Tail(q)[i - 1] = q[i]
    BY <1>1
  <2> QED
    BY <1>1, <1>2, <2>1 DEF Range
<1> QED
  BY <1>1, <1>2, <1>3, <1>4 DEF Range

(* The nodes that pushNode passes over end somewhere in the list.          *)
LEMMA PrefixEnds ==
  ASSUME NEW n \in Nat, NEW A \in SUBSET (1..n)
  PROVE  \E k \in 0..n : 1..k \subseteq A /\ k + 1 \notin A
<1> DEFINE T == {k \in Nat : k + 1 \notin A}
<1>1. n \in T
  OBVIOUS
<1>2. PICK k \in T : \A j \in T : ~(<<j, k>> \in OpToRel(<, Nat))
  BY <1>1, NatLessThanWellFounded, WFMin
<1>3. \A j \in T : ~(j < k)
  BY <1>2 DEF OpToRel
<1> QED
  BY <1>1, <1>3

(* InsertAt adds its task to the tasks of a queue.                         *)
LEMMA InsertRange ==
  ASSUME NEW q \in Seq(Tasks), NEW n \in 0..Len(q), NEW t \in Tasks
  PROVE  LET r == InsertAt(q, n + 1, t)
         IN  /\ r \in Seq(Tasks) /\ Len(r) = Len(q) + 1
             /\ Range(r) = Range(q) \cup {t}
             /\ Injective(q) /\ t \notin Range(q) => Injective(r)
<1> DEFINE before == SubSeq(q, 1, n)
           after == SubSeq(q, n + 1, Len(q))
           r == before \o <<t>> \o after
<1>0. Len(q) \in Nat /\ n \in Nat /\ DOMAIN q = 1..Len(q)
  OBVIOUS
<1>a. /\ before \in Seq(Tasks) /\ Len(before) = n
      /\ \A i \in 1..n : before[i] = q[i]
  BY <1>0
<1>b. /\ after \in Seq(Tasks) /\ Len(after) = Len(q) - n
      /\ \A i \in 1..(Len(q) - n) : after[i] = q[n + i]
  <2>1. \A i \in (n + 1)..Len(q) : q[i] \in Tasks
    BY <1>0
  <2>2. /\ after \in Seq(Tasks)
        /\ Len(after) = IF n + 1 <= Len(q) THEN Len(q) - (n + 1) + 1 ELSE 0
        /\ \A i \in 1..(Len(q) - (n + 1) + 1) : after[i] = q[(n + 1) + i - 1]
    BY <1>0, <2>1, SubSeqProperties
  <2>3. Len(q) - (n + 1) + 1 = Len(q) - n /\ n <= Len(q)
    BY <1>0
  <2>4. \A i \in 1..(Len(q) - n) : (n + 1) + i - 1 = n + i
    BY <1>0
  <2> HIDE DEF after
  <2>5. CASE n + 1 <= Len(q)
    BY <2>2, <2>3, <2>4, <2>5
  <2>6. CASE ~(n + 1 <= Len(q))
    <3>1. \A l, m \in Nat : m <= l /\ ~(m + 1 <= l) => l - m = 0
      OBVIOUS
    <3>2. Len(q) - n = 0
      BY <1>0, <2>3, <2>6, <3>1
    <3> QED
      BY <2>2, <2>3, <2>4, <2>6, <3>2
  <2> QED
    BY <2>5, <2>6
<1> HIDE DEF before, after
<1>c. /\ before \o <<t>> \in Seq(Tasks) /\ Len(before \o <<t>>) = n + 1
      /\ \A i \in 1..n : (before \o <<t>>)[i] = q[i]
      /\ (before \o <<t>>)[n + 1] = t
  BY <1>0, <1>a
<1>1. /\ r \in Seq(Tasks) /\ Len(r) = Len(q) + 1 /\ Len(q) \in Nat
      /\ DOMAIN q = 1..Len(q) /\ DOMAIN r = 1..(Len(q) + 1)
  <2>1. r \in Seq(Tasks) /\ Len(r) = Len(before \o <<t>>) + Len(after)
    BY <1>b, <1>c, ConcatProperties
  <2> HIDE DEF r
  <2>2. (n + 1) + (Len(q) - n) = Len(q) + 1
    BY <1>0
  <2>3. Len(r) = Len(q) + 1
    BY <1>b, <1>c, <2>1, <2>2, Zenon
  <2> QED
    BY <1>0, <2>1, <2>3
<1>2. /\ \A i \in 1..n : r[i] = q[i]
      /\ r[n + 1] = t
      /\ \A i \in (n + 2)..(Len(q) + 1) : r[i] = q[i - 1]
  <2>1. \A i \in 1..(Len(q) + 1) :
          r[i] = IF i <= n + 1 THEN (before \o <<t>>)[i] ELSE after[i - (n + 1)]
    BY <1>0, <1>b, <1>c, ConcatProperties
  <2> HIDE DEF r
  <2>2. ASSUME NEW i \in (n + 2)..(Len(q) + 1) PROVE r[i] = q[i - 1]
    <3>1. r[i] = after[i - (n + 1)]
      BY <1>0, <2>1
    <3>2. i - (n + 1) \in 1..(Len(q) - n) /\ n + (i - (n + 1)) = i - 1
      BY <1>0
    <3> QED
      BY <1>b, <3>1, <3>2
  <2>3. n + 1 \in 1..(Len(q) + 1) /\ 1..n \subseteq 1..(Len(q) + 1)
    BY <1>0
  <2> QED
    BY <1>0, <1>c, <2>1, <2>2, <2>3
<1> HIDE DEF r
<1>d. InsertAt(q, n + 1, t) = r
  <2>1. (n + 1) - 1 = n
    BY <1>0
  <2> QED
    BY <2>1 DEF InsertAt, before, after, r
<1>3. Range(q) \subseteq Range(r)
  <2> SUFFICES ASSUME NEW i \in 1..Len(q) PROVE q[i] \in Range(r)
    BY <1>1 DEF Range
  <2>1. CASE i <= n
    BY <1>1, <1>2, <2>1, SMTT(30) DEF Range
  <2>2. CASE i > n
    <3>1. i + 1 \in (n + 2)..(Len(q) + 1) /\ r[i + 1] = q[i]
      BY <1>1, <1>2, <2>2
    <3> QED
      BY <1>1, <3>1 DEF Range
  <2> QED
    BY <1>1, <2>1, <2>2
<1>4. Range(r) = Range(q) \cup {t}
  <2>0. t \in Range(r)
    BY <1>0, <1>1, <1>2 DEF Range
  <2> SUFFICES ASSUME NEW i \in 1..(Len(q) + 1) PROVE r[i] \in Range(q) \cup {t}
    BY <1>1, <1>3, <2>0 DEF Range
  <2>1. CASE i <= n
    BY <1>1, <1>2, <2>1 DEF Range
  <2>2. CASE i = n + 1
    BY <1>2, <2>2
  <2>3. CASE i > n + 1
    <3>1. i - 1 \in 1..Len(q) /\ r[i] = q[i - 1]
      BY <1>0, <1>2, <2>3
    <3> QED
      BY <1>1, <3>1 DEF Range
  <2> QED
    BY <1>0, <2>1, <2>2, <2>3
<1>5. ASSUME Injective(q), t \notin Range(q) PROVE Injective(r)
  <2> SUFFICES ASSUME NEW i \in 1..(Len(q) + 1), NEW j \in 1..(Len(q) + 1),
                      i < j, r[i] = r[j]
               PROVE  FALSE
    BY <1>1 DEF Injective
  <2>1. CASE j <= n
    BY <1>1, <1>2, <1>5, <2>1 DEF Injective
  <2>2. CASE j = n + 1
    BY <1>1, <1>2, <1>5, <2>2 DEF Range
  <2>3. CASE j > n + 1 /\ i = n + 1
    BY <1>1, <1>2, <1>5, <2>3 DEF Range
  <2>4. CASE j > n + 1 /\ i < n + 1
    <3>1. i \in 1..Len(q) /\ j - 1 \in 1..Len(q) /\ q[i] = q[j - 1] /\ i # j - 1
      BY <1>0, <1>2, <2>4
    <3> QED
      BY <1>0, <1>5, <3>1 DEF Injective
  <2>5. CASE j > n + 1 /\ i > n + 1
    <3>1. /\ i - 1 \in 1..Len(q) /\ j - 1 \in 1..Len(q)
          /\ q[i - 1] = q[j - 1] /\ i - 1 # j - 1
      BY <1>0, <1>2, <2>5
    <3> QED
      BY <1>0, <1>5, <3>1 DEF Injective
  <2> QED
    BY <1>0, <2>1, <2>2, <2>3, <2>4, <2>5
<1> QED
  BY <1>1, <1>4, <1>5, <1>d

(* PushNode finds a place for the task and adds it, whatever the           *)
(* priorities are.                                                         *)
LEMMA PushRange ==
  ASSUME NEW q \in Seq(Tasks), NEW t \in Tasks, NEW first \in BOOLEAN
  PROVE  LET r == PushNode(q, t, first)
         IN  /\ r \in Seq(Tasks) /\ Len(r) = Len(q) + 1
             /\ Range(r) = Range(q) \cup {t}
             /\ Injective(q) /\ t \notin Range(q) => Injective(r)
<1> DEFINE A == Ahead(q, t, first)
           n == CHOOSE k \in 0..Len(q) : 1..k \subseteq A /\ k + 1 \notin A
<1>1. A \in SUBSET (1..Len(q)) /\ Len(q) \in Nat
  BY DEF Ahead
<1>2. n \in 0..Len(q)
  <2> HIDE DEF A
  <2>1. \E k \in 0..Len(q) : 1..k \subseteq A /\ k + 1 \notin A
    BY <1>1, PrefixEnds
  <2> QED
    BY <2>1
<1> HIDE DEF n
<1>3. PushNode(q, t, first) = InsertAt(q, n + 1, t)
  BY DEF PushNode, n
<1>4. LET r == InsertAt(q, n + 1, t)
      IN  /\ r \in Seq(Tasks) /\ Len(r) = Len(q) + 1
          /\ Range(r) = Range(q) \cup {t}
          /\ Injective(q) /\ t \notin Range(q) => Injective(r)
  BY <1>2, InsertRange
<1> QED
  BY <1>3, <1>4

(* A queue with nothing twice is as long as it has tasks.                  *)
LEMMA InjectiveCardinality ==
  ASSUME NEW q \in Seq(Tasks), Injective(q)
  PROVE  IsFiniteSet(Range(q)) /\ Cardinality(Range(q)) = Len(q)
<1>1. Len(q) \in Nat /\ DOMAIN q = 1..Len(q) /\ q \in [1..Len(q) -> Tasks]
  OBVIOUS
<1>2. q \in Bijection(1..Len(q), Range(q))
  BY <1>1 DEF Injective, Range, Bijection, Injection, Surjection, IsInjective
<1>3. IsFiniteSet(1..Len(q)) /\ Cardinality(1..Len(q)) = Len(q)
  BY <1>1, FS_Interval, SMTT(30)
<1> QED
  BY <1>2, <1>3, FS_Bijection DEF ExistsBijection

(* The sets of threads that CountersExact counts are finite.               *)
LEMMA CountedFinite ==
  /\ IsFiniteSet(Pushing) /\ Cardinality(Pushing) \in Nat
  /\ IsFiniteSet(Taking) /\ Cardinality(Taking) \in Nat
  /\ IsFiniteSet(Running) /\ Cardinality(Running) \in Nat
<1>1. /\ Pushing \in SUBSET Performers
      /\ Taking \in SUBSET Workers /\ Running \in SUBSET Workers
  BY DEF Pushing, Taking, Running
<1>2. IsFiniteSet(Pushing) /\ IsFiniteSet(Taking) /\ IsFiniteSet(Running)
  BY <1>1, PoolAssumption, FS_Subset
<1> QED
  BY <1>2, FS_CardinalityType

(* Whoever takes a task finds it counted.                                  *)
LEMMA CountPositive ==
  ASSUME TypeOK, CountersExact, NEW w \in Workers
  PROVE  /\ wpc[w] = "took" => tasksInQueue > 0
         /\ wpc[w] = "done" => tasksInExecution > 0
<1>1. /\ tasksInQueue \in Nat /\ tasksInExecution \in Nat /\ Len(inputQueue) \in Nat
      /\ IsFiniteSet(drained) /\ Cardinality(drained) \in Nat
  BY PoolAssumption, FS_Subset, FS_CardinalityType DEF TypeOK
<1>2. ASSUME wpc[w] = "took" PROVE Cardinality(Taking) # 0
  BY <1>2, CountedFinite, FS_EmptySet DEF Taking
<1>3. ASSUME wpc[w] = "done" PROVE Cardinality(Running) # 0
  BY <1>3, CountedFinite, FS_EmptySet DEF Running
<1> QED
  BY <1>1, <1>2, <1>3, CountedFinite DEF CountersExact

(* The steps that change the words of inputCondition or what a thread      *)
(* knows of them.                                                          *)
LEMMA ConditionSplit ==
  ASSUME [Next]_vars
  PROVE  \/ UNCHANGED condition
         \/ \E p \in Performers : Notify(p)
         \/ CancelNotify \/ Renotify
         \/ \E w \in Workers : LoadValue(w) \/ StorePrevious(w) \/ Wake(w)
         \/ \E n \in Notifiers : NotifierStep(n)
<1> USE DEF queue
<1>1. CASE UNCHANGED vars
  BY <1>1 DEF vars, poolVars
<1>2. ASSUME NEW p \in Performers, NEW t \in Tasks,
             Perform(p, t) \/ PerformOnThread(p, t)
      PROVE  UNCHANGED condition
  BY <1>2 DEF Perform, PerformOnThread
<1>3. ASSUME NEW p \in Performers, PerformerStep(p)
      PROVE  UNCHANGED condition \/ Notify(p)
  BY <1>3 DEF PerformerStep, TestLazy, Spawn, TestWorkers, Decline, Count, Push
<1>4. ASSUME NEW w \in Workers, WorkerStep(w) \/ Interrupted(w)
      PROVE  UNCHANGED condition \/ LoadValue(w) \/ StorePrevious(w) \/ Wake(w)
  BY <1>4 DEF WorkerStep, Loop, PopTask, Took, Deliver, Done, LockQueue, Check,
     TestFinalized, Capture, FutexWait, Interrupted
<1>5. CASE OwnerCall \/ OwnerStep
  BY <1>5 DEF OwnerCall, OwnerStep, CancelStep, Cancel, Stop, Join, Drain, Clear,
     Release, Update, WaitFor, Wait, Take, RunTask, Load, Counter
<1> QED
  BY <1>1, <1>2, <1>3, <1>4, <1>5 DEF Next

(* The condition keeps its types.                                          *)
LEMMA ConditionTypes ==
  ASSUME ConditionTypeOK, [Next]_vars
  PROVE  ConditionTypeOK'
<1> USE DEF ConditionTypeOK, Signalling
<1>1. CASE UNCHANGED condition
  BY <1>1 DEF condition
<1>2. ASSUME NEW n \in Notifiers, Signal(n),
             UNCHANGED <<value, previous, start, next, overtaken>>
      PROVE  ConditionTypeOK'
  BY <1>2 DEF Signal
<1>3. CASE CancelNotify \/ Renotify \/ \E p \in Performers : Notify(p)
  <2>1. /\ UNCHANGED <<value, previous, start, next, overtaken>>
        /\ UNCHANGED notify \/ \E n \in Notifiers : Signal(n)
    BY <1>3 DEF CancelNotify, Renotify, Notify, Notifiers
  <2> QED
    BY <1>2, <2>1
<1>4. ASSUME NEW w \in Workers, LoadValue(w) \/ StorePrevious(w) \/ Wake(w)
      PROVE  ConditionTypeOK'
  <2>1. CASE LoadValue(w)
    BY <2>1 DEF LoadValue
  <2>2. CASE StorePrevious(w)
    BY <2>2 DEF StorePrevious
  <2>3. CASE Wake(w)
    BY <2>3 DEF Wake
  <2> QED
    BY <1>4, <2>1, <2>2, <2>3
<1>5. ASSUME NEW n \in Notifiers, NotifierStep(n) PROVE ConditionTypeOK'
  <2>1. CASE LoadPrevious(n)
    BY <2>1 DEF LoadPrevious
  <2>2. CASE StoreValue(n)
    <3>1. overtaken' \in BOOLEAN
      BY <2>2, Zenon DEF StoreValue
    <3> QED
      BY <2>2, <3>1 DEF StoreValue
  <2>3. CASE FutexWake(n)
    BY <2>3 DEF FutexWake
  <2> QED
    BY <1>5, <2>1, <2>2, <2>3 DEF NotifierStep
<1> QED
  BY <1>1, <1>3, <1>4, <1>5, ConditionSplit

(* A step keeps the types; the counters do not go below zero since they    *)
(* are exact.                                                              *)
LEMMA TypeInductive == IInv /\ [Next]_vars => TypeOK'
<1> SUFFICES ASSUME IInv, [Next]_vars PROVE TypeOK'
  OBVIOUS
<1>0. TypeOK /\ HoldsTask /\ CountersExact /\ ConditionTypeOK'
  BY ConditionTypes DEF IInv, TypeOK
<1> USE <1>0 DEF TypeOK, TaskState, WorkerLocations, PerformerLocations,
        CancelLocations, OwnerLocations, GotoW, GotoP, flags, threads, counters,
        queue, tasks, worker, performer, history
<1>s. /\ inputQueue # <<>> =>
           Head(inputQueue) \in Tasks /\ Tail(inputQueue) \in Seq(Tasks)
      /\ stack # <<>> => Head(stack) \in Tasks /\ Tail(stack) \in Seq(Tasks)
  BY TailRange
<1>o. \A t \in Tasks : Append(output, t) \in Seq(Tasks)
  BY AppendRange
<1>p. \A t \in Tasks, first \in BOOLEAN :
        PushNode(inputQueue, t, first) \in Seq(Tasks)
  BY PushRange
<1>c. ASSUME NEW t \in Tasks, CompletePerform(t)
      PROVE  /\ output' \in Seq(Tasks) /\ mpc' \in OwnerLocations
             /\ crashed' \in BOOLEAN
  <2>1. CASE /\ output' = Append(output, t)
             /\ mpc' = IF mpc = "wait" THEN "relock" ELSE mpc
             /\ UNCHANGED crashed
    BY <1>o, <2>1
  <2>2. CASE crashed' = TRUE /\ UNCHANGED <<output, mpc>>
    BY <2>2
  <2> QED
    BY <1>c, <2>1, <2>2 DEF CompletePerform
<1>r. InPerform \subseteq Tasks /\ Queued \subseteq Tasks
  BY DEF InPerform, Queued, Range
<1>1. CASE UNCHANGED vars
  BY <1>1 DEF vars, poolVars
<1>2. ASSUME NEW p \in Performers, NEW t \in Tasks, Perform(p, t),
             UNCHANGED <<call, stack>>
      PROVE  TypeOK'
  BY <1>2 DEF Perform
<1>3. ASSUME NEW p \in Performers, NEW t \in Tasks, PerformOnThread(p, t)
      PROVE  TypeOK'
  BY <1>3 DEF PerformOnThread
<1>4. ASSUME NEW p \in Performers, TestLazy(p), UNCHANGED <<call, stack>>
      PROVE  TypeOK'
  BY <1>4 DEF TestLazy
<1>5. ASSUME NEW p \in Performers, Spawn(p), UNCHANGED <<call, stack>>
      PROVE  TypeOK'
  <2>1. CASE workers = {}
    <3>1. /\ workers' \in {{}, Workers} /\ lazyInit' \in BOOLEAN
          /\ continue' = [w \in Workers |-> TRUE]
          /\ wpc' = [w \in Workers |-> "loop"]
          /\ ppc' = [ppc EXCEPT ![p] = "workers"]
      BY <1>5, <2>1, Zenon DEF Spawn
    <3>2. /\ continue' \in [Workers -> BOOLEAN]
          /\ wpc' \in [Workers -> WorkerLocations]
          /\ ppc' \in [Performers -> PerformerLocations]
      BY <3>1
    <3>3. UNCHANGED <<finalized, complete, counters, queue, tasks, output, wtask,
                      ptask, mpc, history>>
      BY <1>5 DEF Spawn
    <3> QED
      BY <1>5, <3>1, <3>2, <3>3
  <2>2. CASE workers # {}
    BY <1>5, <2>2 DEF Spawn
  <2> QED
    BY <2>1, <2>2
<1>6. ASSUME NEW p \in Performers, TestWorkers(p), UNCHANGED <<call, stack>>
      PROVE  TypeOK'
  <2>1. CASE UNCHANGED state /\ Return(p)
    BY <1>6, <2>1 DEF TestWorkers, Return
  <2>2. CASE /\ \/ state' = [state EXCEPT ![ptask[p]] = "Prepared"]
                \/ state' = [state EXCEPT ![ptask[p]] = "Executed"]
             /\ GotoP(p, "count") \/ GotoP(p, "decline")
             /\ UNCHANGED ptask
    <3>1. state' \in [Tasks -> TaskState]
      BY <2>2
    <3>2. ppc' \in [Performers -> PerformerLocations]
      BY <2>2
    <3> QED
      BY <1>6, <2>2, <3>1, <3>2 DEF TestWorkers
  <2> QED
    BY <1>6, <2>1, <2>2 DEF TestWorkers
<1>7. ASSUME NEW p \in Performers, Decline(p), UNCHANGED <<call, stack>>
      PROVE  TypeOK'
  <2>1. ptask[p] \in Tasks
    BY <1>7 DEF Decline, HoldsTask
  <2>2. /\ output' \in Seq(Tasks) /\ mpc' \in OwnerLocations
        /\ crashed' \in BOOLEAN
    BY <1>7, <1>c, <2>1 DEF Decline
  <2> QED
    BY <1>7, <2>2 DEF Decline, Return
<1>8. ASSUME NEW p \in Performers, Count(p), UNCHANGED <<call, stack>>
      PROVE  TypeOK'
  BY <1>8 DEF Count
<1>9. ASSUME NEW p \in Performers, Push(p), UNCHANGED <<call, stack>>
      PROVE  TypeOK'
  <2>1. ptask[p] \in Tasks
    BY <1>9 DEF Push, HoldsTask
  <2>2. inputQueue' \in Seq(Tasks)
    BY <1>9, <1>p, <2>1 DEF Push
  <2> QED
    BY <1>9, <2>2 DEF Push
<1>10. ASSUME NEW p \in Performers, Notify(p), UNCHANGED <<call, stack>>
       PROVE  TypeOK'
  BY <1>10 DEF Notify
<1>11. ASSUME NEW w \in Workers, Loop(w), UNCHANGED <<call, stack>>
       PROVE  TypeOK'
  BY <1>11 DEF Loop
<1>12. ASSUME NEW w \in Workers, PopTask(w), UNCHANGED <<call, stack>>
       PROVE  TypeOK'
  <2>1. CASE inputQueue = <<>>
    <3>1. wpc' \in [Workers -> WorkerLocations]
      BY <1>12, <2>1 DEF PopTask
    <3>2. UNCHANGED <<flags, threads, counters, queue, tasks, output, wtask,
                      performer, mpc, history>>
      BY <1>12, <2>1 DEF PopTask
    <3> QED
      BY <1>12, <3>1, <3>2
  <2>2. CASE inputQueue # <<>>
    <3>1. wtask' \in [Workers -> Tasks \cup {None}]
      BY <1>12, <1>s, <2>2 DEF PopTask
    <3>2. inputQueue' \in Seq(Tasks)
      BY <1>12, <1>s, <2>2 DEF PopTask
    <3>3. /\ wpc' \in [Workers -> WorkerLocations]
          /\ UNCHANGED <<flags, threads, counters, mutex, condition, tasks, output,
                         performer, mpc, history>>
      BY <1>12, <2>2 DEF PopTask
    <3> QED
      BY <1>12, <3>1, <3>2, <3>3
  <2> QED
    BY <2>1, <2>2
<1>13. ASSUME NEW w \in Workers, Took(w), UNCHANGED <<call, stack>>
       PROVE  TypeOK'
  <2>1. tasksInQueue' \in Nat
    BY <1>13, CountPositive DEF Took
  <2>2. state' \in [Tasks -> TaskState]
    BY <1>13 DEF Took
  <2> QED
    BY <1>13, <2>1, <2>2 DEF Took
<1>14. ASSUME NEW w \in Workers, Deliver(w), UNCHANGED <<call, stack>>
       PROVE  TypeOK'
  <2>1. wtask[w] \in Tasks
    BY <1>14 DEF Deliver, HoldsTask
  <2>2. /\ output' \in Seq(Tasks) /\ mpc' \in OwnerLocations
        /\ crashed' \in BOOLEAN
    BY <1>14, <1>c, <2>1 DEF Deliver
  <2> QED
    BY <1>14, <2>2 DEF Deliver
<1>15. ASSUME NEW w \in Workers, Done(w), UNCHANGED <<call, stack>>
       PROVE  TypeOK'
  BY <1>15, CountPositive DEF Done
<1>16. ASSUME NEW w \in Workers, LockQueue(w), UNCHANGED <<call, stack>>
       PROVE  TypeOK'
  BY <1>16 DEF LockQueue
<1>17. ASSUME NEW w \in Workers, Check(w), UNCHANGED <<call, stack>>
       PROVE  TypeOK'
  <2>1. /\ mutex' \in {mutex, None}
        /\ \E l \in WorkerLocations : wpc' = [wpc EXCEPT ![w] = l]
        /\ UNCHANGED <<flags, threads, counters, inputQueue, condition, tasks, output,
                       wtask, performer, mpc, history>>
    BY <1>17 DEF Check
  <2>2. wpc' \in [Workers -> WorkerLocations] /\ mutex' \in Workers \cup {None}
    BY <2>1
  <2> QED
    BY <1>17, <2>1, <2>2
<1>18. ASSUME NEW w \in Workers, TestFinalized(w), UNCHANGED <<call, stack>>
       PROVE  TypeOK'
  <2>1. /\ mutex' \in {mutex, None}
        /\ \E l \in WorkerLocations : wpc' = [wpc EXCEPT ![w] = l]
        /\ UNCHANGED <<flags, threads, counters, inputQueue, condition, tasks, output,
                       wtask, performer, mpc, history>>
    BY <1>18 DEF TestFinalized
  <2>2. wpc' \in [Workers -> WorkerLocations] /\ mutex' \in Workers \cup {None}
    BY <2>1
  <2> QED
    BY <1>18, <2>1, <2>2
<1>19. ASSUME NEW w \in Workers, Waiting(w), UNCHANGED <<call, stack>>
       PROVE  TypeOK'
  <2>1. CASE LoadValue(w)
    BY <1>19, <2>1 DEF LoadValue
  <2>2. CASE StorePrevious(w)
    BY <1>19, <2>2 DEF StorePrevious
  <2>3. CASE Wake(w)
    BY <1>19, <2>3 DEF Wake
  <2>4. CASE Capture(w) \/ FutexWait(w) \/ Interrupted(w)
    <3>1. /\ \E l \in WorkerLocations : wpc' = [wpc EXCEPT ![w] = l]
          /\ UNCHANGED <<flags, threads, counters, queue, tasks, output, wtask,
                         performer, mpc, history>>
      BY <2>4 DEF Capture, FutexWait, Interrupted
    <3>2. wpc' \in [Workers -> WorkerLocations]
      BY <3>1
    <3> QED
      BY <1>19, <3>1, <3>2
  <2> QED
    BY <1>19, <2>1, <2>2, <2>3, <2>4 DEF Waiting
<1>20. ASSUME NEW n \in Notifiers, NotifierStep(n), UNCHANGED <<call, stack>>
       PROVE  TypeOK'
  BY <1>20 DEF NotifierStep, LoadPrevious, StoreValue, FutexWake
<1>21. ASSUME Cancel, UNCHANGED <<call, stack>> PROVE TypeOK'
  BY <1>21 DEF Cancel
<1>22. ASSUME Stop, UNCHANGED <<call, stack>> PROVE TypeOK'
  BY <1>22, <1>r DEF Stop, InPerform
<1>23. ASSUME CancelNotify, UNCHANGED <<call, stack>> PROVE TypeOK'
  BY <1>23 DEF CancelNotify
<1>24. ASSUME Join, UNCHANGED <<call, stack>> PROVE TypeOK'
  BY <1>24, <1>r DEF Join, InPerform
<1>25. ASSUME Drain, UNCHANGED <<call, stack>> PROVE TypeOK'
  BY <1>25 DEF Drain
<1>26. ASSUME Clear, UNCHANGED <<call, stack>> PROVE TypeOK'
  BY <1>26, <1>r DEF Clear, Queued
<1>27. ASSUME Release, UNCHANGED <<call, stack>> PROVE TypeOK'
  BY <1>27 DEF Release
<1>28. ASSUME Update PROVE TypeOK'
  BY <1>28 DEF Update
<1>29. ASSUME Take PROVE TypeOK'
  BY <1>29 DEF Take
<1>30. ASSUME RunTask PROVE TypeOK'
  BY <1>30, <1>s, SMTT(30) DEF RunTask
<1>31. ASSUME Renotify PROVE TypeOK'
  BY <1>31 DEF Renotify
<1>32. ASSUME Load PROVE TypeOK'
  BY <1>32 DEF Load
<1>33. ASSUME WaitFor PROVE TypeOK'
  BY <1>33 DEF WaitFor
<1>34. ASSUME Counter PROVE TypeOK'
  BY <1>34 DEF Counter
<1>35. ASSUME Wait PROVE TypeOK'
  BY <1>35 DEF Wait
<1> QED
  BY <1>1, <1>2, <1>3, <1>4, <1>5, <1>6, <1>7, <1>8, <1>9, <1>10, <1>11,
     <1>12, <1>13, <1>14, <1>15, <1>16, <1>17, <1>18, <1>19, <1>20, <1>21,
     <1>22, <1>23, <1>24, <1>25, <1>26, <1>27, <1>28, <1>29, <1>30, <1>31,
     <1>32, <1>33, <1>34, <1>35
     DEF Next, PerformerStep, WorkerStep, Waiting, OwnerCall, OwnerStep,
     CancelStep

(* A goto moves one thread.                                                *)
LEMMA WorkerMoves ==
  ASSUME TypeOK, NEW w \in Workers, NEW l \in WorkerLocations, GotoW(w, l)
  PROVE  wpc'[w] = l /\ \A v \in Workers : v # w => wpc'[v] = wpc[v]
BY DEF TypeOK, GotoW

(* The same for a performer.                                               *)
LEMMA PerformerMoves ==
  ASSUME TypeOK, NEW p \in Performers, NEW l \in PerformerLocations, GotoP(p, l)
  PROVE  ppc'[p] = l /\ \A q \in Performers : q # p => ppc'[q] = ppc[q]
BY DEF TypeOK, GotoP

(* A wake moves workers that are asleep and nobody else.                   *)
LEMMA Notified ==
  ASSUME NEW n \in Notifiers, NotifierStep(n), TypeOK
  PROVE  /\ UNCHANGED <<workers, mutex, wtask, mpc, finalized>>
         /\ \A w \in Workers :
              wpc'[w] = wpc[w] \/ (wpc[w] = "asleep" /\ wpc'[w] = "wait")
<1>1. CASE LoadPrevious(n) \/ StoreValue(n)
  BY <1>1 DEF LoadPrevious, StoreValue, threads, worker, flags
<1>2. CASE FutexWake(n)
  <2>1. PICK woken \in Woken(n) :
          wpc' = [w \in Workers |-> IF w \in woken THEN "wait" ELSE wpc[w]]
    BY <1>2 DEF FutexWake
  <2>2. woken \subseteq Asleep
    BY DEF Woken
  <2> QED
    BY <1>2, <2>1, <2>2 DEF FutexWake, Asleep, threads, flags
<1> QED
  BY <1>1, <1>2 DEF NotifierStep

(* A worker moves along its loop; where it goes and what it does to the    *)
(* mutex and the condition.                                                *)
LEMMA WorkerEffect ==
  ASSUME TypeOK, NEW w \in Workers, WorkerStep(w) \/ Interrupted(w)
  PROVE  /\ UNCHANGED <<workers, ppc, ptask, drained, late, finalized, complete>>
         /\ wpc[w] \notin {"none", "ended"} /\ wpc'[w] # "none"
         /\ \A v \in Workers : v # w => wpc'[v] = wpc[v]
         /\ \/ /\ mutex = None /\ mutex' = w
               /\ wpc[w] \notin Inside /\ wpc'[w] \in Inside
            \/ UNCHANGED mutex /\ (wpc[w] \in Inside <=> wpc'[w] \in Inside)
            \/ wpc[w] \in Inside /\ mutex' = None /\ wpc'[w] \notin Inside
<1> USE DEF flags, threads, counters, queue, tasks, worker, performer, history,
        WorkerLocations, Inside
<1>1. CASE Loop(w)
  <2>1. GotoW(w, "pop") \/ GotoW(w, "ended")
    BY <1>1 DEF Loop
  <2> QED
    BY <1>1, <2>1, WorkerMoves DEF Loop
<1>2. CASE PopTask(w)
  <2>1. GotoW(w, "lock") \/ GotoW(w, "took")
    BY <1>2 DEF PopTask
  <2> QED
    BY <1>2, <2>1, WorkerMoves DEF PopTask
<1>3. CASE Took(w)
  <2>1. GotoW(w, "deliver")
    BY <1>3 DEF Took
  <2> QED
    BY <1>3, <2>1, WorkerMoves DEF Took
<1>4. CASE Deliver(w)
  <2>1. GotoW(w, "done")
    BY <1>4 DEF Deliver
  <2> QED
    BY <1>4, <2>1, WorkerMoves DEF Deliver, CompletePerform
<1>5. CASE Done(w)
  <2>1. GotoW(w, "loop")
    BY <1>5 DEF Done
  <2> QED
    BY <1>5, <2>1, WorkerMoves DEF Done
<1>6. CASE LockQueue(w)
  <2>1. GotoW(w, "check")
    BY <1>6 DEF LockQueue
  <2> QED
    BY <1>6, <2>1, WorkerMoves DEF LockQueue
<1>7. CASE Check(w)
  <2>1. GotoW(w, "loop") \/ GotoW(w, "test")
    BY <1>7 DEF Check
  <2> QED
    BY <1>7, <2>1, WorkerMoves DEF Check
<1>8. CASE TestFinalized(w)
  <2>1. GotoW(w, "loop") \/ GotoW(w, "capture")
    BY <1>8 DEF TestFinalized
  <2> QED
    BY <1>8, <2>1, WorkerMoves DEF TestFinalized
<1>9. CASE Capture(w) \/ LoadValue(w)
  <2>1. GotoW(w, "load") \/ GotoW(w, "store")
    BY <1>9 DEF Capture, LoadValue
  <2> QED
    BY <1>9, <2>1, WorkerMoves DEF Capture, LoadValue
<1>10. CASE StorePrevious(w)
  <2>1. GotoW(w, "wait")
    BY <1>10 DEF StorePrevious
  <2> QED
    BY <1>10, <2>1, WorkerMoves DEF StorePrevious
<1>11. CASE FutexWait(w) \/ Interrupted(w)
  <2>1. GotoW(w, "asleep") \/ GotoW(w, "woken") \/ GotoW(w, "wait")
    BY <1>11 DEF FutexWait, Interrupted
  <2> QED
    BY <1>11, <2>1, WorkerMoves DEF FutexWait, Interrupted
<1>12. CASE Wake(w)
  <2>1. GotoW(w, "loop")
    BY <1>12 DEF Wake
  <2> QED
    BY <1>12, <2>1, WorkerMoves DEF Wake
<1> QED
  BY <1>1, <1>2, <1>3, <1>4, <1>5, <1>6, <1>7, <1>8, <1>9, <1>10, <1>11, <1>12
     DEF WorkerStep

(* The steps that leave the workers and the mutex alone.                   *)
Elsewhere ==
  \/ UNCHANGED vars
  \/ \E p \in Performers :
       \/ \E t \in Tasks : Perform(p, t) \/ PerformOnThread(p, t)
       \/ TestLazy(p) \/ TestWorkers(p) \/ Decline(p) \/ Count(p) \/ Push(p)
       \/ Notify(p)
  \/ Cancel \/ Stop \/ CancelNotify \/ Drain \/ Clear \/ Release
  \/ Update \/ WaitFor \/ Wait \/ Take \/ RunTask \/ Renotify \/ Load \/ Counter

(* They do leave them alone.                                               *)
LEMMA ElsewhereLeaves ==
  Elsewhere => UNCHANGED <<workers, mutex, wpc, wtask>>
BY DEF Elsewhere, vars, poolVars, Perform, PerformOnThread, TestLazy,
   TestWorkers, Decline, Count, Push, Notify, Cancel, Stop, CancelNotify, Drain,
   Clear, Release, Update, WaitFor, Wait, Take, RunTask, Renotify, Load, Counter,
   threads, queue, worker

(* A step is one of those, or one of these.                                *)
LEMMA StepSplit ==
  ASSUME [Next]_vars
  PROVE  \/ Elsewhere
         \/ \E p \in Performers : Spawn(p)
         \/ \E w \in Workers : WorkerStep(w) \/ Interrupted(w)
         \/ \E n \in Notifiers : NotifierStep(n)
         \/ Join
BY DEF Next, PerformerStep, OwnerCall, OwnerStep, CancelStep, Elsewhere

(* Spawn and join create and destroy all workers at once.                  *)
LEMMA WorkersPlaceInductive == IInv /\ [Next]_vars => WorkersPlace'
<1> SUFFICES ASSUME IInv, [Next]_vars PROVE WorkersPlace'
  OBVIOUS
<1>0. TypeOK /\ WorkersPlace
  BY DEF IInv
<1>a. mutex \in Workers \cup {None} /\ None \notin Workers /\ Workers # {}
  BY <1>0, PoolAssumption DEF TypeOK
<1>1. CASE Elsewhere
  BY <1>0, <1>1, ElsewhereLeaves DEF WorkersPlace
<1>2. ASSUME NEW p \in Performers, Spawn(p) PROVE WorkersPlace'
  <2>1. CASE workers = {}
    BY <1>0, <1>a, <1>2, <2>1 DEF Spawn, WorkersPlace, Inside, queue
  <2>2. CASE workers # {}
    BY <1>0, <1>2, <2>2 DEF Spawn, WorkersPlace, queue, threads
  <2> QED
    BY <2>1, <2>2
<1>3. CASE \E n \in Notifiers : NotifierStep(n)
  BY <1>0, <1>3, Notified DEF WorkersPlace, Inside
<1>4. CASE Join
  BY <1>0, <1>4 DEF Join, WorkersPlace, Inside, queue
<1>5. ASSUME NEW w \in Workers, WorkerStep(w) \/ Interrupted(w)
      PROVE  WorkersPlace'
  BY <1>0, <1>a, <1>5, WorkerEffect DEF WorkersPlace
<1> QED
  BY <1>1, <1>2, <1>3, <1>4, <1>5, StepSplit

(* Where a worker is neither in _wait nor about to call it.                *)
Free == {"none", "loop", "pop", "took", "deliver", "done", "lock", "check", "ended"}

(* How a worker moves while the condition stays as it is.                  *)
Ordinary(w) ==
  \/ wpc'[w] = wpc[w]
  \/ wpc[w] \in Free \cup {"test"} /\ wpc'[w] \in Free
  \/ wpc[w] = "check" /\ wpc'[w] = "test" /\ ~(tasksInQueue > 0)
  \/ wpc[w] = "test" /\ wpc'[w] = "capture" /\ ~finalized
  \/ wpc[w] = "capture" /\ wpc'[w] = "load"
  \/ wpc[w] = "wait" /\ wpc'[w] = IF value = start[w] THEN "asleep" ELSE "woken"
  \/ wpc[w] = "asleep" /\ wpc'[w] = "wait"

(* Workers move so but where they touch the condition, and are woken.      *)
LEMMA OrdinarySteps ==
  ASSUME TypeOK, WorkersPlace, [Next]_vars
  PROVE  \/ \A w \in Workers : Ordinary(w)
         \/ \E w \in Workers : LoadValue(w) \/ StorePrevious(w) \/ Wake(w)
         \/ \E n \in Notifiers : NotifierStep(n)
<1>1. CASE Elsewhere
  BY <1>1, ElsewhereLeaves DEF Ordinary
<1>2. CASE Join \/ \E p \in Performers : Spawn(p)
  BY <1>2 DEF Join, Spawn, WorkersPlace, Ordinary, Free
<1>3. ASSUME NEW w \in Workers, WorkerStep(w) \/ Interrupted(w),
             ~LoadValue(w), ~StorePrevious(w), ~Wake(w)
      PROVE  \A v \in Workers : Ordinary(v)
  <2>1. \A v \in Workers : v # w => wpc'[v] = wpc[v]
    BY <1>3, WorkerEffect
  <2>2. Ordinary(w)
    <3>1. CASE Loop(w) \/ PopTask(w) \/ Took(w) \/ Deliver(w) \/ Done(w) \/ LockQueue(w)
      BY <3>1, WorkerMoves DEF Loop, PopTask, Took, Deliver, Done, LockQueue,
         WorkerLocations, Ordinary, Free
    <3>2. CASE Check(w) \/ TestFinalized(w) \/ Capture(w)
      BY <3>2, WorkerMoves DEF Check, TestFinalized, Capture, WorkerLocations,
         Ordinary, Free
    <3>3. CASE FutexWait(w) \/ Interrupted(w)
      BY <3>3, WorkerMoves DEF FutexWait, Interrupted, WorkerLocations, Ordinary
    <3> QED
      BY <1>3, <3>1, <3>2, <3>3 DEF WorkerStep
  <2> QED
    BY <2>1, <2>2 DEF Ordinary
<1> QED
  BY <1>1, <1>2, <1>3, StepSplit

(* The accesses of _wait, worker by worker.                                *)
LEMMA WaitAccess ==
  ASSUME TypeOK, NEW w \in Workers
  PROVE  /\ LoadValue(w) =>
              /\ wpc[w] = "load" /\ wpc'[w] = "store" /\ start'[w] = value
              /\ \A v \in Workers \ {w} : wpc'[v] = wpc[v] /\ start'[v] = start[v]
              /\ UNCHANGED <<value, previous, notify, next, overtaken>>
         /\ StorePrevious(w) =>
              /\ wpc[w] = "store" /\ wpc'[w] = "wait" /\ previous' = start[w]
              /\ \A v \in Workers \ {w} : wpc'[v] = wpc[v]
              /\ UNCHANGED <<value, start, notify, next, overtaken>>
         /\ Wake(w) =>
              /\ wpc[w] = "woken" /\ wpc'[w] = "loop"
              /\ \A v \in Workers \ {w} : wpc'[v] = wpc[v] /\ start'[v] = start[v]
              /\ UNCHANGED <<value, previous, notify, next, overtaken>>
<1> USE DEF TypeOK, ConditionTypeOK, GotoW
<1>1. ASSUME LoadValue(w)
      PROVE  /\ wpc[w] = "load" /\ wpc'[w] = "store" /\ start'[w] = value
             /\ \A v \in Workers \ {w} : wpc'[v] = wpc[v] /\ start'[v] = start[v]
             /\ UNCHANGED <<value, previous, notify, next, overtaken>>
  BY <1>1 DEF LoadValue
<1>2. ASSUME StorePrevious(w)
      PROVE  /\ wpc[w] = "store" /\ wpc'[w] = "wait" /\ previous' = start[w]
             /\ \A v \in Workers \ {w} : wpc'[v] = wpc[v]
             /\ UNCHANGED <<value, start, notify, next, overtaken>>
  BY <1>2 DEF StorePrevious
<1>3. ASSUME Wake(w)
      PROVE  /\ wpc[w] = "woken" /\ wpc'[w] = "loop"
             /\ \A v \in Workers \ {w} : wpc'[v] = wpc[v] /\ start'[v] = start[v]
             /\ UNCHANGED <<value, previous, notify, next, overtaken>>
  BY <1>3 DEF Wake
<1> QED
  BY <1>1, <1>2, <1>3

(* The accesses of _signal, notification by notification.                  *)
LEMMA SignalAccess ==
  ASSUME TypeOK, NEW n \in Notifiers
  PROVE  /\ LoadPrevious(n) =>
              /\ notify[n] = "previous" /\ notify'[n] = "value"
              /\ next'[n] = 1 + previous
              /\ \A m \in Notifiers \ {n} :
                   notify'[m] = notify[m] /\ next'[m] = next[m]
              /\ UNCHANGED <<value, previous, start, overtaken, wpc>>
         /\ StoreValue(n) =>
              /\ notify[n] = "value" /\ notify'[n] = "wake"
              /\ value' = next[n] /\ (~overtaken' => ~overtaken /\ value <= value')
              /\ \A m \in Notifiers \ {n} :
                   notify'[m] = notify[m] /\ next'[m] = next[m]
              /\ UNCHANGED <<previous, start, wpc>>
         /\ FutexWake(n) =>
              /\ notify[n] = "wake" /\ notify'[n] = "none"
              /\ \A m \in Notifiers \ {n} : notify'[m] = notify[m]
              /\ UNCHANGED <<value, previous, start, next, overtaken>>
<1> USE DEF TypeOK, ConditionTypeOK
<1>1. ASSUME LoadPrevious(n)
      PROVE  /\ notify[n] = "previous" /\ notify'[n] = "value"
             /\ next'[n] = 1 + previous
             /\ \A m \in Notifiers \ {n} :
                  notify'[m] = notify[m] /\ next'[m] = next[m]
             /\ UNCHANGED <<value, previous, start, overtaken, wpc>>
  BY <1>1 DEF LoadPrevious, worker
<1>2. ASSUME StoreValue(n)
      PROVE  /\ notify[n] = "value" /\ notify'[n] = "wake"
             /\ value' = next[n] /\ (~overtaken' => ~overtaken /\ value <= value')
             /\ \A m \in Notifiers \ {n} :
                  notify'[m] = notify[m] /\ next'[m] = next[m]
             /\ UNCHANGED <<previous, start, wpc>>
  <2>1. ~overtaken' => ~overtaken /\ ~(next[n] < value)
    BY <1>2 DEF StoreValue
  <2>2. next[n] \in Nat /\ value \in Nat
    OBVIOUS
  <2>3. /\ notify[n] = "value" /\ notify'[n] = "wake" /\ value' = next[n]
        /\ \A m \in Notifiers \ {n} :
             notify'[m] = notify[m] /\ next'[m] = next[m]
        /\ UNCHANGED <<previous, start, wpc>>
    BY <1>2 DEF StoreValue, worker
  <2> QED
    BY <2>1, <2>2, <2>3
<1>3. ASSUME FutexWake(n)
      PROVE  /\ notify[n] = "wake" /\ notify'[n] = "none"
             /\ \A m \in Notifiers \ {n} : notify'[m] = notify[m]
             /\ UNCHANGED <<value, previous, start, next, overtaken>>
  BY <1>3 DEF FutexWake
<1> QED
  BY <1>1, <1>2, <1>3

(* The load of mutexid: with waiters the notification goes on.             *)
LEMMA SignalStart ==
  ASSUME TypeOK, [Next]_vars,
         CancelNotify \/ Renotify \/ \E p \in Performers : Notify(p)
  PROVE  /\ UNCHANGED <<value, previous, start, next, overtaken, wpc>>
         /\ \/ UNCHANGED <<notify, ppc>>
            \/ \E n \in Notifiers :
                 notify'[n] = IF Captured THEN "previous" ELSE "none"
<1>1. ASSUME NEW n \in Notifiers, Signal(n)
      PROVE  notify'[n] = IF Captured THEN "previous" ELSE "none"
  BY <1>1 DEF Signal, TypeOK, ConditionTypeOK
<1>2. Owner \in Notifiers /\ Performers \subseteq Notifiers
  BY DEF Notifiers
<1> QED
  BY <1>1, <1>2 DEF CancelNotify, Renotify, Notify, worker, performer

(* value and previous only grow, and no worker in _wait is ahead of them.  *)
LEMMA ConditionInductive == IInv /\ [Next]_vars => ConditionInv'
<1> SUFFICES ASSUME IInv, [Next]_vars, ~overtaken' PROVE ConditionInv'
  BY DEF ConditionInv
<1>0. TypeOK /\ WorkersPlace /\ ConditionInv
  BY DEF IInv
<1>n. /\ value \in Nat /\ previous \in Nat /\ \A w \in Workers : start[w] \in Nat
      /\ \A n \in Notifiers : next[n] \in Nat
  BY <1>0 DEF TypeOK, ConditionTypeOK
<1>1. CASE /\ UNCHANGED <<value, previous, start, overtaken>>
           /\ \A w \in Workers : Ordinary(w)
  BY <1>0, <1>1 DEF ConditionInv, Ordinary, Free, Waits
<1>2. ASSUME NEW w \in Workers, LoadValue(w) \/ StorePrevious(w) \/ Wake(w)
      PROVE  ConditionInv'
  <2>1. CASE LoadValue(w)
    BY <1>0, <1>n, <2>1, WaitAccess DEF ConditionInv, Waits
  <2>2. CASE StorePrevious(w)
    <3>1. \A v \in Workers : wpc[v] = "store" => v = w
      BY <1>0, <2>2 DEF StorePrevious, WorkersPlace, Inside
    <3> QED
      BY <1>0, <1>n, <2>2, <3>1, WaitAccess DEF ConditionInv, Waits
  <2>3. CASE Wake(w)
    BY <1>0, <2>3, WaitAccess DEF ConditionInv, Waits
  <2> QED
    BY <1>2, <2>1, <2>2, <2>3
<1>3. ASSUME NEW n \in Notifiers, NotifierStep(n) PROVE ConditionInv'
  <2>1. CASE LoadPrevious(n)
    BY <1>0, <2>1, SignalAccess DEF ConditionInv, Waits
  <2>2. CASE StoreValue(n)
    BY <1>0, <1>n, <2>2, SignalAccess DEF ConditionInv, Waits
  <2>3. CASE FutexWake(n)
    BY <1>0, <1>3, <2>3, SignalAccess, Notified DEF ConditionInv, Waits
  <2> QED
    BY <1>3, <2>1, <2>2, <2>3 DEF NotifierStep
<1>4. \/ UNCHANGED condition
      \/ CancelNotify \/ Renotify \/ \E p \in Performers : Notify(p)
      => UNCHANGED <<value, previous, start, overtaken>>
  BY <1>0, SignalStart DEF condition
<1> QED
  BY <1>0, <1>1, <1>2, <1>3, <1>4, ConditionSplit, OrdinarySteps

(* cancel waits for the workers when it has called notify_all.             *)
LEMMA JoinFirst ==
  ASSUME TypeOK, [Next]_vars, mpc' = "join"
  PROVE  mpc = "join" \/ CancelNotify
<1>1. CASE UNCHANGED vars
  BY <1>1 DEF vars, poolVars
<1>2. ASSUME NEW p \in Performers,
             \/ PerformerStep(p)
             \/ \E t \in Tasks : Perform(p, t) \/ PerformOnThread(p, t)
      PROVE  mpc = "join"
  BY <1>2 DEF PerformerStep, Perform, PerformOnThread, TestLazy, Spawn,
     TestWorkers, Decline, Count, Push, Notify, CompletePerform
<1>3. ASSUME NEW w \in Workers, WorkerStep(w) \/ Interrupted(w)
      PROVE  mpc = "join"
  BY <1>3 DEF WorkerStep, Loop, PopTask, Took, Deliver, Done, LockQueue, Check,
     TestFinalized, Capture, LoadValue, StorePrevious, FutexWait, Interrupted,
     Wake, CompletePerform
<1>4. CASE OwnerCall \/ OwnerStep
  BY <1>4 DEF OwnerCall, OwnerStep, CancelStep, Cancel, Stop, Join, Drain, Clear,
     Release, Update, WaitFor, Wait, Take, RunTask, Renotify, Load, Counter
<1>5. ASSUME NEW n \in Notifiers, NotifierStep(n) PROVE mpc = "join"
  BY <1>5, Notified
<1> QED
  BY <1>1, <1>2, <1>3, <1>4, <1>5 DEF Next

(* Workers that hold the mutex are one.                                    *)
LEMMA OneInside ==
  ASSUME WorkersPlace, NEW v \in Workers, NEW w \in Workers,
         wpc[v] \in Inside, wpc[w] \in Inside
  PROVE  v = w
BY DEF WorkersPlace

(* A worker that cancel's notification does not reach held the mutex as    *)
(* the notification loaded previous: the others have started from that     *)
(* value or less, and after finalized nobody else comes to wait.           *)
LEMMA MissedOneInductive == IInv /\ [Next]_vars => MissedOne'
<1> SUFFICES ASSUME IInv, [Next]_vars, mpc' = "join", ~overtaken'
             PROVE  \A v, w \in Workers : Remaining(v)' /\ Remaining(w)' => v = w
  BY DEF MissedOne
<1>0. TypeOK /\ WorkersPlace /\ ConditionInv /\ MissedOne /\ SweepInv
  BY DEF IInv
<1>a. mpc = "join" => finalized
  BY <1>0 DEF SweepInv, CancelLocations
<1>n. /\ value \in Nat /\ previous \in Nat /\ \A w \in Workers : start[w] \in Nat
      /\ \A n \in Notifiers : next[n] \in Nat
  BY <1>0 DEF TypeOK, ConditionTypeOK
<1>o. Owner \in Notifiers /\ \A p \in Performers : p \in Notifiers /\ p # Owner
  BY PoolAssumption DEF Notifiers
<1>k. ASSUME mpc = "join", ~overtaken,
             \A w \in Workers : Remaining(w)' => Remaining(w)
      PROVE  \A v, w \in Workers : Remaining(v)' /\ Remaining(w)' => v = w
  BY <1>0, <1>k DEF MissedOne
<1>i. ASSUME \A w \in Workers : Remaining(w)' => wpc[w] \in Inside
      PROVE  \A v, w \in Workers : Remaining(v)' /\ Remaining(w)' => v = w
  BY <1>0, <1>i, OneInside
<1>1. CASE /\ UNCHANGED condition /\ ~CancelNotify
           /\ \A w \in Workers : Ordinary(w)
  <2>1. mpc = "join" /\ ~overtaken
    BY <1>0, <1>1, JoinFirst DEF condition
  <2>2. ASSUME NEW w \in Workers, Remaining(w)' PROVE Remaining(w)
    BY <1>1, <1>a, <2>1, <2>2 DEF condition, Ordinary, Free, Remaining, Waits
  <2> QED
    BY <1>k, <2>1, <2>2
<1>2. CASE CancelNotify
  <2>1. /\ notify'[Owner] = IF Captured THEN "previous" ELSE "none"
        /\ UNCHANGED wpc
    BY <1>0, <1>o, <1>2 DEF CancelNotify, Signal, TypeOK, ConditionTypeOK, worker
  <2>2. ASSUME NEW w \in Workers, Remaining(w)' PROVE wpc[w] \in Inside
    BY <2>1, <2>2 DEF Remaining, Waits, Captured, Inside
  <2> QED
    BY <1>i, <2>2
<1>3. ASSUME NEW p \in Performers, Notify(p)
      PROVE  \A v, w \in Workers : Remaining(v)' /\ Remaining(w)' => v = w
  <2>1. /\ UNCHANGED <<value, start, next, overtaken, wpc, mpc>>
        /\ notify'[Owner] = notify[Owner]
    BY <1>0, <1>o, <1>3 DEF Notify, Signal, TypeOK, ConditionTypeOK, worker
  <2>2. ASSUME NEW w \in Workers, Remaining(w)' PROVE Remaining(w)
    BY <2>1, <2>2 DEF Remaining, Waits
  <2> QED
    BY <1>k, <2>1, <2>2
<1>4. CASE Renotify
  BY <1>4 DEF Renotify
<1>5. ASSUME NEW w \in Workers, LoadValue(w) \/ StorePrevious(w) \/ Wake(w)
      PROVE  \A u, v \in Workers : Remaining(u)' /\ Remaining(v)' => u = v
  <2>1. mpc = "join" /\ ~overtaken
    BY <1>0, <1>5, WaitAccess DEF LoadValue, StorePrevious, Wake
  <2>2. UNCHANGED <<value, notify, next>>
    BY <1>0, <1>5, WaitAccess
  <2>3. Remaining(w)' => Remaining(w)
    BY <1>0, <1>5, WaitAccess DEF Remaining, Waits
  <2>4. ASSUME NEW v \in Workers \ {w}, Remaining(v)' PROVE Remaining(v)
    <3>1. wpc'[v] = wpc[v] /\ start'[v] = start[v]
      BY <1>0, <1>5, WaitAccess
    <3> QED
      BY <2>2, <2>4, <3>1 DEF Remaining, Waits
  <2> QED
    BY <1>k, <2>1, <2>3, <2>4
<1>6. ASSUME NEW n \in Notifiers, NotifierStep(n)
      PROVE  \A v, w \in Workers : Remaining(v)' /\ Remaining(w)' => v = w
  <2>1. mpc = "join" /\ ~overtaken
    BY <1>0, <1>6, Notified, SignalAccess DEF NotifierStep
  <2>2. CASE LoadPrevious(n) /\ n = Owner
    <3>1. ASSUME NEW w \in Workers, Remaining(w)' PROVE wpc[w] \in Inside
      BY <1>0, <1>n, <2>1, <2>2, <3>1, SignalAccess
         DEF Remaining, Waits, Inside, ConditionInv
    <3> QED
      BY <1>i, <3>1
  <2>3. CASE LoadPrevious(n) /\ n # Owner
    <3>1. ASSUME NEW w \in Workers, Remaining(w)' PROVE Remaining(w)
      BY <1>0, <1>o, <2>3, <3>1, SignalAccess DEF Remaining, Waits
    <3> QED
      BY <1>k, <2>1, <3>1
  <2>4. CASE StoreValue(n)
    <3>1. ASSUME NEW w \in Workers, Remaining(w)' PROVE Remaining(w)
      BY <1>0, <1>n, <1>o, <2>1, <2>4, <3>1, SignalAccess
         DEF Remaining, Waits, ConditionInv
    <3> QED
      BY <1>k, <2>1, <3>1
  <2>5. CASE FutexWake(n)
    <3>1. n = Owner => \A w \in Workers : wpc'[w] # "asleep"
      BY <2>5 DEF FutexWake, Woken, Asleep
    <3>2. ASSUME NEW w \in Workers, Remaining(w)' PROVE Remaining(w)
      <4>1. wpc'[w] = wpc[w] \/ (wpc[w] = "asleep" /\ wpc'[w] = "wait")
        BY <1>0, <1>6, Notified
      <4>2. UNCHANGED <<value, start, next>>
        BY <1>0, <2>5, SignalAccess
      <4>3. \/ notify'[Owner] = notify[Owner]
            \/ n = Owner /\ notify[Owner] = "wake" /\ notify'[Owner] = "none"
        BY <1>0, <1>o, <2>5, SignalAccess
      <4> QED
        BY <3>1, <3>2, <4>1, <4>2, <4>3 DEF Remaining, Waits
    <3> QED
      BY <1>k, <2>1, <3>2
  <2> QED
    BY <1>6, <2>2, <2>3, <2>4, <2>5 DEF NotifierStep
<1> QED
  BY <1>0, <1>1, <1>2, <1>3, <1>4, <1>5, <1>6, ConditionSplit, OrdinarySteps

(* What a task in hand does to the set of tasks in hand: it is given to a  *)
(* thread that has none, or the thread lets it go.                         *)
LEMMA PerformerGets ==
  ASSUME TypeOK, NEW p \in Performers, NEW t \in Tasks, ptask[p] = None,
         ptask' = [ptask EXCEPT ![p] = t]
  PROVE  /\ InPerform' = InPerform \cup {t} /\ ptask'[p] = t
         /\ \A q \in Performers : q # p => ptask'[q] = ptask[q]
<1>1. ptask'[p] = t /\ \A q \in Performers : q # p => ptask'[q] = ptask[q]
  BY DEF TypeOK
<1>2. None \notin Tasks
  BY PoolAssumption
<1> QED
  BY <1>1, <1>2 DEF InPerform

(* A performer lets its task go.                                           *)
LEMMA PerformerGives ==
  ASSUME TypeOK, SingleHolder, NEW p \in Performers,
         ptask' = [ptask EXCEPT ![p] = None]
  PROVE  /\ InPerform' = InPerform \ {ptask[p]} /\ ptask'[p] = None
         /\ \A q \in Performers : q # p => ptask'[q] = ptask[q]
<1>1. ptask'[p] = None /\ \A q \in Performers : q # p => ptask'[q] = ptask[q]
  BY DEF TypeOK
<1> QED
  BY <1>1 DEF InPerform, SingleHolder

(* A worker without a task gets one.                                       *)
LEMMA WorkerGets ==
  ASSUME TypeOK, NEW w \in Workers, NEW t \in Tasks, wtask[w] = None,
         wtask' = [wtask EXCEPT ![w] = t]
  PROVE  /\ Taken' = Taken \cup {t} /\ wtask'[w] = t
         /\ \A v \in Workers : v # w => wtask'[v] = wtask[v]
<1>1. wtask'[w] = t /\ \A v \in Workers : v # w => wtask'[v] = wtask[v]
  BY DEF TypeOK
<1>2. None \notin Tasks
  BY PoolAssumption
<1> QED
  BY <1>1, <1>2 DEF Taken

(* A worker lets its task go.                                              *)
LEMMA WorkerGives ==
  ASSUME TypeOK, SingleHolder, NEW w \in Workers,
         wtask' = [wtask EXCEPT ![w] = None]
  PROVE  /\ Taken' = Taken \ {wtask[w]} /\ wtask'[w] = None
         /\ \A v \in Workers : v # w => wtask'[v] = wtask[v]
<1>1. wtask'[w] = None /\ \A v \in Workers : v # w => wtask'[v] = wtask[v]
  BY DEF TypeOK
<1> QED
  BY <1>1 DEF Taken, SingleHolder

(* The places of the tasks.                                                *)
places == <<inputQueue, output, stack, wtask, ptask, drained>>

(* The steps that move no task.                                            *)
Resting ==
  \/ UNCHANGED vars
  \/ \E p \in Performers :
       \/ TestLazy(p) \/ Spawn(p) \/ (TestWorkers(p) /\ workers # {})
       \/ Count(p) \/ Notify(p)
  \/ \E w \in Workers :
       \/ Loop(w) \/ (PopTask(w) /\ inputQueue = <<>>) \/ Took(w) \/ Done(w)
       \/ LockQueue(w) \/ Check(w) \/ TestFinalized(w) \/ Waiting(w)
  \/ Cancel \/ Stop \/ CancelNotify \/ Join \/ Drain \/ Release
  \/ Update \/ Renotify \/ Load \/ WaitFor \/ Counter \/ Wait
  \/ \E n \in Notifiers : NotifierStep(n)

(* The steps that do.                                                      *)
Moving ==
  \/ \E p \in Performers :
       \/ \E t \in Tasks :
            /\ Perform(p, t) \/ PerformOnThread(p, t)
            /\ t \notin Stacked /\ UNCHANGED stack
       \/ /\ (TestWorkers(p) /\ workers = {}) \/ Decline(p) \/ Push(p)
          /\ UNCHANGED stack
  \/ \E w \in Workers :
       /\ (PopTask(w) /\ inputQueue # <<>>) \/ Deliver(w)
       /\ UNCHANGED stack
  \/ Clear /\ UNCHANGED stack
  \/ Take \/ RunTask

(* Every step is of one of the two kinds.                                  *)
LEMMA PlaceSplit ==
  ASSUME [Next]_vars
  PROVE  (Resting /\ UNCHANGED places) \/ Moving
<1>1. CASE UNCHANGED vars
  BY <1>1 DEF Resting, vars, poolVars, places, queue, worker, performer,
     history
<1>2. ASSUME NEW p \in Performers, PerformerStep(p), UNCHANGED <<call, stack>>
      PROVE  (Resting /\ UNCHANGED places) \/ Moving
  BY <1>2 DEF PerformerStep, Resting, Moving, places, TestLazy, Spawn,
     TestWorkers,
     Count, Notify, queue, worker, performer, history
<1>3. ASSUME NEW w \in Workers, WorkerStep(w) \/ Interrupted(w),
             UNCHANGED <<call, stack>>
      PROVE  (Resting /\ UNCHANGED places) \/ Moving
  BY <1>3 DEF WorkerStep, Resting, Moving, places, Loop, PopTask, Took, Done,
     LockQueue, Check, TestFinalized, Waiting, Capture, LoadValue, StorePrevious, FutexWait,
       Interrupted, Wake, queue, worker, performer, history
<1>4. CASE (Cancel \/ CancelStep) /\ UNCHANGED <<call, stack>>
  BY <1>4 DEF CancelStep, Resting, Moving, places, Cancel, Stop,
     CancelNotify, Join,
     Drain, Release, queue, worker, performer, history
<1>5. CASE \/ Update \/ Renotify \/ Load \/ WaitFor \/ Counter \/ Wait
           \/ Take \/ RunTask
  BY <1>5 DEF Resting, Moving, places, Update, Renotify, Load, WaitFor,
     Counter,
     Wait, queue, worker, performer, history
<1>6. ASSUME NEW p \in Performers, NEW t \in Tasks,
             \/ /\ t \notin Range(stack) /\ Perform(p, t)
                /\ UNCHANGED <<call, stack>>
             \/ PerformOnThread(p, t)
      PROVE  Moving
  BY <1>6 DEF Moving, PerformOnThread, Stacked
<1>7. ASSUME NEW n \in Notifiers, NotifierStep(n), UNCHANGED <<call, stack>>
      PROVE  Resting /\ UNCHANGED places
  BY <1>7 DEF Resting, places, NotifierStep, LoadPrevious, StoreValue,
     FutexWake, worker, performer, history
<1> QED
  BY <1>1, <1>2, <1>3, <1>4, <1>5, <1>6, <1>7 DEF Next, OwnerCall, OwnerStep

(* What the places look like after each of the moves.                      *)
LEMMA Placed ==
  ASSUME TypeOK
  PROVE  /\ inputQueue \in Seq(Tasks) /\ output \in Seq(Tasks) /\ stack \in Seq(Tasks)
         /\ None \notin Tasks /\ None \notin InPerform /\ None \notin Taken
         /\ InPerform \subseteq Tasks /\ Taken \subseteq Tasks /\ drained \subseteq Tasks
         /\ Queued \subseteq Tasks /\ Delivered \subseteq Tasks /\ Stacked \subseteq Tasks
         /\ \A p \in Performers : ptask[p] \in InPerform \cup {None}
         /\ \A w \in Workers : wtask[w] \in Taken \cup {None}
BY PoolAssumption
   DEF TypeOK, InPerform, Taken, Queued, Delivered, Stacked, Range

(* Nothing is in an empty queue.                                           *)
LEMMA NothingPlaced == Range(<<>>) = {} /\ Injective(<<>>)
BY DEF Range, Injective

(* perform and performOnThread take a task that is nowhere.                *)
LEMMA PerformMoves ==
  ASSUME TypeOK, HoldsTask, TaskStates, NEW p \in Performers, NEW t \in Tasks,
         Perform(p, t) \/ PerformOnThread(p, t), t \notin Stacked, UNCHANGED stack
  PROVE  /\ state[t] = "Initial"
         /\ t \notin Queued \cup Delivered \cup Stacked \cup Taken
                        \cup InPerform \cup drained
         /\ UNCHANGED <<inputQueue, output, wtask, drained>>
         /\ UNCHANGED <<Queued, Delivered, Stacked, Taken>>
         /\ InPerform' = InPerform \cup {t} /\ ptask'[p] = t
         /\ \A q \in Performers : q # p => ptask'[q] = ptask[q]
<1>1. /\ ptask[p] = None /\ ptask' = [ptask EXCEPT ![p] = t] /\ Fresh(t)
      /\ UNCHANGED <<inputQueue, output, wtask, drained>>
  BY DEF Perform, PerformOnThread, HoldsTask, queue, worker, history
<1>2. /\ t \notin Queued /\ t \notin Taken /\ t \notin drained
      /\ t \notin Delivered /\ t \notin InPerform /\ state[t] = "Initial"
  BY <1>1 DEF TaskStates, Fresh, Delivered, InPerform
<1>3. /\ InPerform' = InPerform \cup {t} /\ ptask'[p] = t
      /\ \A q \in Performers : q # p => ptask'[q] = ptask[q]
  BY <1>1, PerformerGets
<1>4. UNCHANGED <<Queued, Delivered, Stacked, Taken>>
  BY <1>1 DEF Queued, Delivered, Stacked, Taken
<1> QED
  BY <1>1, <1>2, <1>3, <1>4

(* perform without workers gives the task back.                            *)
LEMMA ReturnMoves ==
  ASSUME TypeOK, SingleHolder, NEW p \in Performers,
         TestWorkers(p), workers = {}, UNCHANGED stack
  PROVE  /\ UNCHANGED <<inputQueue, output, wtask, drained, state>>
         /\ UNCHANGED <<Queued, Delivered, Stacked, Taken>>
         /\ InPerform' = InPerform \ {ptask[p]} /\ ptask'[p] = None
         /\ \A q \in Performers : q # p => ptask'[q] = ptask[q]
<1>1. /\ ptask' = [ptask EXCEPT ![p] = None]
      /\ UNCHANGED <<inputQueue, output, wtask, drained, state>>
  BY DEF TestWorkers, Return, queue, worker, history
<1>2. /\ InPerform' = InPerform \ {ptask[p]} /\ ptask'[p] = None
      /\ \A q \in Performers : q # p => ptask'[q] = ptask[q]
  BY <1>1, PerformerGives
<1>3. UNCHANGED <<Queued, Delivered, Stacked, Taken>>
  BY <1>1 DEF Queued, Delivered, Stacked, Taken
<1> QED
  BY <1>1, <1>2, <1>3

(* A refused task goes to the output, or the call crashes.                 *)
LEMMA DeclineMoves ==
  ASSUME TypeOK, HoldsTask, SingleHolder, NEW p \in Performers,
         Decline(p), UNCHANGED stack
  PROVE  /\ ptask[p] \in Tasks /\ ptask[p] \in InPerform
         /\ Injective(output') /\ UNCHANGED <<inputQueue, wtask, drained>>
         /\ \/ complete /\ Delivered' = Delivered \cup {ptask[p]} /\ UNCHANGED crashed
            \/ ~complete /\ Delivered' = Delivered /\ crashed'
         /\ UNCHANGED <<Queued, Stacked, Taken>>
         /\ InPerform' = InPerform \ {ptask[p]} /\ ptask'[p] = None
         /\ \A q \in Performers : q # p => ptask'[q] = ptask[q]
<1>1. /\ ptask[p] \in Tasks /\ ptask[p] \in InPerform
      /\ ptask' = [ptask EXCEPT ![p] = None]
      /\ UNCHANGED <<inputQueue, wtask, drained>>
  BY Placed DEF Decline, Return, HoldsTask, queue, worker
<1>2. ptask[p] \notin Delivered
  BY <1>1 DEF SingleHolder
<1>3. \/ complete /\ output' = Append(output, ptask[p]) /\ UNCHANGED crashed
      \/ ~complete /\ output' = output /\ crashed'
  BY DEF Decline, CompletePerform
<1>4. /\ Injective(output')
      /\ \/ complete /\ Delivered' = Delivered \cup {ptask[p]} /\ UNCHANGED crashed
         \/ ~complete /\ Delivered' = Delivered /\ crashed'
  <2>1. /\ Range(Append(output, ptask[p])) = Delivered \cup {ptask[p]}
        /\ Injective(Append(output, ptask[p])) /\ Injective(output)
    BY <1>1, <1>2, Placed, AppendRange DEF Delivered, SingleHolder
  <2> QED
    BY <1>3, <2>1 DEF Delivered
<1>5. /\ InPerform' = InPerform \ {ptask[p]} /\ ptask'[p] = None
      /\ \A q \in Performers : q # p => ptask'[q] = ptask[q]
  BY <1>1, PerformerGives
<1>6. UNCHANGED <<Queued, Stacked, Taken>>
  BY <1>1 DEF Queued, Stacked, Taken
<1> QED
  BY <1>1, <1>4, <1>5, <1>6

(* push hands the task over to the queue.                                  *)
LEMMA PushMoves ==
  ASSUME TypeOK, HoldsTask, SingleHolder, NEW p \in Performers,
         Push(p), UNCHANGED stack
  PROVE  /\ ptask[p] \in Tasks /\ ptask[p] \in InPerform
         /\ Injective(inputQueue') /\ Len(inputQueue') = Len(inputQueue) + 1
         /\ UNCHANGED <<output, wtask, drained>>
         /\ UNCHANGED <<Delivered, Stacked, Taken>>
         /\ Queued' = Queued \cup {ptask[p]}
         /\ InPerform' = InPerform \ {ptask[p]} /\ ptask'[p] = None
         /\ \A q \in Performers : q # p => ptask'[q] = ptask[q]
<1>1. /\ ptask[p] \in Tasks /\ ptask[p] \in InPerform
      /\ ptask' = [ptask EXCEPT ![p] = None]
      /\ \E first \in BOOLEAN :
            inputQueue' = PushNode(inputQueue, ptask[p], first)
      /\ UNCHANGED <<output, wtask, drained>>
  BY Placed DEF Push, HoldsTask, worker, history
<1>2. ptask[p] \notin Queued /\ Injective(inputQueue)
  BY <1>1 DEF SingleHolder
<1>3. /\ Queued' = Queued \cup {ptask[p]} /\ Injective(inputQueue')
      /\ Len(inputQueue') = Len(inputQueue) + 1
  <2>1. PICK first \in BOOLEAN :
          inputQueue' = PushNode(inputQueue, ptask[p], first)
    BY <1>1
  <2>2. inputQueue \in Seq(Tasks)
    BY Placed
  <2> QED
    BY <1>1, <1>2, <2>1, <2>2, PushRange DEF Queued
<1>4. /\ InPerform' = InPerform \ {ptask[p]} /\ ptask'[p] = None
      /\ \A q \in Performers : q # p => ptask'[q] = ptask[q]
  BY <1>1, PerformerGives
<1>5. UNCHANGED <<Delivered, Stacked, Taken>>
  BY <1>1 DEF Delivered, Stacked, Taken
<1> QED
  BY <1>1, <1>3, <1>4, <1>5

(* popTask hands the first task of the queue to the worker.                *)
LEMMA PopMoves ==
  ASSUME TypeOK, HoldsTask, SingleHolder, NEW w \in Workers,
         PopTask(w), inputQueue # <<>>, UNCHANGED stack
  PROVE  /\ Head(inputQueue) \in Queued /\ Injective(inputQueue')
         /\ Len(inputQueue') = Len(inputQueue) - 1
         /\ Queued' = Queued \ {Head(inputQueue)}
         /\ UNCHANGED <<output, ptask, drained>>
         /\ UNCHANGED <<Delivered, Stacked, InPerform>>
         /\ Taken' = Taken \cup {Head(inputQueue)} /\ wtask'[w] = Head(inputQueue)
         /\ \A v \in Workers : v # w => wtask'[v] = wtask[v]
<1> DEFINE t == Head(inputQueue)
<1>1. /\ wtask[w] = None /\ wtask' = [wtask EXCEPT ![w] = t]
      /\ inputQueue' = Tail(inputQueue)
      /\ UNCHANGED <<output, ptask, drained>>
  BY DEF PopTask, HoldsTask, performer, history
<1>2. /\ t \in Tasks /\ t \in Queued /\ Len(inputQueue') = Len(inputQueue) - 1
      /\ Injective(inputQueue') /\ Queued' = Queued \ {t}
  BY <1>1, Placed, TailRange DEF Queued, SingleHolder
<1> HIDE DEF t
<1>3. /\ Taken' = Taken \cup {t} /\ wtask'[w] = t
      /\ \A v \in Workers : v # w => wtask'[v] = wtask[v]
  BY <1>1, <1>2, WorkerGets
<1>4. UNCHANGED <<Delivered, Stacked, InPerform>>
  BY <1>1 DEF Delivered, Stacked, InPerform
<1> QED
  BY <1>1, <1>2, <1>3, <1>4 DEF t

(* A task that was executed goes to the output, or the call crashes.       *)
LEMMA DeliverMoves ==
  ASSUME TypeOK, HoldsTask, SingleHolder, NEW w \in Workers,
         Deliver(w), UNCHANGED stack
  PROVE  /\ wtask[w] \in Tasks /\ wtask[w] \in Taken
         /\ Injective(output') /\ UNCHANGED <<inputQueue, ptask, drained>>
         /\ \/ complete /\ Delivered' = Delivered \cup {wtask[w]} /\ UNCHANGED crashed
            \/ ~complete /\ Delivered' = Delivered /\ crashed'
         /\ UNCHANGED <<Queued, Stacked, InPerform>>
         /\ Taken' = Taken \ {wtask[w]} /\ wtask'[w] = None
         /\ \A v \in Workers : v # w => wtask'[v] = wtask[v]
<1>1. /\ wtask[w] \in Tasks /\ wtask[w] \in Taken
      /\ wtask' = [wtask EXCEPT ![w] = None]
      /\ UNCHANGED <<inputQueue, ptask, drained>>
  BY Placed DEF Deliver, HoldsTask, queue, performer
<1>2. wtask[w] \notin Delivered
  BY <1>1 DEF SingleHolder
<1>3. \/ complete /\ output' = Append(output, wtask[w]) /\ UNCHANGED crashed
      \/ ~complete /\ output' = output /\ crashed'
  BY DEF Deliver, CompletePerform
<1>4. /\ Injective(output')
      /\ \/ complete /\ Delivered' = Delivered \cup {wtask[w]} /\ UNCHANGED crashed
         \/ ~complete /\ Delivered' = Delivered /\ crashed'
  <2>1. /\ Range(Append(output, wtask[w])) = Delivered \cup {wtask[w]}
        /\ Injective(Append(output, wtask[w])) /\ Injective(output)
    BY <1>1, <1>2, Placed, AppendRange DEF Delivered, SingleHolder
  <2> QED
    BY <1>3, <2>1 DEF Delivered
<1>5. /\ Taken' = Taken \ {wtask[w]} /\ wtask'[w] = None
      /\ \A v \in Workers : v # w => wtask'[v] = wtask[v]
  BY <1>1, WorkerGives
<1>6. UNCHANGED <<Queued, Stacked, InPerform>>
  BY <1>1 DEF Queued, Stacked, InPerform
<1> QED
  BY <1>1, <1>4, <1>5, <1>6

(* cancel clears the queue, and update moves the output to its stack and   *)
(* runs the tasks from there.                                              *)
LEMMA OwnerMoves ==
  ASSUME TypeOK, HoldsTask, SingleHolder, UNCHANGED <<wtask, ptask>>
  PROVE  /\ UNCHANGED <<Taken, InPerform>>
         /\ Clear /\ UNCHANGED stack =>
              /\ Queued' = {} /\ Injective(inputQueue') /\ inputQueue' = <<>>
              /\ drained' = drained \cup Queued
              /\ UNCHANGED <<output, stack, Delivered, Stacked>>
         /\ Take =>
              /\ Stacked = {} /\ Stacked' = Delivered /\ Delivered' = {}
              /\ Injective(stack') /\ Injective(output')
              /\ UNCHANGED <<inputQueue, drained, Queued>>
         /\ RunTask =>
              /\ Head(stack) \in Stacked /\ Stacked' = Stacked \ {Head(stack)}
              /\ Injective(stack')
              /\ UNCHANGED <<inputQueue, output, drained, Queued, Delivered>>
<1>1. UNCHANGED <<Taken, InPerform>>
  BY DEF Taken, InPerform
<1>2. ASSUME Clear, UNCHANGED stack
      PROVE  /\ Queued' = {} /\ Injective(inputQueue') /\ inputQueue' = <<>>
             /\ drained' = drained \cup Queued
             /\ UNCHANGED <<output, stack, Delivered, Stacked>>
  BY <1>2, NothingPlaced DEF Clear, Queued, Delivered, Stacked
<1>3. ASSUME Take
      PROVE  /\ Stacked = {} /\ Stacked' = Delivered /\ Delivered' = {}
             /\ Injective(stack') /\ Injective(output')
             /\ UNCHANGED <<inputQueue, drained, Queued>>
  <2>1. /\ stack = <<>> /\ stack' = output /\ output' = <<>>
        /\ UNCHANGED <<inputQueue, drained>>
    BY <1>3 DEF Take, HoldsTask, queue, history
  <2> QED
    BY <2>1, NothingPlaced DEF Queued, Delivered, Stacked, SingleHolder
<1>4. ASSUME RunTask
      PROVE  /\ Head(stack) \in Stacked /\ Stacked' = Stacked \ {Head(stack)}
             /\ Injective(stack')
             /\ UNCHANGED <<inputQueue, output, drained, Queued, Delivered>>
  <2>1. /\ stack # <<>> /\ stack' = Tail(stack)
        /\ UNCHANGED <<inputQueue, output, drained>>
    BY <1>4 DEF RunTask, queue, history
  <2>2. /\ Head(stack) \in Stacked /\ Stacked' = Stacked \ {Head(stack)}
        /\ Injective(stack')
    BY <2>1, Placed, TailRange DEF Stacked, SingleHolder
  <2> QED
    BY <2>1, <2>2 DEF Queued, Delivered
<1> QED
  BY <1>1, <1>2, <1>3, <1>4

(* No step has two places for a task.                                      *)
LEMMA SingleHolderInductive == IInv /\ [Next]_vars => SingleHolder'
<1> SUFFICES ASSUME IInv, [Next]_vars PROVE SingleHolder'
  OBVIOUS
<1>0. TypeOK /\ HoldsTask /\ SingleHolder /\ TaskStates
  BY DEF IInv
<1>1. CASE UNCHANGED places
  BY <1>0, <1>1 DEF SingleHolder, places, Queued, Delivered, Stacked, Taken,
     InPerform
<1>2. ASSUME NEW p \in Performers, NEW t \in Tasks,
             Perform(p, t) \/ PerformOnThread(p, t),
             t \notin Stacked, UNCHANGED stack
      PROVE  SingleHolder'
  <2>1. \A q \in Performers : ptask[q] # t
    BY <1>0, <1>2, Placed, PerformMoves
  <2> QED
    BY <1>0, <1>2, <2>1, PerformMoves DEF SingleHolder
<1>3. ASSUME NEW p \in Performers, TestWorkers(p), workers = {}, UNCHANGED stack
      PROVE  SingleHolder'
  BY <1>0, <1>3, ReturnMoves DEF SingleHolder
<1>4. ASSUME NEW p \in Performers, Decline(p), UNCHANGED stack
      PROVE  SingleHolder'
  BY <1>0, <1>4, DeclineMoves DEF SingleHolder
<1>5. ASSUME NEW p \in Performers, Push(p), UNCHANGED stack
      PROVE  SingleHolder'
  BY <1>0, <1>5, PushMoves DEF SingleHolder
<1>6. ASSUME NEW w \in Workers, PopTask(w), inputQueue # <<>>, UNCHANGED stack
      PROVE  SingleHolder'
  <2>1. \A v \in Workers : wtask[v] # Head(inputQueue)
    BY <1>0, <1>6, Placed, PopMoves DEF SingleHolder
  <2> QED
    BY <1>0, <1>6, <2>1, PopMoves DEF SingleHolder
<1>7. ASSUME NEW w \in Workers, Deliver(w), UNCHANGED stack
      PROVE  SingleHolder'
  BY <1>0, <1>7, DeliverMoves DEF SingleHolder
<1>8. CASE (Clear /\ UNCHANGED stack) \/ Take \/ RunTask
  <2>1. UNCHANGED <<wtask, ptask>>
    BY <1>8 DEF Clear, Take, RunTask, worker, performer
  <2> QED
    BY <1>0, <1>8, <2>1, OwnerMoves DEF SingleHolder
<1> QED
  BY <1>1, <1>2, <1>3, <1>4, <1>5, <1>6, <1>7, <1>8, PlaceSplit DEF Moving

(* The threads have their tasks where HoldsTask says.                      *)
LEMMA HoldsTaskInductive == IInv /\ [Next]_vars => HoldsTask'
<1> SUFFICES ASSUME IInv, [Next]_vars PROVE HoldsTask'
  OBVIOUS
<1>0. TypeOK /\ WorkersPlace /\ HoldsTask /\ SingleHolder
  BY DEF IInv
<1>n. /\ None \notin Tasks /\ \A w \in Workers : wpc[w] \in WorkerLocations
      /\ Workers # {} /\ (workers = {} \/ workers = Workers)
  BY <1>0, PoolAssumption DEF TypeOK
<1>1. \A w \in Workers : wtask'[w] # None <=> wpc'[w] \in {"took", "deliver"}
  <2>1. CASE Elsewhere
    BY <1>0, <2>1, ElsewhereLeaves DEF HoldsTask
  <2>2. CASE \E n \in Notifiers : NotifierStep(n)
    BY <1>0, <2>2, Notified DEF HoldsTask
  <2>3. CASE (\E p \in Performers : Spawn(p)) \/ Join
    <3>1. UNCHANGED <<wpc, wtask>> \/ (\A w \in Workers : wpc[w] = "none") \/ Join
      BY <1>0, <2>3 DEF Spawn, WorkersPlace
    <3>2. CASE UNCHANGED <<wpc, wtask>>
      BY <1>0, <3>2 DEF HoldsTask
    <3>3. CASE (\A w \in Workers : wpc[w] = "none") \/ Join
      <4>1. /\ UNCHANGED wtask
            /\ \A w \in Workers : wpc[w] \in {"none", "ended"}
            /\ \/ UNCHANGED wpc
               \/ \A w \in Workers : wpc'[w] \in {"none", "loop"}
        BY <2>3, <3>3 DEF Spawn, Join
      <4> QED
        BY <1>0, <4>1 DEF HoldsTask
    <3> QED
      BY <3>1, <3>2, <3>3
  <2>4. ASSUME NEW w \in Workers,
               \/ Loop(w) \/ (PopTask(w) /\ inputQueue = <<>>) \/ Took(w)
               \/ Done(w) \/ LockQueue(w) \/ Check(w) \/ TestFinalized(w)
               \/ Waiting(w)
        PROVE  \A v \in Workers : wtask'[v] # None <=> wpc'[v] \in {"took", "deliver"}
    <3>1. (WorkerStep(w) \/ Interrupted(w)) /\ UNCHANGED wtask
      BY <2>4 DEF WorkerStep, Loop, PopTask, Took, Done, LockQueue, Check,
         TestFinalized, Waiting, Capture, LoadValue, StorePrevious, FutexWait,
       Interrupted, Wake
    <3>2. wpc[w] \in {"took", "deliver"} <=> wpc'[w] \in {"took", "deliver"}
      BY <1>0, <2>4, WorkerMoves DEF Loop, PopTask, Took, Done,
         LockQueue, Check,
         TestFinalized, Waiting, Capture, LoadValue, StorePrevious, FutexWait,
       Interrupted, Wake, WorkerLocations
    <3> QED
      BY <1>0, <3>1, <3>2, WorkerEffect DEF HoldsTask
  <2>5. ASSUME NEW w \in Workers, PopTask(w), inputQueue # <<>>, UNCHANGED stack
        PROVE  \A v \in Workers : wtask'[v] # None <=> wpc'[v] \in {"took", "deliver"}
    <3>1. /\ wpc'[w] = "took"
          /\ \A v \in Workers : v # w => wpc'[v] = wpc[v]
      BY <1>0, <2>5, WorkerMoves DEF PopTask, WorkerLocations
    <3>2. wtask'[w] # None
      BY <1>0, <1>n, <2>5, Placed, PopMoves
    <3> QED
      BY <1>0, <2>5, <3>1, <3>2, PopMoves DEF HoldsTask
  <2>6. ASSUME NEW w \in Workers, Deliver(w), UNCHANGED stack
        PROVE  \A v \in Workers : wtask'[v] # None <=> wpc'[v] \in {"took", "deliver"}
    <3>1. /\ wpc'[w] = "done"
          /\ \A v \in Workers : v # w => wpc'[v] = wpc[v]
      BY <1>0, <2>6, WorkerMoves DEF Deliver, WorkerLocations
    <3> QED
      BY <1>0, <2>6, <3>1, DeliverMoves DEF HoldsTask
  <2>7. ASSUME NEW w \in Workers, WorkerStep(w), ~Elsewhere
        PROVE  UNCHANGED stack
    BY <2>7 DEF WorkerStep, Next, PerformerStep, OwnerCall, OwnerStep,
       CancelStep, Elsewhere, Spawn
  <2> QED
    BY <2>1, <2>2, <2>3, <2>4, <2>5, <2>6, <2>7, StepSplit
       DEF WorkerStep, Waiting
<1>2. \A p \in Performers : ptask'[p] # None <=> ppc'[p] \notin {"idle", "notify"}
  <2>1. ASSUME NEW p \in Performers, NEW t \in Tasks,
               Perform(p, t) \/ PerformOnThread(p, t)
        PROVE  \A q \in Performers :
                 ptask'[q] # None <=> ppc'[q] \notin {"idle", "notify"}
    <3>1. ptask' = [ptask EXCEPT ![p] = t] /\ ppc'[p] \in {"lazy", "decline"}
      BY <1>0, <2>1, PerformerMoves DEF Perform, PerformOnThread,
         PerformerLocations
    <3>2. ptask'[p] = t /\ \A q \in Performers : q # p => ptask'[q] = ptask[q]
      BY <1>0, <3>1 DEF TypeOK
    <3>3. \A q \in Performers : q # p => ppc'[q] = ppc[q]
      BY <1>0, <2>1, PerformerMoves DEF Perform, PerformOnThread,
         PerformerLocations
    <3> QED
      BY <1>0, <1>n, <3>1, <3>2, <3>3 DEF HoldsTask
  <2>2. ASSUME NEW p \in Performers, PerformerStep(p)
        PROVE  \A q \in Performers :
                 ptask'[q] # None <=> ppc'[q] \notin {"idle", "notify"}
    <3>1. CASE \/ TestLazy(p) \/ Spawn(p) \/ (TestWorkers(p) /\ workers # {})
               \/ Count(p) \/ Notify(p)
      <4>1. /\ UNCHANGED ptask
            /\ ppc[p] \in {"idle", "notify"} <=> ppc'[p] \in {"idle", "notify"}
            /\ \A q \in Performers : q # p => ppc'[q] = ppc[q]
        BY <1>0, <3>1, PerformerMoves DEF TestLazy, Spawn, TestWorkers, Count,
           Notify, PerformerLocations
      <4> QED
        BY <1>0, <4>1 DEF HoldsTask
    <3>2. CASE (TestWorkers(p) /\ workers = {}) \/ Decline(p) \/ Push(p)
      <4>1. /\ ptask' = [ptask EXCEPT ![p] = None]
            /\ ppc'[p] \in {"idle", "notify"}
            /\ \A q \in Performers : q # p => ppc'[q] = ppc[q]
        BY <1>0, <3>2, PerformerMoves DEF TestWorkers, Decline, Push, Return,
           PerformerLocations
      <4>2. ptask'[p] = None /\ \A q \in Performers : q # p => ptask'[q] = ptask[q]
        BY <1>0, <4>1 DEF TypeOK
      <4> QED
        BY <1>0, <4>1, <4>2 DEF HoldsTask
    <3> QED
      BY <2>2, <3>1, <3>2 DEF PerformerStep
  <2>3. CASE UNCHANGED performer
    BY <1>0, <2>3 DEF HoldsTask, performer
  <2>4. \/ \E p \in Performers :
             \/ \E t \in Tasks : Perform(p, t) \/ PerformOnThread(p, t)
             \/ PerformerStep(p)
        \/ UNCHANGED performer
    BY DEF Next, WorkerStep, OwnerCall, OwnerStep, CancelStep, vars, poolVars,
       NotifierStep, LoadPrevious, StoreValue, FutexWake,
       Loop, PopTask,
       Took, Deliver, Done, LockQueue, Check, TestFinalized, Waiting, Capture, LoadValue, StorePrevious, FutexWait,
       Interrupted, Wake, Cancel,
       Stop, CancelNotify, Join, Drain, Clear, Release, Update, WaitFor, Wait,
       Take, RunTask, Renotify, Load, Counter
  <2> QED
    BY <2>1, <2>2, <2>3, <2>4
<1>3. mpc' # "run" => stack' = <<>>
  <2>1. \/ UNCHANGED stack /\ (mpc = "run" => mpc' = "run")
        \/ UNCHANGED stack /\ stack = <<>>
        \/ mpc' = "run"
    BY <1>0 DEF Next, PerformerStep, WorkerStep, OwnerCall, OwnerStep, CancelStep,
       vars, NotifierStep, LoadPrevious, StoreValue, FutexWake,
       poolVars, Perform, PerformOnThread, TestLazy, Spawn, TestWorkers, Decline,
       Count, Push, Notify, Loop, PopTask, Took, Deliver, Done, LockQueue, Check,
       TestFinalized, Waiting, Capture, LoadValue, StorePrevious, FutexWait,
       Interrupted, Wake, Cancel, Stop, CancelNotify, Join, Drain, Clear,
       Release, Update, WaitFor, Wait, Take, RunTask, Renotify, Load, Counter,
       CompletePerform, HoldsTask
  <2> QED
    BY <1>0, <2>1 DEF HoldsTask
<1> QED
  BY <1>1, <1>2, <1>3 DEF HoldsTask

(* Behind the sweep of cancel no call of perform begins; those that are    *)
(* not over are late, and only they can start workers or fill the queue.   *)
LEMMA SweepInductive == IInv /\ [Next]_vars => SweepInv'
<1> SUFFICES ASSUME IInv, [Next]_vars PROVE SweepInv'
  OBVIOUS
<1>0. TypeOK /\ WorkersPlace /\ HoldsTask /\ SingleHolder /\ TaskStates /\ SweepInv
  BY DEF IInv
<1> USE DEF flags, threads, queue, performer, history, CancelLocations
<1>p. ASSUME NEW p \in Performers, PerformerStep(p), Swept, late = {}
      PROVE  ppc[p] = "notify"
  <2>1. ptask[p] = None
    BY <1>0, <1>p, Placed DEF SweepInv
  <2>2. ppc[p] \in {"idle", "notify"}
    BY <1>0, <2>1 DEF HoldsTask
  <2> QED
    BY <1>p, <2>2 DEF PerformerStep, TestLazy, Spawn, TestWorkers,
       Decline, Count,
       Push, Notify
<1>1. CASE UNCHANGED vars
  BY <1>0, <1>1 DEF SweepInv, Swept, vars, poolVars, InPerform
<1>2. ASSUME NEW p \in Performers, NEW t \in Tasks,
             Perform(p, t) \/ PerformOnThread(p, t)
      PROVE  SweepInv'
  <2>1. ~finalized /\ UNCHANGED <<finalized, complete, mpc>>
    BY <1>2 DEF Perform, PerformOnThread
  <2> QED
    BY <1>0, <2>1 DEF SweepInv, Swept
<1>3. ASSUME NEW p \in Performers, PerformerStep(p) PROVE SweepInv'
  <2>1. /\ UNCHANGED <<finalized, complete, late>>
        /\ mpc' = mpc \/ (mpc = "wait" /\ mpc' = "relock")
    BY <1>3 DEF PerformerStep, TestLazy, Spawn, TestWorkers, Decline,
       Count, Push,
       Notify, CompletePerform
  <2>2. InPerform' \subseteq InPerform
    <3>1. UNCHANGED ptask \/ ptask' = [ptask EXCEPT ![p] = None]
      BY <1>3 DEF PerformerStep, TestLazy, Spawn, TestWorkers,
         Decline, Count, Push,
         Notify, Return
    <3>2. CASE UNCHANGED ptask
      BY <3>2 DEF InPerform
    <3> QED
      BY <1>0, <3>1, <3>2, PerformerGives
  <2>3. ASSUME Swept, late = {} PROVE UNCHANGED <<workers, inputQueue>>
    BY <1>3, <1>p, <2>3 DEF PerformerStep, TestLazy, Spawn, TestWorkers,
       Decline,
       Count, Push, Notify
  <2> QED
    BY <1>0, <2>1, <2>2, <2>3 DEF SweepInv, Swept
<1>4. ASSUME NEW w \in Workers, WorkerStep(w) \/ Interrupted(w)
      PROVE  SweepInv'
  <2>1. /\ UNCHANGED <<finalized, complete, late, workers, ptask>> /\ workers # {}
        /\ mpc' = mpc \/ (mpc = "wait" /\ mpc' = "relock")
    <3>1. mpc' = mpc \/ (mpc = "wait" /\ mpc' = "relock")
      BY <1>4 DEF WorkerStep, Loop, PopTask, Took, Deliver, Done,
         LockQueue, Check,
         TestFinalized, Waiting, Capture, LoadValue, StorePrevious, FutexWait,
       Interrupted, Wake, CompletePerform
    <3> QED
      BY <1>0, <1>4, <3>1, WorkerEffect DEF WorkersPlace
  <2>2. UNCHANGED InPerform
    BY <2>1 DEF InPerform
  <2> QED
    BY <1>0, <2>1, <2>2 DEF SweepInv, Swept
<1>5. CASE Cancel
  <2>1. /\ finalized' /\ mpc' = "stop"
        /\ UNCHANGED <<complete, late, workers, inputQueue, ptask>>
    BY <1>5 DEF Cancel
  <2> QED
    BY <1>0, <2>1 DEF SweepInv, Swept, InPerform
<1>6. CASE Stop \/ CancelNotify \/ Join \/ Drain
  <2>1. /\ UNCHANGED <<finalized, complete, inputQueue, ptask>>
        /\ mpc \in CancelLocations /\ mpc' # "release"
        /\ \/ UNCHANGED workers /\ late' = late /\ (Swept' => Swept)
           \/ workers' = {} /\ late' = late \cup InPerform
    BY <1>6 DEF Stop, CancelNotify, Join, Drain, Swept
  <2>2. UNCHANGED InPerform
    BY <2>1 DEF InPerform
  <2> QED
    BY <1>0, <2>1, <2>2 DEF SweepInv, Swept
<1>7. CASE Clear \/ Release
  <2>1. /\ UNCHANGED <<finalized, workers, late, ptask>>
        /\ mpc \in {"clear", "release"}
        /\ inputQueue' = <<>> \/ (mpc = "release" /\ UNCHANGED inputQueue)
    BY <1>7 DEF Clear, Release
  <2>2. UNCHANGED InPerform
    BY <2>1 DEF InPerform
  <2> QED
    BY <1>0, <2>1, <2>2 DEF SweepInv, Swept
<1>8. CASE \/ Update \/ WaitFor \/ Wait \/ Take \/ RunTask \/ Renotify \/ Load
           \/ Counter
  <2>1. /\ UNCHANGED <<finalized, complete, workers, late, inputQueue, ptask>>
        /\ mpc' \notin CancelLocations
    BY <1>8 DEF Update, WaitFor, Wait, Take, RunTask, Renotify, Load, Counter
  <2> QED
    BY <1>0, <2>1 DEF SweepInv, Swept, InPerform
<1>9. ASSUME NEW n \in Notifiers, NotifierStep(n) PROVE SweepInv'
  <2>1. /\ UNCHANGED <<finalized, complete, workers, late, inputQueue, ptask>>
        /\ UNCHANGED mpc
    BY <1>9 DEF NotifierStep, LoadPrevious, StoreValue, FutexWake
  <2> QED
    BY <1>0, <2>1 DEF SweepInv, Swept, InPerform
<1> QED
  BY <1>1, <1>2, <1>3, <1>4, <1>5, <1>6, <1>7, <1>8, <1>9 DEF Next, OwnerCall,
     OwnerStep, CancelStep

(* The sums of CountersExact: q and x are the counters; l tasks are in the *)
(* queue, p about to be pushed, t just popped, d cleared by cancel and r   *)
(* running. Below, how a step that moves one task keeps them.              *)
Sums(q, x, l, p, t, d, r) == q = l + p + t + d /\ x = q + r

LEMMA SumsKept ==
  ASSUME NEW q \in Nat, NEW x \in Nat, NEW l \in Nat, NEW p \in Nat,
         NEW t \in Nat, NEW d \in Nat, NEW r \in Nat, Sums(q, x, l, p, t, d, r)
  PROVE  /\ Sums(q + 1, x + 1, l, p + 1, t, d, r)
         /\ Sums(q, x, l + 1, p - 1, t, d, r)
         /\ Sums(q, x, l - 1, p, t + 1, d, r)
         /\ Sums(q - 1, x, l, p, t - 1, d, r + 1)
         /\ Sums(q, x - 1, l, p, t, d, r - 1)
         /\ Sums(q, x, 0, p, t, d + l, r)
BY DEF Sums

(* The counters agree with the places of the tasks after every step; what  *)
(* cancel clears goes to drained, and is counted there.                    *)
LEMMA CountersInductive == IInv /\ [Next]_vars => CountersExact'
<1> SUFFICES ASSUME IInv, [Next]_vars PROVE CountersExact'
  OBVIOUS
<1>0. TypeOK /\ WorkersPlace /\ HoldsTask /\ SingleHolder /\ CountersExact
  BY DEF IInv
<1>t. /\ Len(inputQueue) \in Nat /\ tasksInQueue \in Nat /\ tasksInExecution \in Nat
      /\ IsFiniteSet(drained) /\ Cardinality(drained) \in Nat
      /\ Workers # {} /\ (workers = {} \/ workers = Workers)
  BY <1>0, PoolAssumption, FS_Subset, FS_CardinalityType DEF TypeOK
<1>s. Sums(tasksInQueue, tasksInExecution, Len(inputQueue), Cardinality(Pushing),
           Cardinality(Taking), Cardinality(drained), Cardinality(Running))
  BY <1>0 DEF CountersExact, Sums
<1> DEFINE Goal == Sums(tasksInQueue, tasksInExecution, Len(inputQueue),
                        Cardinality(Pushing), Cardinality(Taking),
                        Cardinality(drained), Cardinality(Running))'
<1>g. Goal => CountersExact'
  BY DEF CountersExact, Sums
<1>a. /\ Sums(tasksInQueue + 1, tasksInExecution + 1, Len(inputQueue),
              Cardinality(Pushing) + 1, Cardinality(Taking),
              Cardinality(drained), Cardinality(Running))
      /\ Sums(tasksInQueue, tasksInExecution, Len(inputQueue) + 1,
              Cardinality(Pushing) - 1, Cardinality(Taking),
              Cardinality(drained), Cardinality(Running))
      /\ Sums(tasksInQueue, tasksInExecution, Len(inputQueue) - 1,
              Cardinality(Pushing), Cardinality(Taking) + 1,
              Cardinality(drained), Cardinality(Running))
      /\ Sums(tasksInQueue - 1, tasksInExecution, Len(inputQueue),
              Cardinality(Pushing), Cardinality(Taking) - 1,
              Cardinality(drained), Cardinality(Running) + 1)
      /\ Sums(tasksInQueue, tasksInExecution - 1, Len(inputQueue),
              Cardinality(Pushing), Cardinality(Taking),
              Cardinality(drained), Cardinality(Running) - 1)
      /\ Sums(tasksInQueue, tasksInExecution, 0,
              Cardinality(Pushing), Cardinality(Taking),
              Cardinality(drained) + Len(inputQueue), Cardinality(Running))
  BY <1>s, <1>t, CountedFinite, SumsKept
<1> USE DEF flags, threads, counters, queue, history, worker
<1>1. CASE UNCHANGED <<counters, inputQueue, drained, Pushing, Taking, Running>>
  BY <1>0, <1>1 DEF CountersExact
<1>2. CASE UNCHANGED vars
  BY <1>1, <1>2 DEF vars, poolVars, performer, Pushing, Taking, Running
<1>3. ASSUME NEW p \in Performers, UNCHANGED <<counters, inputQueue, drained, wpc>>,
             \/ \E t \in Tasks : Perform(p, t) \/ PerformOnThread(p, t)
             \/ TestLazy(p) \/ TestWorkers(p) \/ Decline(p)
      PROVE  CountersExact'
  <2>1. /\ ppc[p] # "push" /\ ppc'[p] # "push"
        /\ \A q \in Performers : q # p => ppc'[q] = ppc[q]
    BY <1>0, <1>3, PerformerMoves DEF Perform, PerformOnThread, TestLazy,
       TestWorkers, Decline, Return, PerformerLocations
  <2> QED
    BY <1>1, <1>3, <2>1 DEF Pushing, Taking, Running
<1>4. ASSUME NEW p \in Performers, Spawn(p) \/ Notify(p) PROVE CountersExact'
  <2>1. /\ ppc[p] # "push" /\ ppc'[p] # "push"
        /\ \A q \in Performers : q # p => ppc'[q] = ppc[q]
        /\ UNCHANGED <<counters, inputQueue, drained>>
    BY <1>0, <1>4, PerformerMoves DEF Spawn, Notify, PerformerLocations
  <2>2. ASSUME NEW w \in Workers
        PROVE  wpc'[w] = wpc[w] \/ (wpc[w] = "none" /\ wpc'[w] = "loop")
    BY <1>0, <1>4 DEF Spawn, WorkersPlace, Notify
  <2> QED
    BY <1>1, <2>1, <2>2 DEF Pushing, Taking, Running
<1>5. CASE CancelNotify \/ Renotify \/ Join \/ \E n \in Notifiers : NotifierStep(n)
  <2>1. UNCHANGED <<counters, inputQueue, drained, ppc>>
    BY <1>5 DEF CancelNotify, Renotify, Join, performer, NotifierStep,
       LoadPrevious, StoreValue, FutexWake
  <2>2. ASSUME NEW w \in Workers
        PROVE  \/ wpc'[w] = wpc[w]
               \/ /\ wpc[w] \in {"ended", "asleep"}
                  /\ wpc'[w] \in {"none", "wait"}
    <3>1. CASE Join
      BY <3>1 DEF Join
    <3>2. CASE CancelNotify \/ Renotify
      BY <3>2 DEF CancelNotify, Renotify
    <3>3. CASE \E n \in Notifiers : NotifierStep(n)
      BY <1>0, <3>3, Notified
    <3> QED
      BY <1>5, <3>1, <3>2, <3>3
  <2> QED
    BY <1>1, <2>1, <2>2 DEF Pushing, Taking, Running
<1>6. ASSUME NEW w \in Workers,
             \/ Loop(w) \/ (PopTask(w) /\ inputQueue = <<>>) \/ Deliver(w)
             \/ LockQueue(w) \/ Check(w) \/ TestFinalized(w) \/ Waiting(w)
      PROVE  CountersExact'
  <2>1. UNCHANGED <<counters, inputQueue, drained, ppc>>
    BY <1>6 DEF Loop, PopTask, Deliver, LockQueue, Check, TestFinalized,
       Waiting, Capture, LoadValue, StorePrevious, FutexWait,
       Interrupted, Wake,
       performer
  <2>2. /\ wpc[w] # "took" /\ wpc'[w] # "took"
        /\ wpc[w] \in {"deliver", "done"} <=> wpc'[w] \in {"deliver", "done"}
        /\ \A v \in Workers : v # w => wpc'[v] = wpc[v]
    BY <1>0, <1>6, WorkerMoves DEF Loop, PopTask, Deliver, LockQueue, Check,
       TestFinalized, Waiting, Capture, LoadValue, StorePrevious, FutexWait,
       Interrupted, Wake, WorkerLocations
  <2> QED
    BY <1>1, <2>1, <2>2 DEF Pushing, Taking, Running
<1>7. ASSUME NEW p \in Performers, Count(p) PROVE CountersExact'
  <2>1. /\ ppc[p] = "count" /\ ppc'[p] = "push"
        /\ \A q \in Performers : q # p => ppc'[q] = ppc[q]
        /\ tasksInQueue' = tasksInQueue + 1
        /\ tasksInExecution' = tasksInExecution + 1
        /\ UNCHANGED <<inputQueue, drained, wpc>>
    BY <1>0, <1>7, PerformerMoves DEF Count, PerformerLocations
  <2>2. /\ p \notin Pushing /\ Pushing' = Pushing \cup {p}
        /\ UNCHANGED <<Taking, Running>>
    BY <2>1 DEF Pushing, Taking, Running
  <2>3. Cardinality(Pushing') = Cardinality(Pushing) + 1
    BY <2>2, CountedFinite, FS_AddElement
  <2>4. /\ UNCHANGED <<Len(inputQueue), Cardinality(drained)>>
        /\ UNCHANGED <<Cardinality(Taking), Cardinality(Running)>>
    BY <2>1, <2>2
  <2> QED
    BY <1>a, <1>g, <2>1, <2>3, <2>4
<1>8. ASSUME NEW p \in Performers, Push(p), UNCHANGED stack
      PROVE  CountersExact'
  <2>1. /\ ppc[p] = "push" /\ ppc'[p] = "notify"
        /\ \A q \in Performers : q # p => ppc'[q] = ppc[q]
        /\ UNCHANGED <<tasksInQueue, tasksInExecution, drained, wpc>>
    BY <1>0, <1>8, PerformerMoves DEF Push, PerformerLocations
  <2>2. /\ p \in Pushing /\ Pushing' = Pushing \ {p}
        /\ UNCHANGED <<Taking, Running>>
    BY <1>8, <2>1 DEF Pushing, Taking, Running
  <2>3. Cardinality(Pushing') = Cardinality(Pushing) - 1
    BY <2>2, CountedFinite, FS_RemoveElement
  <2>4. Len(inputQueue') = Len(inputQueue) + 1
    BY <1>0, <1>8, PushMoves
  <2> QED
    BY <1>a, <1>g, <2>1, <2>2, <2>3, <2>4
<1>9. ASSUME NEW w \in Workers, PopTask(w), inputQueue # <<>>, UNCHANGED stack
      PROVE  CountersExact'
  <2>1. /\ wpc[w] = "pop" /\ wpc'[w] = "took"
        /\ \A v \in Workers : v # w => wpc'[v] = wpc[v]
        /\ UNCHANGED <<tasksInQueue, tasksInExecution, drained, ppc>>
    BY <1>0, <1>9, WorkerMoves DEF PopTask, WorkerLocations, performer
  <2>2. /\ w \notin Taking /\ Taking' = Taking \cup {w}
        /\ UNCHANGED <<Pushing, Running>>
    BY <2>1 DEF Pushing, Taking, Running
  <2>3. Cardinality(Taking') = Cardinality(Taking) + 1
    BY <2>2, CountedFinite, FS_AddElement
  <2>4. Len(inputQueue') = Len(inputQueue) - 1
    BY <1>0, <1>9, PopMoves
  <2> QED
    BY <1>a, <1>g, <2>1, <2>2, <2>3, <2>4
<1>10. ASSUME NEW w \in Workers, Took(w) PROVE CountersExact'
  <2>1. /\ wpc[w] = "took" /\ wpc'[w] = "deliver"
        /\ \A v \in Workers : v # w => wpc'[v] = wpc[v]
        /\ tasksInQueue' = tasksInQueue - 1
        /\ UNCHANGED <<tasksInExecution, inputQueue, drained, ppc>>
    BY <1>0, <1>10, WorkerMoves DEF Took, WorkerLocations, performer
  <2>2. /\ w \in Taking /\ Taking' = Taking \ {w}
        /\ w \notin Running /\ Running' = Running \cup {w}
        /\ UNCHANGED Pushing
    BY <2>1 DEF Pushing, Taking, Running
  <2>3. /\ Cardinality(Taking') = Cardinality(Taking) - 1
        /\ Cardinality(Running') = Cardinality(Running) + 1
    BY <2>2, CountedFinite, FS_AddElement, FS_RemoveElement
  <2>4. /\ UNCHANGED <<Len(inputQueue), Cardinality(drained)>>
        /\ UNCHANGED <<Cardinality(Pushing)>>
    BY <2>1, <2>2
  <2> QED
    BY <1>a, <1>g, <2>1, <2>3, <2>4
<1>11. ASSUME NEW w \in Workers, Done(w) PROVE CountersExact'
  <2>1. /\ wpc[w] = "done" /\ wpc'[w] = "loop"
        /\ \A v \in Workers : v # w => wpc'[v] = wpc[v]
        /\ tasksInExecution' = tasksInExecution - 1
        /\ UNCHANGED <<tasksInQueue, inputQueue, drained, ppc>>
    BY <1>0, <1>11, WorkerMoves DEF Done, WorkerLocations, performer
  <2>2. /\ w \in Running /\ Running' = Running \ {w}
        /\ UNCHANGED <<Pushing, Taking>>
    BY <2>1 DEF Pushing, Taking, Running
  <2>3. Cardinality(Running') = Cardinality(Running) - 1
    BY <2>2, CountedFinite, FS_RemoveElement
  <2> QED
    BY <1>a, <1>g, <2>1, <2>2, <2>3
<1>12. CASE Clear /\ UNCHANGED stack
  <2>1. /\ UNCHANGED <<tasksInQueue, tasksInExecution, Pushing, Taking, Running>>
        /\ UNCHANGED <<wtask, ptask>>
    BY <1>12 DEF Clear, performer, Pushing, Taking, Running
  <2>2. inputQueue' = <<>> /\ drained' = drained \cup Queued
    BY <1>0, <1>12, <2>1, OwnerMoves
  <2>3. /\ IsFiniteSet(Queued) /\ Cardinality(Queued) = Len(inputQueue)
        /\ drained \cap Queued = {}
    BY <1>0, Placed, InjectiveCardinality DEF SingleHolder, Queued
  <2>4. Cardinality(drained') = Cardinality(drained) + Len(inputQueue)
    <3>1. Cardinality(drained \cup Queued) =
            Cardinality(drained) + Cardinality(Queued)
              - Cardinality(drained \cap Queued)
      BY <1>t, <2>3, FS_Union
    <3>2. Cardinality(drained \cap Queued) = 0
      BY <2>3, FS_EmptySet
    <3> QED
      BY <1>t, <2>2, <2>3, <3>1, <3>2
  <2>5. Len(inputQueue') = 0
    BY <2>2
  <2> QED
    BY <1>a, <1>g, <2>1, <2>4, <2>5
<1>13. CASE \/ Cancel \/ Stop \/ Drain \/ Release \/ Update \/ WaitFor \/ Wait
            \/ Take \/ RunTask \/ Load \/ Counter
  BY <1>1, <1>13 DEF Cancel, Stop, Drain, Release, Update, WaitFor, Wait, Take,
     RunTask, Load, Counter, performer, Pushing, Taking, Running
<1>14. ASSUME NEW p \in Performers,
              \/ \E t \in Tasks : Perform(p, t) \/ PerformOnThread(p, t)
              \/ TestLazy(p) \/ TestWorkers(p) \/ Decline(p)
       PROVE  UNCHANGED <<counters, inputQueue, drained, wpc>>
  BY <1>14 DEF Perform, PerformOnThread, TestLazy, TestWorkers, Decline
<1> QED
  BY <1>2, <1>3, <1>4, <1>5, <1>6, <1>7, <1>8, <1>9, <1>10, <1>11, <1>12,
     <1>13,
     <1>14 DEF Next, PerformerStep, WorkerStep, Waiting, OwnerCall, OwnerStep,
     CancelStep

(* The steps that touch neither the places nor the progress of a task.     *)
Still ==
  /\ UNCHANGED <<inputQueue, output, stack, wtask, ptask, drained>>
  /\ UNCHANGED <<state, completions, crashed>>
  /\ late \subseteq late' /\ (mpc' = "clear" <=> mpc = "clear")

(* They leave the sets of places alone.                                    *)
LEMMA StillPlaces ==
  Still => UNCHANGED <<Queued, Delivered, Stacked, Taken, InPerform>>
BY DEF Still, Queued, Delivered, Stacked, Taken, InPerform

(* The steps of that kind, with those that do not move a performer.        *)
LEMMA StillSteps ==
  /\ \A w \in Workers :
       /\ \/ Loop(w) \/ (PopTask(w) /\ inputQueue = <<>>) \/ Done(w)
          \/ LockQueue(w) \/ Check(w) \/ TestFinalized(w) \/ Waiting(w)
       /\ UNCHANGED stack
       => Still /\ UNCHANGED ppc
  /\ \A p \in Performers :
       (TestLazy(p) \/ Spawn(p) \/ Count(p) \/ Notify(p)) /\ UNCHANGED stack
       => Still
  /\ (Cancel \/ Stop \/ CancelNotify \/ Join \/ Release) /\ UNCHANGED stack
       => Still /\ UNCHANGED ppc
  /\ Update \/ WaitFor \/ Wait \/ Renotify \/ Load \/ Counter \/ UNCHANGED vars
       => Still /\ UNCHANGED ppc
  /\ \A n \in Notifiers : NotifierStep(n) /\ UNCHANGED stack
       => Still /\ UNCHANGED ppc
<1> USE DEF Still, flags, threads, counters, queue, tasks, worker, performer, history
<1>1. ASSUME NEW w \in Workers, UNCHANGED stack,
             \/ Loop(w) \/ (PopTask(w) /\ inputQueue = <<>>) \/ Done(w)
             \/ LockQueue(w) \/ Check(w) \/ TestFinalized(w) \/ Waiting(w)
      PROVE  Still /\ UNCHANGED ppc
  BY <1>1 DEF Loop, PopTask, Done, LockQueue, Check, TestFinalized, Waiting, Capture, LoadValue, StorePrevious, FutexWait,
       Interrupted, Wake
<1>2. ASSUME NEW p \in Performers, UNCHANGED stack,
             TestLazy(p) \/ Spawn(p) \/ Count(p) \/ Notify(p)
      PROVE  Still
  BY <1>2 DEF TestLazy, Spawn, Count, Notify
<1>3. ASSUME Cancel \/ Stop \/ CancelNotify \/ Join \/ Release, UNCHANGED stack
      PROVE  Still /\ UNCHANGED ppc
  BY <1>3 DEF Cancel, Stop, CancelNotify, Join, Release
<1>4. ASSUME Update \/ WaitFor \/ Wait \/ Renotify \/ Load \/ Counter \/ UNCHANGED vars
      PROVE  Still /\ UNCHANGED ppc
  BY <1>4 DEF Update, WaitFor, Wait, Renotify, Load, Counter, vars, poolVars
<1>5. ASSUME NEW n \in Notifiers, NotifierStep(n), UNCHANGED stack
      PROVE  Still /\ UNCHANGED ppc
  BY <1>5 DEF NotifierStep, LoadPrevious, StoreValue, FutexWake
<1> QED
  BY <1>1, <1>2, <1>3, <1>4, <1>5

(* The other steps, and what they do to the progress of a task.            *)
LEMMA ProgressSplit ==
  ASSUME [Next]_vars
  PROVE  \/ Still /\ UNCHANGED ppc
         \/ \E p \in Performers :
              /\ TestLazy(p) \/ Spawn(p) \/ Count(p) \/ Notify(p)
              /\ Still
         \/ \E p \in Performers : TestWorkers(p) /\ workers # {} /\ UNCHANGED stack
         \/ \E w \in Workers : Took(w) /\ UNCHANGED stack
         \/ Drain /\ UNCHANGED stack
         \/ Moving /\ ~crashed
BY StillSteps DEF Next, PerformerStep, WorkerStep, Waiting, OwnerCall,
   OwnerStep, CancelStep, Moving,
   PerformOnThread, Stacked

(* A task is set to a state and no other task is.                          *)
LEMMA Advance ==
  ASSUME TypeOK, NEW t \in Tasks, NEW x, state' = [state EXCEPT ![t] = x]
  PROVE  state'[t] = x /\ \A u \in Tasks : u # t => state'[u] = state[u]
BY DEF TypeOK

(* The worker's task is executed.                                          *)
LEMMA TookAdvances ==
  ASSUME TypeOK, HoldsTask, NEW w \in Workers, Took(w), UNCHANGED stack
  PROVE  /\ wtask[w] \in Taken /\ wtask[w] \in Tasks /\ state'[wtask[w]] = "Executed"
         /\ \A u \in Tasks : u # wtask[w] => state'[u] = state[u]
         /\ UNCHANGED <<completions, drained, ppc, ptask, mpc, late, crashed>>
         /\ UNCHANGED <<Queued, Delivered, Stacked, Taken, InPerform>>
<1>1. /\ UNCHANGED <<inputQueue, output, stack, wtask>>
      /\ UNCHANGED <<completions, drained, ppc, ptask, mpc, late, crashed>>
      /\ wtask[w] # None /\ state' = [state EXCEPT ![wtask[w]] = "Executed"]
  BY DEF Took, HoldsTask, queue, performer, history
<1>2. wtask[w] \in Taken /\ wtask[w] \in Tasks
  BY <1>1, Placed
<1>3. /\ state'[wtask[w]] = "Executed"
      /\ \A u \in Tasks : u # wtask[w] => state'[u] = state[u]
  BY <1>1, <1>2, Advance
<1> QED
  BY <1>1, <1>2, <1>3 DEF Queued, Delivered, Stacked, Taken, InPerform

(* prepare accepts the performer's task or refuses it.                     *)
LEMMA PrepareAdvances ==
  ASSUME TypeOK, HoldsTask, NEW p \in Performers, TestWorkers(p), workers # {},
         UNCHANGED stack
  PROVE  /\ ptask[p] \in InPerform /\ ptask[p] \in Tasks /\ ppc[p] = "workers"
         /\ \/ state'[ptask[p]] = "Prepared" /\ ppc'[p] = "count"
            \/ state'[ptask[p]] = "Executed" /\ ppc'[p] = "decline"
         /\ \A q \in Performers : q # p => ppc'[q] = ppc[q]
         /\ \A u \in Tasks : u # ptask[p] => state'[u] = state[u]
         /\ UNCHANGED <<completions, drained, ptask, mpc, late, crashed>>
         /\ UNCHANGED <<Queued, Delivered, Stacked, Taken, InPerform>>
<1>1. /\ UNCHANGED <<inputQueue, output, stack, wtask>>
      /\ UNCHANGED <<completions, drained, ptask, mpc, late, crashed>>
      /\ ptask[p] # None /\ ppc[p] = "workers"
  BY DEF TestWorkers, HoldsTask, queue, worker, history
<1>2. ptask[p] \in InPerform /\ ptask[p] \in Tasks
  BY <1>1, Placed
<1>3. \/ state' = [state EXCEPT ![ptask[p]] = "Prepared"] /\ GotoP(p, "count")
      \/ state' = [state EXCEPT ![ptask[p]] = "Executed"] /\ GotoP(p, "decline")
  BY DEF TestWorkers
<1>4. /\ \/ state'[ptask[p]] = "Prepared" /\ ppc'[p] = "count"
         \/ state'[ptask[p]] = "Executed" /\ ppc'[p] = "decline"
      /\ \A q \in Performers : q # p => ppc'[q] = ppc[q]
      /\ \A u \in Tasks : u # ptask[p] => state'[u] = state[u]
  BY <1>2, <1>3, Advance, PerformerMoves DEF PerformerLocations
<1> QED
  BY <1>1, <1>2, <1>4 DEF Queued, Delivered, Stacked, Taken, InPerform

(* cancel completes the tasks it finds in the queue, if they are prepared. *)
LEMMA DrainAdvances ==
  ASSUME TypeOK, Drain, UNCHANGED stack
  PROVE  /\ mpc = "drain" /\ mpc' = "clear"
         /\ \A t \in Queued :
              /\ state'[t] = "Executed"
              /\ completions'[t] = IF state[t] = "Prepared" THEN completions[t] + 1
                                                            ELSE completions[t]
         /\ \A t \in Tasks \ Queued :
              state'[t] = state[t] /\ completions'[t] = completions[t]
         /\ UNCHANGED <<drained, ppc, ptask, late, crashed>>
         /\ UNCHANGED <<Queued, Delivered, Stacked, Taken, InPerform>>
<1>1. /\ UNCHANGED <<inputQueue, output, stack, wtask, drained, ppc, ptask>>
      /\ UNCHANGED <<late, crashed>> /\ mpc = "drain" /\ mpc' = "clear"
  BY DEF Drain, queue, worker, performer, history
<1>2. /\ \A t \in Queued :
           /\ state'[t] = "Executed"
           /\ completions'[t] = IF state[t] = "Prepared" THEN completions[t] + 1
                                                         ELSE completions[t]
      /\ \A t \in Tasks \ Queued :
           state'[t] = state[t] /\ completions'[t] = completions[t]
  BY Placed DEF Drain, Queued
<1> QED
  BY <1>1, <1>2 DEF Queued, Delivered, Stacked, Taken, InPerform

(* update completes the first task of its stack.                           *)
LEMMA RunAdvances ==
  ASSUME TypeOK, HoldsTask, SingleHolder, RunTask
  PROVE  /\ Head(stack) \in Stacked /\ Stacked' = Stacked \ {Head(stack)}
         /\ state'[Head(stack)] = "Executed"
         /\ completions'[Head(stack)] = completions[Head(stack)] + 1
         /\ \A t \in Tasks : t # Head(stack) =>
              state'[t] = state[t] /\ completions'[t] = completions[t]
         /\ mpc = "run" /\ UNCHANGED <<drained, ppc, ptask, mpc, late, crashed>>
         /\ UNCHANGED <<Queued, Delivered, Taken, InPerform>>
<1>1. /\ state' = [state EXCEPT ![Head(stack)] = "Executed"]
      /\ completions' = [completions EXCEPT ![Head(stack)] = @ + 1]
      /\ mpc = "run" /\ UNCHANGED <<ppc, wtask, ptask, mpc, late, crashed>>
  BY DEF RunTask, worker, performer, history
<1>2. /\ Head(stack) \in Stacked /\ Stacked' = Stacked \ {Head(stack)}
      /\ UNCHANGED <<drained, Queued, Delivered, Taken, InPerform>>
  BY <1>1, OwnerMoves
<1> DEFINE t == Head(stack)
<1>3. t \in Tasks
  BY <1>2, Placed
<1> HIDE DEF t
<1>4. /\ state'[t] = "Executed" /\ completions'[t] = completions[t] + 1
      /\ \A u \in Tasks : u # t =>
           state'[u] = state[u] /\ completions'[u] = completions[u]
  BY <1>1, <1>3 DEF t, TypeOK
<1> QED
  BY <1>1, <1>2, <1>4 DEF t

(* The progress of a task fits its place after every step.                 *)
LEMMA TaskStatesInductive == IInv /\ [Next]_vars => TaskStates'
<1> SUFFICES ASSUME IInv, [Next]_vars PROVE TaskStates'
  OBVIOUS
<1>0. TypeOK /\ HoldsTask /\ SingleHolder /\ TaskStates /\ SweepInv
  BY DEF IInv
<1>t. /\ \A t \in Tasks : state[t] \in TaskState /\ completions[t] \in Nat
      /\ \A p \in Performers : ppc[p] \in PerformerLocations
  BY <1>0 DEF TypeOK
<1>h. ASSUME NEW p \in Performers,
             ppc[p] \in {"lazy", "spawn", "workers", "decline", "count", "push"}
      PROVE  ptask[p] \in InPerform /\ ptask[p] \in Tasks
  BY <1>0, <1>h, Placed DEF HoldsTask
<1>1. CASE Still /\ UNCHANGED ppc
  <2>1. UNCHANGED <<Queued, Taken>>
    BY <1>1, StillPlaces
  <2> QED
    BY <1>0, <1>1, <2>1 DEF TaskStates, Still
<1>2. ASSUME NEW p \in Performers, Still,
             TestLazy(p) \/ Spawn(p) \/ Count(p) \/ Notify(p)
      PROVE  TaskStates'
  <2>1. UNCHANGED <<Queued, Taken>>
    BY <1>2, StillPlaces
  <2>2. /\ \A q \in Performers : q # p => ppc'[q] = ppc[q]
        /\ ppc'[p] \in {"spawn", "workers"} => ppc[p] \in {"lazy", "spawn"}
        /\ ppc'[p] \in {"count", "push"} => ppc[p] = "count"
        /\ ppc'[p] # "lazy"
    BY <1>0, <1>2, PerformerMoves DEF TestLazy, Spawn, Count, Notify,
       PerformerLocations
  <2> QED
    BY <1>0, <1>2, <2>1, <2>2 DEF TaskStates, Still
<1>3. ASSUME NEW p \in Performers, TestWorkers(p), workers # {}, UNCHANGED stack
      PROVE  TaskStates'
  <2>1. ptask[p] \notin Queued \cup Taken \cup drained
    BY <1>0, <1>3, PrepareAdvances DEF SingleHolder
  <2>2. \A q \in Performers : q # p /\ ptask[q] # None => ptask[q] # ptask[p]
    BY <1>0, <1>3, PrepareAdvances DEF SingleHolder
  <2>3. completions[ptask[p]] = 0
    BY <1>0, <1>3, PrepareAdvances DEF TaskStates
  <2>4. ASSUME NEW q \in Performers
        PROVE  /\ ppc'[q] \in {"lazy", "spawn", "workers"}
                    => state'[ptask'[q]] = "Initial"
               /\ ppc'[q] \in {"count", "push"} => state'[ptask'[q]] = "Prepared"
    <3>1. CASE q = p
      BY <1>0, <1>3, <3>1, PrepareAdvances
    <3>2. CASE q # p
      BY <1>0, <1>3, <1>h, <2>2, <3>2, Placed, PrepareAdvances DEF TaskStates
    <3> QED
      BY <3>1, <3>2
  <2> QED
    BY <1>0, <1>3, <2>1, <2>3, <2>4, Placed, PrepareAdvances DEF TaskStates
<1>4. ASSUME NEW w \in Workers, Took(w), UNCHANGED stack PROVE TaskStates'
  <2>1. wtask[w] \notin Queued \cup InPerform \cup drained
    BY <1>0, <1>4, TookAdvances DEF SingleHolder
  <2>2. \A q \in Performers :
          ppc[q] \in {"lazy", "spawn", "workers", "count", "push"} =>
            state'[ptask[q]] = state[ptask[q]]
    BY <1>0, <1>4, <1>h, <2>1, TookAdvances
  <2> QED
    BY <1>0, <1>4, <2>1, <2>2, Placed, TookAdvances, SMTT(30) DEF TaskStates
<1>5. CASE Drain /\ UNCHANGED stack
  <2>1. \A q \in Performers :
          ppc[q] \in {"lazy", "spawn", "workers", "count", "push"} =>
            state'[ptask[q]] = state[ptask[q]]
    BY <1>0, <1>5, <1>h, DrainAdvances DEF SingleHolder
  <2>2. \A t \in Queued : state[t] = "Prepared"
    BY <1>0, <1>5, DrainAdvances DEF TaskStates
  <2>3. \A t \in Queued : completions'[t] > 0 /\ state'[t] = "Executed"
    BY <1>0, <1>5, <1>t, <2>2, Placed, DrainAdvances
  <2>4. \A t \in Taken \cup drained : state'[t] = state[t]
    BY <1>0, <1>5, Placed, DrainAdvances DEF SingleHolder
  <2> QED
    BY <1>0, <1>5, <2>1, <2>3, <2>4, DrainAdvances DEF TaskStates
<1>6. ASSUME NEW p \in Performers, NEW t \in Tasks,
             Perform(p, t) \/ PerformOnThread(p, t),
             t \notin Stacked, UNCHANGED stack
      PROVE  TaskStates'
  <2>1. /\ UNCHANGED <<state, completions, mpc, late>>
        /\ ppc'[p] \in {"lazy", "decline"}
        /\ \A q \in Performers : q # p => ppc'[q] = ppc[q]
    BY <1>0, <1>6, PerformerMoves DEF Perform, PerformOnThread,
       PerformerLocations,
       tasks, history
  <2> QED
    BY <1>0, <1>6, <2>1, PerformMoves DEF TaskStates
<1>7. ASSUME NEW p \in Performers, UNCHANGED stack,
             (TestWorkers(p) /\ workers = {}) \/ Decline(p)
      PROVE  TaskStates'
  <2>1. /\ UNCHANGED <<state, completions, late>> /\ ppc'[p] = "idle"
        /\ \A q \in Performers : q # p => ppc'[q] = ppc[q]
        /\ mpc' = "clear" <=> mpc = "clear"
    BY <1>0, <1>7, PerformerMoves DEF TestWorkers, Decline, Return,
       PerformerLocations, CompletePerform, tasks, history
  <2>2. /\ UNCHANGED <<Queued, Taken, drained>>
        /\ \A q \in Performers : q # p => ptask'[q] = ptask[q]
    BY <1>0, <1>7, ReturnMoves, DeclineMoves
  <2> QED
    BY <1>0, <2>1, <2>2 DEF TaskStates
<1>8. ASSUME NEW p \in Performers, Push(p), UNCHANGED stack PROVE TaskStates'
  <2>1. /\ UNCHANGED <<state, completions, mpc, late>>
        /\ ppc[p] = "push" /\ ppc'[p] = "notify"
        /\ \A q \in Performers : q # p => ppc'[q] = ppc[q]
    BY <1>0, <1>8, PerformerMoves DEF Push, PerformerLocations, tasks, history
  <2>2. state[ptask[p]] = "Prepared" /\ (mpc = "clear" => ptask[p] \in late)
    BY <1>0, <1>8, <2>1, PushMoves DEF TaskStates, SweepInv, Swept
  <2> QED
    BY <1>0, <1>8, <2>1, <2>2, PushMoves DEF TaskStates
<1>9. ASSUME NEW w \in Workers, UNCHANGED stack,
             (PopTask(w) /\ inputQueue # <<>>) \/ Deliver(w)
      PROVE  TaskStates'
  <2>1. /\ UNCHANGED <<state, completions, late, ppc>>
        /\ mpc' = "clear" <=> mpc = "clear"
    BY <1>9 DEF PopTask, Deliver, CompletePerform, tasks, performer, history
  <2>2. /\ UNCHANGED <<drained, ptask>> /\ Queued' \subseteq Queued
        /\ Taken' \subseteq Taken \cup Queued
    BY <1>0, <1>9, PopMoves, DeliverMoves
  <2> QED
    BY <1>0, <2>1, <2>2 DEF TaskStates
<1>10. CASE (Clear /\ UNCHANGED stack) \/ Take
  <2>1. UNCHANGED <<state, completions, late, ppc, ptask, wtask>>
    BY <1>10 DEF Clear, Take, tasks, worker, performer, history
  <2>2. /\ UNCHANGED Taken /\ drained' \subseteq drained \cup Queued
        /\ Queued' = {} \/ (UNCHANGED Queued /\ mpc # "clear" /\ mpc' # "clear")
    BY <1>0, <1>10, <2>1, OwnerMoves DEF Take
  <2> QED
    BY <1>0, <2>1, <2>2 DEF TaskStates
<1>11. CASE RunTask
  <2>1. /\ Head(stack) \in Tasks
        /\ Head(stack) \notin Queued \cup Taken \cup drained \cup InPerform
    BY <1>0, <1>11, Placed, RunAdvances DEF SingleHolder
  <2>2. \A q \in Performers :
          ppc[q] \in {"lazy", "spawn", "workers", "count", "push"} =>
            state'[ptask[q]] = state[ptask[q]]
    BY <1>0, <1>11, <1>h, <2>1, RunAdvances
  <2> QED
    BY <1>0, <1>11, <2>1, <2>2, Placed, RunAdvances DEF TaskStates
<1> QED
  BY <1>1, <1>2, <1>3, <1>4, <1>5, <1>6, <1>7, <1>8, <1>9, <1>10, <1>11,
     ProgressSplit DEF Moving

(* Held is the union of the places that a task can leave again.            *)
LEMMA HeldPlaces ==
  ASSUME NEW t \in Tasks
  PROVE  t \in Held <=> t \in Queued \cup Delivered \cup Stacked \cup Taken
                                 \cup InPerform
BY PoolAssumption DEF Held, Queued, Delivered, Stacked, Taken, InPerform

(* What CompletionInv says of one task, with its place and progress.       *)
LEMMA CompletionInductive == IInv /\ [Next]_vars => CompletionInv'
<1> SUFFICES ASSUME IInv, [Next]_vars PROVE CompletionInv'
  OBVIOUS
<1>0. /\ TypeOK /\ WorkersPlace /\ HoldsTask /\ SingleHolder /\ TaskStates
      /\ SweepInv /\ CompletionInv
  BY DEF IInv
<1>t. \A t \in Tasks : completions[t] \in Nat
  BY <1>0 DEF TypeOK
<1> DEFINE Places == Queued \cup Delivered \cup Stacked \cup Taken \cup InPerform
<1>a. \A t \in Tasks :
        state[t] # "Initial" /\ completions[t] = 0 => t \in Places \cup late \/ crashed
  BY <1>0, HeldPlaces DEF CompletionInv
<1> DEFINE Goal ==
        /\ \A t \in Tasks :
             state'[t] # "Initial" /\ completions'[t] = 0
               => t \in Places' \cup late' \/ crashed'
        /\ late' = {} =>
             /\ ~crashed'
             /\ \A t \in Tasks : completions'[t] <= 1
             /\ \A t \in Places' \ Queued' : completions'[t] = 0
             /\ mpc' # "clear" => \A t \in Queued' : completions'[t] = 0
<1>b. Goal => CompletionInv'
  <2>1. \A t \in Tasks : t \in Held' <=> t \in Places'
    BY PoolAssumption DEF Held, Queued, Delivered, Stacked, Taken, InPerform
  <2>2. (Delivered' \cup Stacked' \cup Taken' \cup InPerform') \cap Queued' = {}
    BY SingleHolderInductive DEF SingleHolder
  <2> QED
    BY <2>1, <2>2 DEF CompletionInv
<1>d. late = {} =>
        /\ ~crashed
        /\ \A t \in Tasks : completions[t] <= 1
        /\ \A t \in Places \ Queued : completions[t] = 0
        /\ mpc # "clear" => \A t \in Queued : completions[t] = 0
  BY <1>0 DEF CompletionInv
<1>1. ASSUME Still PROVE Goal
  BY <1>a, <1>d, <1>1, StillPlaces DEF Still
<1>3. ASSUME NEW p \in Performers, TestWorkers(p), workers # {}, UNCHANGED stack
      PROVE  Goal
  BY <1>0, <1>a, <1>d, <1>3, PrepareAdvances
<1>4. ASSUME NEW w \in Workers, Took(w), UNCHANGED stack PROVE Goal
  BY <1>0, <1>a, <1>d, <1>4, TookAdvances
<1>5. ASSUME Drain, UNCHANGED stack PROVE Goal
  <2>1. \A t \in Tasks :
          \/ completions'[t] = completions[t]
          \/ t \in Queued /\ completions'[t] = completions[t] + 1
    BY <1>0, <1>5, DrainAdvances
  <2>2. \A t \in Tasks : t \notin Queued => state'[t] = state[t]
    BY <1>0, <1>5, DrainAdvances
  <2> QED
    BY <1>0, <1>a, <1>d, <1>t, <1>5, <2>1, <2>2, Placed, DrainAdvances
<1>6. ASSUME NEW p \in Performers, NEW t \in Tasks,
             Perform(p, t) \/ PerformOnThread(p, t),
             t \notin Stacked, UNCHANGED stack
      PROVE  Goal
  <2>1. UNCHANGED <<state, completions, mpc, late, crashed>>
    BY <1>6 DEF Perform, PerformOnThread, tasks, history
  <2>2. completions[t] = 0
    BY <1>0, <1>6, PerformMoves DEF TaskStates
  <2> QED
    BY <1>0, <1>a, <1>d, <1>6, <2>1, <2>2, PerformMoves
<1>7. ASSUME NEW p \in Performers, TestWorkers(p), workers = {}, UNCHANGED stack
      PROVE  Goal
  <2>1. /\ UNCHANGED <<state, completions, mpc, late, crashed>>
        /\ ppc[p] = "workers"
    BY <1>7 DEF TestWorkers, tasks, history
  <2>2. state[ptask[p]] = "Initial"
    BY <1>0, <2>1 DEF TaskStates
  <2> QED
    BY <1>0, <1>a, <1>d, <1>7, <2>1, <2>2, ReturnMoves
<1>8. ASSUME NEW p \in Performers, Decline(p), UNCHANGED stack PROVE Goal
  <2>1. /\ UNCHANGED <<state, completions, late>>
        /\ mpc' = "clear" <=> mpc = "clear"
    BY <1>8 DEF Decline, CompletePerform, tasks
  <2>2. ~complete => late # {}
    BY <1>0, <1>8, DeclineMoves DEF SweepInv, Swept
  <2> QED
    BY <1>0, <1>a, <1>d, <1>8, <2>1, <2>2, DeclineMoves
<1>9. ASSUME NEW p \in Performers, Push(p), UNCHANGED stack PROVE Goal
  <2>1. UNCHANGED <<state, completions, mpc, late, crashed>>
    BY <1>9 DEF Push, tasks, history
  <2>2. late = {} => completions[ptask[p]] = 0
    BY <1>0, <1>9, PushMoves DEF CompletionInv
  <2> QED
    BY <1>0, <1>a, <1>d, <1>9, <2>1, <2>2, PushMoves
<1>10. ASSUME NEW w \in Workers, PopTask(w), inputQueue # <<>>, UNCHANGED stack
       PROVE  Goal
  <2>1. UNCHANGED <<state, completions, mpc, late, crashed>> /\ wpc[w] = "pop"
    BY <1>10 DEF PopTask, tasks, history
  <2>2. late = {} => mpc # "clear"
    BY <1>0, <2>1 DEF SweepInv, Swept, WorkersPlace
  <2> QED
    BY <1>0, <1>a, <1>d, <1>10, <2>1, <2>2, PopMoves
<1>11. ASSUME NEW w \in Workers, Deliver(w), UNCHANGED stack PROVE Goal
  <2>1. /\ UNCHANGED <<state, completions, late>> /\ wpc[w] = "deliver"
        /\ mpc' = "clear" <=> mpc = "clear"
    BY <1>11 DEF Deliver, CompletePerform, tasks
  <2>2. ~complete => late # {}
    BY <1>0, <2>1 DEF SweepInv, Swept, WorkersPlace
  <2> QED
    BY <1>0, <1>a, <1>d, <1>11, <2>1, <2>2, DeliverMoves
<1>12. ASSUME Clear, UNCHANGED stack PROVE Goal
  <2>1. /\ UNCHANGED <<state, completions, late, crashed, ptask, wtask>>
        /\ mpc = "clear"
    BY <1>12 DEF Clear, tasks, worker, performer
  <2>2. \A t \in Queued : completions[t] = 0 => t \in late
    BY <1>0, <2>1 DEF TaskStates
  <2> QED
    <3>1. Queued' = {} /\ UNCHANGED <<Delivered, Stacked, Taken, InPerform>>
      BY <1>0, <1>12, <2>1, OwnerMoves
    <3>2. Places' = Places \ Queued
      BY <1>0, <3>1 DEF SingleHolder
    <3>3. \A t \in Tasks :
            state'[t] # "Initial" /\ completions'[t] = 0
              => t \in Places' \cup late' \/ crashed'
      BY <1>a, <2>1, <2>2, <3>2
    <3>4. ASSUME late' = {}
          PROVE  /\ ~crashed' /\ \A t \in Tasks : completions'[t] <= 1
                 /\ \A t \in Places' \ Queued' : completions'[t] = 0
      BY <1>d, <2>1, <3>1, <3>2, <3>4
    <3>5. \A t \in Queued' : completions'[t] = 0
      BY <3>1
    <3> HIDE DEF Places
    <3> QED
      BY <3>3, <3>4, <3>5
<1>13. ASSUME Take PROVE Goal
  <2>1. /\ UNCHANGED <<state, completions, late, crashed, ptask, wtask>>
        /\ mpc # "clear" /\ mpc' # "clear"
    BY <1>13 DEF Take, tasks, worker, performer, history
  <2> QED
    BY <1>0, <1>a, <1>d, <1>13, <2>1, OwnerMoves
<1>14. ASSUME RunTask PROVE Goal
  <2>1. Head(stack) \in Tasks
    BY <1>0, <1>14, Placed, RunAdvances
  <2>2. Head(stack) \notin Queued \cup Delivered \cup Taken \cup InPerform
    BY <1>0, <1>14, RunAdvances DEF SingleHolder
  <2>3. late = {} => completions[Head(stack)] = 0
    BY <1>0, <1>14, RunAdvances DEF CompletionInv
  <2> QED
    <3> DEFINE t == Head(stack)
    <3>1. /\ Stacked' = Stacked \ {t} /\ completions'[t] = completions[t] + 1
          /\ \A u \in Tasks : u # t =>
               state'[u] = state[u] /\ completions'[u] = completions[u]
          /\ UNCHANGED <<mpc, late, crashed, Queued, Delivered, Taken, InPerform>>
      BY <1>0, <1>14, RunAdvances
    <3>2. /\ Places' = Places \ {t} /\ t \notin Queued /\ t \in Tasks
          /\ completions[t] \in Nat /\ (late = {} => completions[t] = 0)
      BY <1>t, <2>1, <2>2, <2>3, <3>1
    <3>3. Places \subseteq Tasks /\ Queued \subseteq Places
      BY <1>0, Placed
    <3> HIDE DEF t, Places
    <3>4. \A u \in Tasks :
            state'[u] # "Initial" /\ completions'[u] = 0
              => u \in Places' \cup late' \/ crashed'
      BY <1>a, <3>1, <3>2
    <3>5. ASSUME late' = {}
          PROVE  /\ ~crashed' /\ \A u \in Tasks : completions'[u] <= 1
                 /\ \A u \in Places' \ Queued' : completions'[u] = 0
      BY <1>d, <3>1, <3>2, <3>3, <3>5
    <3>6. late' = {} /\ mpc' # "clear" => \A u \in Queued' : completions'[u] = 0
      BY <1>d, <3>1, <3>2, <3>3
    <3> QED
      BY <3>4, <3>5, <3>6
<1>15. Goal
  BY <1>1, <1>3, <1>4, <1>5, <1>6, <1>7, <1>8, <1>9, <1>10, <1>11, <1>12,
     <1>13,
     <1>14, ProgressSplit DEF Moving
<1> QED
  BY <1>b, <1>15
(* A performer that is to notify does so next.                             *)
LEMMA NotifyNext ==
  ASSUME TypeOK, [Next]_vars, NEW p \in Performers, ppc[p] = "notify"
  PROVE  ppc'[p] = "notify" \/ Notify(p)
<1>1. CASE UNCHANGED ppc
  BY <1>1
<1>2. ASSUME NEW q \in Performers,
             \/ PerformerStep(q)
             \/ \E t \in Tasks : Perform(q, t) \/ PerformOnThread(q, t)
      PROVE  ppc'[p] = "notify" \/ Notify(p)
  <2>1. ppc[q] # "notify" \/ Notify(q)
    BY <1>2 DEF PerformerStep, Perform, PerformOnThread, TestLazy, Spawn,
       TestWorkers, Decline, Count, Push
  <2>2. q # p => ppc'[p] = ppc[p]
    BY <1>2 DEF PerformerStep, Perform, PerformOnThread, TestLazy, Spawn,
       TestWorkers, Decline, Count, Push, Notify, Return, GotoP, TypeOK
  <2> QED
    BY <2>1, <2>2
<1>3. ASSUME NEW w \in Workers, WorkerStep(w) \/ Interrupted(w)
      PROVE  UNCHANGED ppc
  BY <1>3, WorkerEffect
<1>4. CASE OwnerCall \/ OwnerStep \/ UNCHANGED vars
           \/ \E n \in Notifiers : NotifierStep(n)
  <2>1. UNCHANGED performer
    BY <1>4 DEF OwnerCall, OwnerStep, CancelStep, Cancel, Stop, CancelNotify,
       Join, Drain, Clear, Release, Update, WaitFor, Wait, Take, RunTask,
       Renotify, Load, Counter, NotifierStep, LoadPrevious, StoreValue,
       FutexWake, vars, poolVars
  <2> QED
    BY <1>1, <2>1 DEF performer
<1> QED
  BY <1>1, <1>2, <1>3, <1>4 DEF Next

(* A task is queued before and after a step, or is pushed while nobody     *)
(* holds the mutex.                                                        *)
LEMMA QueuedBefore ==
  ASSUME TypeOK, [Next]_vars, inputQueue' # <<>>
  PROVE  inputQueue # <<>> \/ \E p \in Performers : Push(p)
<1> USE DEF queue
<1>1. CASE UNCHANGED vars
  BY <1>1 DEF vars, poolVars
<1>2. ASSUME NEW p \in Performers,
             \/ PerformerStep(p)
             \/ \E t \in Tasks : Perform(p, t) \/ PerformOnThread(p, t)
      PROVE  UNCHANGED inputQueue \/ Push(p)
  BY <1>2 DEF PerformerStep, Perform, PerformOnThread, TestLazy, Spawn,
     TestWorkers, Decline, Count, Notify
<1>3. ASSUME NEW w \in Workers, WorkerStep(w) \/ Interrupted(w)
      PROVE  UNCHANGED inputQueue \/ inputQueue # <<>>
  BY <1>3 DEF WorkerStep, Loop, PopTask, Took, Deliver, Done, LockQueue, Check,
     TestFinalized, Capture, LoadValue, StorePrevious, FutexWait, Interrupted,
     Wake
<1>4. CASE OwnerCall \/ OwnerStep
  BY <1>4 DEF OwnerCall, OwnerStep, CancelStep, Cancel, Stop, CancelNotify, Join,
     Drain, Clear, Release, Update, WaitFor, Wait, Take, RunTask, Renotify, Load,
     Counter
<1>5. ASSUME NEW n \in Notifiers, NotifierStep(n) PROVE UNCHANGED inputQueue
  BY <1>5 DEF NotifierStep, LoadPrevious, StoreValue, FutexWake
<1> QED
  BY <1>1, <1>2, <1>3, <1>4, <1>5 DEF Next

(* A queued task keeps a worker awake or a notification coming: workers    *)
(* that wait have started from previous or less, and the notification      *)
(* stores more.                                                            *)
LEMMA QueueWatchedInductive == IInv /\ [Next]_vars => QueueWatched'
<1> SUFFICES ASSUME IInv, [Next]_vars, inputQueue' # <<>>
             PROVE  /\ \A w \in Workers :
                         wpc'[w] \notin {"test", "capture", "load", "store"}
                    /\ \/ overtaken'
                       \/ \E w \in Workers : Awake(w)'
                       \/ \E n \in Notifiers : Coming(n)'
  BY DEF QueueWatched
<1>0. TypeOK /\ WorkersPlace /\ ConditionInv /\ QueueWatched
  BY DEF IInv
<1>n. /\ value \in Nat /\ previous \in Nat /\ \A w \in Workers : start[w] \in Nat
      /\ \A n \in Notifiers : next[n] \in Nat
  BY <1>0 DEF TypeOK, ConditionTypeOK
<1>o. Workers # {} /\ Performers \subseteq Notifiers
  BY PoolAssumption DEF Notifiers
<1>1. ASSUME NEW p \in Performers, Push(p)
      PROVE  /\ \A w \in Workers :
                  wpc'[w] \notin {"test", "capture", "load", "store"}
             /\ \E n \in Notifiers : Coming(n)'
  <2>1. UNCHANGED wpc /\ ppc'[p] = "notify" /\ mutex = None
    BY <1>0, <1>1 DEF Push, worker, GotoP, TypeOK
  <2>2. \A w \in Workers : wpc[w] \notin Inside
    BY <1>0, <2>1, PoolAssumption DEF WorkersPlace
  <2> QED
    BY <1>o, <2>1, <2>2 DEF Coming, Inside
<1> SUFFICES ASSUME inputQueue # <<>>
             PROVE  /\ \A w \in Workers :
                         wpc'[w] \notin {"test", "capture", "load", "store"}
                    /\ \/ overtaken'
                       \/ \E w \in Workers : Awake(w)'
                       \/ \E n \in Notifiers : Coming(n)'
  BY <1>0, <1>1, QueuedBefore
<1>q. tasksInQueue > 0
  <2>1. Len(inputQueue) \in Nat /\ Len(inputQueue) > 0
    BY <1>0, LenProperties, EmptySeq DEF TypeOK
  <2>2. /\ Cardinality(Pushing) \in Nat /\ Cardinality(Taking) \in Nat
        /\ Cardinality(drained) \in Nat
    BY <1>0, CountedFinite, PoolAssumption, FS_Subset, FS_CardinalityType
       DEF TypeOK
  <2> QED
    BY <2>1, <2>2 DEF IInv, CountersExact
<1>s. \A w \in Workers : wpc[w] \notin {"test", "capture", "load", "store"}
  BY <1>0 DEF QueueWatched
<1>2. \A w \in Workers : wpc'[w] \notin {"test", "capture", "load", "store"}
  <2>1. CASE \A w \in Workers : Ordinary(w)
    BY <1>q, <1>s, <2>1 DEF Ordinary, Free
  <2>2. ASSUME NEW w \in Workers, LoadValue(w) \/ StorePrevious(w) \/ Wake(w)
        PROVE  \A v \in Workers : wpc'[v] \notin {"test", "capture", "load", "store"}
    BY <1>0, <1>s, <2>2, WaitAccess
  <2>3. CASE \E n \in Notifiers : NotifierStep(n)
    BY <1>0, <1>s, <2>3, Notified
  <2> QED
    BY <1>0, <2>1, <2>2, <2>3, OrdinarySteps
<1>3. \/ overtaken'
      \/ \E w \in Workers : Awake(w)'
      \/ \E n \in Notifiers : Coming(n)'
  <2> SUFFICES ASSUME ~overtaken'
               PROVE  \/ \E w \in Workers : Awake(w)'
                      \/ \E n \in Notifiers : Coming(n)'
    OBVIOUS
  <2>0. (\E w \in Workers : Awake(w)) \/ (\E n \in Notifiers : Coming(n))
    <3>1. ~overtaken
      BY <1>0, ConditionSplit, SignalStart, WaitAccess, SignalAccess
         DEF condition, NotifierStep
    <3> QED
      BY <1>0, <3>1 DEF QueueWatched
  <2>1. CASE CancelNotify \/ Renotify \/ \E p \in Performers : Notify(p)
    <3>1. UNCHANGED <<value, previous, start, next, overtaken, wpc>>
      BY <1>0, <2>1, SignalStart
    <3>2. CASE UNCHANGED <<notify, ppc>>
      BY <2>0, <3>1, <3>2 DEF Awake, Coming
    <3>3. ASSUME NEW n \in Notifiers,
                 notify'[n] = IF Captured THEN "previous" ELSE "none"
          PROVE  \/ \E w \in Workers : Awake(w)'
                 \/ \E m \in Notifiers : Coming(m)'
      <4>1. CASE Captured
        BY <3>3, <4>1 DEF Coming
      <4>2. CASE ~Captured
        BY <1>o, <3>1, <4>2 DEF Captured, Awake
      <4> QED
        BY <4>1, <4>2
    <3> QED
      BY <1>0, <2>1, <3>2, <3>3, SignalStart
  <2>p. ASSUME NEW n \in Notifiers, ~\E p \in Performers : Notify(p),
               n \in Performers /\ ppc[n] = "notify"
        PROVE  Coming(n)'
    BY <1>0, <2>p, NotifyNext DEF Coming
  <2>2. CASE /\ UNCHANGED condition /\ ~\E p \in Performers : Notify(p)
             /\ \A w \in Workers : Ordinary(w)
    <3>1. UNCHANGED <<value, previous, start, notify, next>>
      BY <2>2 DEF condition
    <3>2. ASSUME NEW w \in Workers, Awake(w) PROVE Awake(w)'
      BY <2>2, <3>1, <3>2 DEF Awake, Ordinary, Free
    <3>3. ASSUME NEW n \in Notifiers, Coming(n) PROVE Coming(n)'
      BY <2>2, <2>p, <3>1, <3>3 DEF Coming
    <3> QED
      BY <2>0, <3>2, <3>3
  <2>3. ASSUME NEW w \in Workers, LoadValue(w) \/ StorePrevious(w) \/ Wake(w)
        PROVE  Awake(w)'
    BY <1>0, <1>s, <2>3, WaitAccess DEF Awake
  <2>4. ASSUME NEW n \in Notifiers, NotifierStep(n),
               ~\E p \in Performers : Notify(p)
        PROVE  \/ \E w \in Workers : Awake(w)'
               \/ \E m \in Notifiers : Coming(m)'
    <3>0. \A w \in Workers : Waits(w) => start[w] <= previous
      BY <1>0, <2>4, SignalAccess DEF ConditionInv, NotifierStep
    <3>v. previous <= value
      BY <1>0, <2>4, SignalAccess DEF ConditionInv, NotifierStep
    <3>1. CASE LoadPrevious(n)
      <4>1. Coming(n)'
        BY <1>0, <1>n, <3>1, SignalAccess DEF Coming
      <4> QED
        BY <4>1
    <3>2. CASE StoreValue(n)
      <4>1. value <= value' /\ value' \in Nat
        BY <1>0, <1>n, <3>2, SignalAccess
      <4>2. ASSUME NEW w \in Workers, Awake(w) PROVE Awake(w)'
        BY <1>0, <1>n, <3>0, <3>v, <3>2, <4>1, <4>2, SignalAccess DEF Awake, Waits
      <4>3. ASSUME NEW m \in Notifiers, Coming(m) PROVE Coming(m)'
        BY <1>0, <1>n, <2>4, <2>p, <3>2, <4>1, <4>3, SignalAccess DEF Coming
      <4> QED
        BY <2>0, <4>2, <4>3
    <3>3. CASE FutexWake(n)
      <4>1. ASSUME NEW w \in Workers, Awake(w) PROVE Awake(w)'
        BY <1>0, <2>4, <3>3, <4>1, Notified, SignalAccess DEF Awake
      <4>2. ASSUME NEW m \in Notifiers, Coming(m),
                   m # n \/ (m \in Performers /\ ppc[m] = "notify")
            PROVE  Coming(m)'
        BY <1>0, <2>4, <2>p, <3>3, <4>2, SignalAccess DEF Coming
      <4>3. ASSUME value > previous PROVE \E w \in Workers : Awake(w)'
        <5>1. ASSUME NEW w \in Workers, Waits(w) PROVE start'[w] # value'
          BY <1>0, <1>n, <3>0, <3>3, <4>3, <5>1, SignalAccess
        <5>2. \E w \in Workers : wpc'[w] # "asleep"
          <6>1. PICK woken \in Woken(n) :
                  wpc' = [w \in Workers |-> IF w \in woken THEN "wait" ELSE wpc[w]]
            BY <3>3 DEF FutexWake
          <6>2. CASE Asleep = {}
            BY <1>o, <6>1, <6>2 DEF Asleep, Woken
          <6>3. CASE Asleep # {}
            <7>1. woken # {} /\ woken \subseteq Asleep
              BY <6>3 DEF Woken
            <7> QED
              BY <6>1, <7>1 DEF Asleep
          <6> QED
            BY <6>2, <6>3
        <5>3. \A w \in Workers : wpc'[w] = "wait" => Waits(w)
          BY <1>0, <2>4, Notified DEF Waits
        <5> QED
          BY <5>1, <5>2, <5>3 DEF Awake
      <4>4. Coming(n) => value > previous \/ (n \in Performers /\ ppc[n] = "notify")
        BY <1>0, <3>3, SignalAccess DEF Coming
      <4> QED
        BY <2>0, <4>1, <4>2, <4>3, <4>4
    <3> QED
      BY <2>4, <3>1, <3>2, <3>3 DEF NotifierStep
  <2> QED
    BY <1>0, <2>1, <2>2, <2>3, <2>4, ConditionSplit, OrdinarySteps
<1> QED
  BY <1>2, <1>3

-----------------------------------------------------------------------------
(* A pool that has just been made satisfies the invariant, lazy or not.    *)
LEMMA InitInv == Init => IInv
<1> SUFFICES ASSUME Init PROVE IInv
  OBVIOUS
<1> USE PoolAssumption DEF Init, PoolInit
<1>1. TypeOK
  <2>1. /\ wpc \in [Workers -> WorkerLocations] /\ workers \in {{}, Workers}
        /\ continue \in [Workers -> BOOLEAN]
    BY DEF WorkerLocations
  <2>2. /\ inputQueue \in Seq(Tasks) /\ output \in Seq(Tasks)
        /\ stack \in Seq(Tasks)
    OBVIOUS
  <2>3. /\ state \in [Tasks -> TaskState] /\ completions \in [Tasks -> Nat]
        /\ wtask \in [Workers -> Tasks \cup {None}]
        /\ ppc \in [Performers -> PerformerLocations]
        /\ ptask \in [Performers -> Tasks \cup {None}]
    BY DEF TaskState, PerformerLocations
  <2> QED
    BY <2>1, <2>2, <2>3 DEF TypeOK, ConditionTypeOK, Signalling, OwnerLocations
<1>2. /\ WorkersPlace /\ HoldsTask
      /\ ConditionInv /\ MissedOne /\ QueueWatched
  BY DEF WorkersPlace, Inside, HoldsTask, ConditionInv, Waits, MissedOne,
     QueueWatched
<1>3. Queued = {} /\ Delivered = {} /\ Stacked = {} /\ Taken = {} /\ InPerform = {}
  BY NothingPlaced DEF Queued, Delivered, Stacked, Taken, InPerform
<1>4. SingleHolder /\ TaskStates /\ SweepInv
  BY <1>3, NothingPlaced DEF SingleHolder, TaskStates, SweepInv, Swept,
     CancelLocations
<1>5. CompletionInv
  BY <1>3 DEF CompletionInv
<1>6. CountersExact
  <2>1. Pushing = {} /\ Taking = {} /\ Running = {} /\ Len(inputQueue) = 0
    BY DEF Pushing, Taking, Running
  <2> QED
    BY <2>1, FS_EmptySet DEF CountersExact
<1> QED
  BY <1>1, <1>2, <1>4, <1>5, <1>6 DEF IInv

(* The strengthened invariant holds of every pool, with any number of      *)
(* workers, performers and tasks.                                          *)
THEOREM Invariance == Spec => []IInv
<1>1. IInv /\ [Next]_vars => IInv'
  BY TypeInductive, WorkersPlaceInductive, HoldsTaskInductive,
     SingleHolderInductive, TaskStatesInductive, SweepInductive,
     CompletionInductive, CountersInductive,
     ConditionInductive, MissedOneInductive, QueueWatchedInductive DEF IInv
<1> QED
  BY InitInv, <1>1, PTL DEF Spec

(* The flags, queues, counters and locations keep their types; neither     *)
(* counter is ever decremented below zero.                                 *)
THEOREM TypeCorrect == Spec => []TypeOK
BY Invariance, PTL DEF IInv

(* tasksInQueue and tasksInExecution are exact, whatever perform, the      *)
(* workers and cancel do in between each other.                            *)
THEOREM CountersCorrect == Spec => []CountersExact
BY Invariance, PTL DEF IInv

(* A task is in one place at a time: in the hands of one performer or one  *)
(* worker, or once in one of the queues; what cancel has cleared is        *)
(* nowhere else.                                                           *)
THEOREM TaskInOnePlace == Spec => []SingleHolder
BY Invariance, PTL DEF IInv

(* Without a call of perform that cancel has overtaken every prepared task *)
(* is completed once, no call goes through a null info.complete, and       *)
(* neither a worker nor a task outlives cancel.                            *)
THEOREM CompletionCorrect == Spec => []CompletedOnce
<1>1. IInv => CompletedOnce
  <2> SUFFICES ASSUME IInv PROVE CompletedOnce
    OBVIOUS
  <2>1. TypeOK /\ SweepInv /\ CompletionInv
    BY DEF IInv
  <2>2. ASSUME late = {}
        PROVE  /\ \A t \in Tasks : completions[t] <= IF t \in Held /\ mpc # "clear"
                                                      THEN 0 ELSE 1
               /\ ~crashed
    BY <2>1, <2>2, HeldPlaces DEF CompletionInv
  <2>3. late = {} => complete \/ (workers = {} /\ inputQueue = <<>>)
    BY <2>1 DEF SweepInv, Swept
  <2> QED
    BY <2>1, <2>2, <2>3 DEF CompletedOnce, CompletionInv
<1> QED
  BY Invariance, <1>1, PTL

(* The notification of cancel is missed by one worker at most, unless a    *)
(* notification that another had overtaken has set value back.             *)
THEOREM CancelMisses == Spec => []CancelMissesAtMostOne
<1>1. IInv => CancelMissesAtMostOne
  <2> SUFFICES ASSUME IInv, mpc = "join", notify[Owner] = "none", ~overtaken
               PROVE  Cardinality(Missed) <= 1
    BY DEF CancelMissesAtMostOne
  <2>1. \A v, w \in Missed : v = w
    BY DEF IInv, MissedOne, Missed, Remaining, Waits
  <2>2. CASE Missed = {}
    BY <2>2, FS_EmptySet
  <2>3. ASSUME NEW w \in Missed PROVE Cardinality(Missed) <= 1
    <3>1. Missed = {w}
      BY <2>1, <2>3
    <3>2. Cardinality({w}) = 1
      BY FS_Singleton
    <3> QED
      BY <3>1, <3>2
  <2> QED
    BY <2>2, <2>3
<1> QED
  BY Invariance, <1>1, PTL

(* A queued task is not left to workers that all sleep, unless a           *)
(* notification that another had overtaken has set value back.             *)
THEOREM TaskIsRemembered == Spec => []TaskRemembered
<1>1. IInv => TaskRemembered
  <2> SUFFICES ASSUME IInv, Forgotten, ~overtaken PROVE FALSE
    BY DEF TaskRemembered
  <2>1. \A w \in Workers : ~Awake(w)
    BY DEF Forgotten, Awake
  <2>2. \A n \in Notifiers : ~Coming(n)
    BY DEF Forgotten, Coming
  <2> QED
    BY <2>1, <2>2 DEF Forgotten, IInv, QueueWatched
<1> QED
  BY Invariance, <1>1, PTL

=============================================================================
