# Verification of the Xenolith runtime's synchronization core

The Xenolith runtime (`src/`) is a portable base library: a freestanding
C/C++ surface over the platform's libc, with its own threads, locks, memory
pools, event loop, thread pool and window layer. Everything above the first
few headers rests on a small set of futex primitives
(`include/sprt/runtime/thread`), on the pthread layer built from them
(`core/pthread`) and on the thread pool above both (`src/dispatch`). An error
there is a lost wake-up, a record freed under a thread or a task that is never
completed: something that a test meets once in a million runs. This project models
those parts one atomic access at a time, checks them with TLC on small
instances and proves the central invariants of the primitives, of the thread records and
of the pool with TLAPS for any number of threads.

## 1. Inventory

`PROJECT.json` lists every component, modelled or not. The ones with logic of
their own:

| Component | State | Operations | Used by |
|---|---|---|---|
| futex wrappers (`core/linux/sprt_lock.cc`) | kernel wait queues | `sprt_qlock_wait`, `wake_one`, `wake_all`, PI variants | all locks |
| `qmutex` | word with LOCK, WAIT bits | `lock`, `try_lock`, `unlock` | everything; `mutex_t` of plain kind |
| `rmutex`, `mutex_t` | owner id and WAITERS bit, recursion counter, robust lists | `lock`, `try_lock`, `unlock`, recovery | pthread mutexes |
| `qonce` | word with LOCK, WAIT, COMPLETE bits | `perform` | `pthread_once`, static initialisation |
| `qtimeline` | 31-bit counter and WAITERS bit | `wait`, `signal`, `set_and_signal`, `try_wait` | thread state, join |
| `qcondvar` | `mutexid`, `counter`, `value`, `previous` | `wait`, `wait_for`, `notify_one`, `notify_all` | `condition_variable`, `pthread_cond_t`, thread pool |
| `qbarrier` | `nthreads` + PassFlag, `nIn`, `nOut`, `generations` | `wait` | `pthread_barrier_t` |
| `qrwlock` | flags word, two mutexes, reader counter | read and write lock, timed and try | `shared_mutex`, `pthread_rwlock_t` |
| thread lifecycle (`core/pthread/pthread.cc`) | free list and active map of `thread_t`, its timeline, attributes, mutex | `create`, `__runthead`, `join`, `timedjoin`, `tryjoin`, `detach`, `cancel`, `testcancel`, `exit` | all threads |
| pthread keys | key table, per-thread values | create, delete, get, set, destructors | thread-local storage |
| memory pools | pool tree, allocator free lists, cleanups | create, alloc, free, clear, destroy | strings, containers |
| dispatch `ThreadPool`, `TaskQueue`, `PriorityQueue`, `Task`, `Thread` | input queue, two task counters, `finalized`, workers; output list | `perform`, `worker`, `cancel`, `update`, `waitForAll`, `wait` | asynchronous work |
| dispatch `Queue`, `Looper`, handles | status of each handle, suspended and pending sets | submit, run, pause, resume, cancel, wakeup | event loop |
| dispatch `Bus` | delegates with a state, looper per delegate | add, dispatch, invalidate | events between loopers |
| event backends, window layer, filesystem, text, geometry, libc wrapper | | | platform |

**How they interact.** A call goes downward (`ThreadPool` → `condition_variable`
→ `qcondvar_base` → futex) and the only way upward is a wake-up. Threads share
the atomic words; sections under `qmutex` share the rest. A thread record is
shared between its native thread, which uses its timeline and attributes
partly *outside* its mutex, and the callers of join, detach and cancel.

**What is hard.** Every primitive announces a waiter in one atomic step and
sleeps in another; a waker drops the announcement in one step and wakes in
another. Others run in between: a locker that barges in, a second signal, a
timeout, an `EINTR`, the threads of the next barrier batch. Records are reused,
so a late read sees another thread's data. The `hazards` of `PROJECT.json`
list these places by line.

**What correct means.** For a lock, exclusion, and that no sleeper is
forgotten. For once, one execution, finished before anybody returns. For a
timeline, nobody sleeps on a reached value. For a condition, a signal given
under the mutex releases a waiter. For a barrier, nobody passes before its batch
is complete, and complete batches do pass. For a thread record, one release, after
the thread is done with it. For a readers-writer lock, readers or one writer, an
exact count of readers, and a writer that is not starved. For a recursive mutex, one
owner, who frees it at the last unlock. For the pool, every accepted task completed once, by the
owner's `update` or by `cancel`, counters that agree with the queue, and calls that end.

## 2. Modules

| Module | Models | Theorems |
|---|---|---|
| `Futex` | the wait queue behind `sprt_qlock_*` (the kernel is external) | |
| `QMutex` | `qmutex_base` with its callers `qmutex` and `mutex_t` | `QMutexProofs` |
| `QOnce` | `qonce::perform` and `pthread_once` | `OnceTimelineProofs` |
| `QTimeline` | `qtimeline` | `OnceTimelineProofs` |
| `QCondvar` | `qcondvar_base` under `condition_variable`, `cond_t` | `QCondvarProofs` |
| `QBarrier` | `qbarrier_base` under `pthread_barrier_t` | `QBarrierProofs` |
| `AbstractRwlock` | what a readers-writer lock promises | |
| `QRwlock` | `qrwlock_base` with its caller `rwlock_t` | `QRwlockProofs` |
| `RMutex` | `rmutex_base` with its caller `mutex_t` (recursive, errorcheck, robust) | `RMutexProofs` |
| `ThreadLifecycle`, `MCThreadLifecycle` | `thread_t` records | `ThreadLifecycleProofs` |
| `ThreadPool` | `ThreadPool`, `PriorityQueue`, `Task`, worker `Thread`s | |
| `TaskQueue`, `MCTaskQueue` | `TaskQueue`, extends and completes `ThreadPool` | `TaskQueueProofs` |

Conventions in all of them:

- **One action is one atomic access** to shared memory, together with the local
  computation up to the next access. `pc[t]` says where the thread is. A guard
  of an action is the branch the code takes; an early return goes back to
  `"idle"`.
- **Memory order.** The source uses sequentially consistent read-modify-writes on
  the futex words (`_atomic::fetchOr` and its kin), so a word has one value.
- **Words are their parts.** A word of flags is the set of its bits, a timeline is a
  counter and a Boolean with the carry of `fetchAdd` between them.
- **Timeouts** keep what the code compares: infinite, some left, none left. A
  timeout or an `EINTR` may come at any moment and never has to.
- **Futex.** `asleep` is queued in the kernel; `woken` is returned from the wait,
  with 0 or `EAGAIN`. Compare-and-queue is atomic; `wake_one` picks any sleeper.
- **Mutants.** Next to an action, an operator marked *Mutant* is a wrong version
  of it that breaks a named property; `PROJECT.json` pairs them. They are never
  part of `Next`.

### QMutex

`value`, `c[t]` and `timeout[t]` are the word and the locals of `_lock`.
`Lock` and `TryLock` are the first `fetchOr`; `Check`, `SetWait`, `Wait`,
`Elapse`, `Retry` the steps of the loop; `Unlock` and `Wake` the exchange and the
wake of `_unlock`. A thread in `QmutexClients` is one that calls
`qmutex::lock`, which has no timeout and ignores the returned status;
the others call `mutex_t::lock`, which enters only on `Status::Ok`.
`Interruptible` threads may get `EINTR`.

### QOnce

`started` and `finished` count entries to and returns from the callback; the
other variables are those of `perform`. A failed futex wait only makes the loop
read the word again, so interruptions are an unconditional action.

### QTimeline

`count` and `waiters` are the word. `Range` is `VALUE_MASK + 1`, a parameter,
so that overflow into `WAITERS_BIT` happens in a model of three values.
Signals of several threads are in three steps: add, drop the bit, wake.

### QCondvar

`mutexid`, `counter`, `value`, `previous` are the fields of the condition. A
waiter `Capture`s it for its mutex, is `Count`ed, `Load`s the value,
`Store`s it to `previous`, `Release`s the mutex, waits, relocks and, last of all, gives the condition
up. A signaller holds `Main`, reads `previous`, stores
`previous + 1` and wakes one or all. The mutexes are external (an owner or
none): that a real one is such a lock is what `QMutex` shows.
`MaxValue` bounds the 32-bit value; in the code it wraps after 2^32 waits
between which one waiter never runs, which is not modelled.

### QBarrier

`pass`, `nIn`, `nOut`, `generations` are `barrier_data`. A thread
takes a ticket; the last of the batch, the *golden* one, sets PassFlag,
or waits while the batch before it is leaving; each thread takes an exit ticket, and
the last of them, the *black* one, drops PassFlag and lets the next golden ticket in.
`calls` and `returns` are history variables that the properties count with: `Total` is the number of pairs
`<<t, n>>` such that `t` has made (or returned from) its `n`-th call, so that one call more is one element more.

### ThreadLifecycle

`free` is the free list, `attr`, `state`, `mutex` the fields of a
record, `wpc` a native thread's place in `__runthead`, `cpc` a client's place in a call.
`runner[r]` is the native thread the record was last allocated for: it is
what the code believes and never stores. The waits on `thread->state` are guards
(`QTimeline`); a section of `thread->mutex` is one step where no access from
outside the mutex can come in between, and several steps in `detach` and in an asynchronous
cancel, where `__runthead` can. A client uses a handle as POSIX permits: after
create and before the join or detach that ends it (`live`). With `Overlap = FALSE` it
makes one join or detach of a thread at a time, except for deferred cancels.

### QRwlock

`value`, `counter` and the two inner mutexes are `rwlock_data`; `rd` and `wr` are the tables
`threadRdLocks` and `threadWrLocks` by which `rwlock_t` knows who holds what. A call goes through the
gatekeeper (`Gate`, `GateWait`, `Gated`); a reader lets it go and is counted (`RdIncrement`), a
writer keeps it. `_rdlock` and `_wrlock` are one loop here, since they differ only in the bit
they set and the bits that block them: `Cas`, `Head`, `Announce`, `Wait`, `Elapse`, `Retry`.
`Decrement`, `Subtract` and `Clear` are `_rd_decrement_unlock`, which holds `counter_mutex`
across them. `Granted` and `Failed` are the ends of the call in `rwlock_t`, where a timeout of zero
from the start is compared again, so it is told from one that has run out. The inner qmutexes are a Boolean and
an owner: `QMutex` shows that they are locks. Two history variables, `leaked` and `abandoned`, name
what the code never repairs (section 5), so that the properties say exactly what holds
before and after it happens. `AbstractRwlock` is: readers may enter while nobody writes, a writer while nobody
else is in.

### RMutex

`word` is the futex word as a record (owner, `WAITERS_BIT`, `OWNER_DIED`); `counter` is `rlock.counter`;
`ownerDied`, `notRecoverable` and `registered` are the flags of the attributes and the list of robust mutexes of a
thread. `Lock` with `Head`, `Announce`, `Wait` and `Retry` is `_lock`; `Locked` and `Relocked` are what
`mutex_t::lock` makes of its answer; `Release`, `UnlockCas`, `Store`, `WakeStore` and `Wake` are `_unlock` and
`rlock_wake`. `Consistent` and `UnlockInconsistent` are what the next owner can do about an owner that died. `inside` is who was told by the code that it
has the mutex and has not given it back, a thread that has ended with it included.

A thread that ends (`ended`) leaves its robust mutexes to `force_unlock`, which is called from the cleanup of the thread's memory
pool. Who runs it decides what it does, since it compares the owner in the word with the id of the *caller* (`pthread_mutex.cc:431-437`). A thread in
`Detached` releases its own record, so it is the owner, and `ThreadExit` marks and frees the mutex. The record of any other thread is released by
the thread that joins or detaches it: `Join(t, u)` is `force_unlock` of `u`'s mutex by `t`, which does nothing to the word unless `t` owns it itself.
Ids are not used again.

`intact` is a history variable: it becomes false at the three places where the code lets a second thread in, which are the store in `rlock_wake`, a
`try_lock` of a taken mutex, and a join that frees the joiner's own lock in the name of the thread it joins.

### ThreadPool and TaskQueue

`ThreadPool` has the state of `WorkerContext` and three kinds of threads: performers (`perform` from its test of `finalized`
to `notify_one`, eight locations), workers (the loop of `Worker::worker`) and the owner, whose `cancel` is in this module.
`TaskQueue` adds the output queue's side of the owner: `update`, `waitForAll`, `wait` with and without a timeout, and
`performOnThread`. A task has the stages `Initial`, `Prepared`, `Executed`, and `completions` counts calls of its
complete callbacks. The callbacks of a task end and may refuse it. A queue is a sequence; `PushNode` places a task by priority, first or
last among its equals, as the two searches of `pushNode` do.

The mutexes are taken as locks. `inputCondition` is not taken as the condition of `QCondvar`: `perform`, `cancel` and `update` notify it *without*
`inputMutexQueue` (`SPRuntimeDispatchThreadPool.cc:215`, `:172`, `SPRuntimeDispatchTaskQueue.cc:142`), and the workers wait without a predicate. So each access of `_wait` and
`_signal` to `value` and `previous` is a step of its own here: a worker captures, loads `value` (`start[w]`), stores it to `previous`, and
sleeps while `value = start[w]`; a notifier (a performer or the `Owner`) reads `mutexid`, loads `previous`, stores `1 + previous`
(`next[n]`) and wakes one sleeper, or all of them for `notify_all`. `notify[n]` is where it is. A woken or interrupted worker tests `value` again and may sleep
on. `mutexid` and `counter` change only with the mutex held and follow from the places of the workers (`Captured`). Between a notifier's load and its store
others may notify and workers may join, so a store can set `value` *back*. `overtaken` records that: it is true once a notification has
stored less than `value` was. What goes wrong from then on is section 5; the properties say what holds before, and `TaskNotForgotten` and
`CancelStops` what the code's own comments promise without such an exception.

The owner waits for output with a timeout and a predicate, which is tested again when the time is up, so `Counter` needs no notification; a delivery and the
`notify_one` of `outputCondition` that follows it are one step. `Calls` is the set of calls the owner makes. `finalized`, `workers` and the flags are read in separate steps, as the code
reads them, without the mutex. `late` records the tasks that were inside `perform` when `cancel` found or made `workers` empty; these
are the ones the code can lose or complete twice, and the properties except them by name. `crashed` is a call through the null
`info.complete` that `cancel` leaves.

## 3. Runs

| Run | Instance | What it shows |
|---|---|---|
| `qmutex` | 3 threads: 2 `qmutex`, 1 `mutex_t` with timeouts and signals | exclusion; no lost wake-up; sleepers are woken |
| `qonce` | 3 threads, any number of calls | one callback; nobody returns early; every call returns |
| `qtimeline` | 2 waiters, 2 signallers, counter of 3 values | no lost wake-up; a wait on a value that stays reached returns |
| `qcondvar` | 2 waiters, 1 signaller, 2 mutexes, value up to 3 | capture is counted exactly; a signal under the mutex releases a waiter, a broadcast all |
| `qbarrier` | 4 threads, batches of 3, 2 calls each, failing waits | nobody passes early or twice in a batch; complete batches leave |
| `qrwlock` | a reader, a writer that is interrupted, a thread that is both and passes timeouts; read locks up to depth 2, one leak | refinement of `AbstractRwlock`; value, counter and gatekeeper agree with the threads; no lost wake-up; a writer behind the gate is served |
| `rmutex` | 3 threads, one with `try_lock`, one joinable whose waits fail, the others detached; recursive and errorcheck, robust and not; counter up to 2 | owner and count are exact until one of the three defects strikes; no lost wake-up, not even afterwards; sleepers are woken, unless a joinable owner has ended |
| `rmutex_wake` | 2 threads, `lock` and `unlock` only | **violation** of exclusion by the store in `rlock_wake` |
| `thread_join` | 3 threads on 2 records, 2 clients, joins and deferred cancels | a record is its thread's until it is finalized; joins return |
| `thread_one` | 1 thread, all calls of 2 clients, asynchronous cancel, timed joins | its record is released at most once, never under it |
| `taskqueue` | 1 performer with 2 tasks of different priority, 2 workers, lazy or not, `update` and `cancel` | exact counters; a task is completed once; without an overtaken notification, cancel misses one worker at most and no queued task is forgotten |
| `taskqueue_live` | 2 performers with a task each, 1 worker, lazy or not, `waitForAll` and both `wait`s | a queued task is taken; `waitForAll` ends, but for output it has fetched already |

**Bounds.** Three lockers are needed for a mutex to go wrong by forgetting: the one that
unlocks, the one woken and the one left asleep; a fourth only repeats a role.
`qonce` needs the first caller and two waiters that set WAIT before and after COMPLETE. In
`qtimeline`, two signallers make the drop of the bit overlap the add of another, and 3 values
suffice for overflow and steps back. In `qcondvar`, two waiters are the one
a signal could be stolen from and the thief, two mutexes are a capture and a
refusal, one signaller stands for all, since they hold the same mutex, and three values let a signal come before, between and after two waits. Four threads at a barrier of three
make batches overlap with a thread that belongs to the next one, and two calls make a fast thread
come back. Two records and three threads are the least for reuse. The words of
`QMutex`, `QOnce` and `QTimeline` are finite, so those models have no bound but the number of threads.
In `qrwlock` the thread that both reads and writes makes two readers with one writer and one reader with two writers, which are the
cases the counter and the gatekeeper are for; depth 2 is the first recursive read lock, and one leak is
enough, since it is never repaired (`MaxDepth`, `MaxLeaked`). In `rmutex`, three threads are an owner, one that barges in and a sleeper; `MaxCounter` 2 is one recursion.
In `taskqueue`, two workers are the one that is notified and the one that takes its task, and also the one that misses a cancel and the one that must not; one
performer is enough for a task that is late for the cancel that the other task was in time for, and its notification and those of the owner overtake each other. `update` is the call that
matters to a task beside `cancel`: `waitForAll` and the waits only add steps that read. Two tasks of one performer give the queue an order. In `taskqueue_live` two performers spawn at the same time and notify
beside each other and the owner, for one worker that is not there twice. `value` needs no
bound: a worker joins the condition only after it found no task, so it grows with the tasks and the calls of `update` that find one queued. The workers of `taskqueue` are
symmetric: it checks invariants only, and no constant tells two workers apart. That its exception is not idle is seen by dropping it: `TaskNotForgotten`, and `CancelMissesAtMostOne`
without `~overtaken`, are violated there.

**Deadlock** is checked in the runs of `QMutex`, `QOnce`, `QTimeline` and `QCondvar`, where some
thread can always make a call. It is off in the others: the calls of the
barrier are bounded, each native thread is started once and each task made once, so they
come to an end; and an abandoned gatekeeper, a leaked count or a `wait()` that locks its own
mutex really stops everybody (section 5).

**Fairness** is weak fairness of the steps *inside* a call: the scheduler runs a
thread that can run. In `QMutex` the unlock is one of them, and in `QOnce` and `ThreadLifecycle` the return of the callback:
both are the caller's duty, without which nothing could be promised. The same holds for the unlock in `QRwlock` and `RMutex`. In `QCondvar` no thread is assumed to
call `Unlock`, so the liveness properties there speak of leaving the blocked part of `_wait`,
not of getting the mutex back. In `TaskQueue` a mutex is taken by some thread that finds it free, and
every step of a worker, of a `perform`, of a notification and of a call of the owner is fair; an interrupted futex wait (`Interrupted`) is not. No call, timeout, signal or failure is ever assumed to happen.

## 4. Proofs

All proofs hold for every set of threads and every value of the other
constants allowed by the modules' named assumptions.

- **`QMutexProofs`.** `TypeCorrect`. `Exclusion` proves `MutualExclusion` together with
  `LockedIffHeld`: exclusion is not inductive alone, since it does not say that the
  bit keeps others out. Both need `InterruptsReported`: no interruptible
  thread is one that drops the status of `_lock`. Without it the claim is false
  (section 5). `WakeupKept` needs no such assumption: `NoLostWakeup` is
  inductive because a woken thread counts as a wake-up on its way until it has set
  both bits again.
- **`OnceTimelineProofs`.** Both primitives put everybody to sleep on one word and wake them at once; they share a module and nothing else,
  not even a name (those of `QOnce` are `OnceInit`, `OnceNext`, `OnceSpec` and so on). For `QOnce`, `OnceInv`: the types; `BitsTell` (`LOCK_BIT` iff the callback was
  entered, `COMPLETE_BIT` only when it has returned, and between the two somebody is at it);
  `FirstAlone` (one thread is at it); `WaitAnnounced` (a waiting thread has set
  `WAIT_BIT` and waits for a word without `COMPLETE_BIT`); and the two properties
  `ReturnAfterCallback` and `NoForgottenWaiter`. From it `OnceTypeCorrect`, `OnlyOnce`,
  `NobodyEarly` and `OnceWakeupKept`. For `QTimeline`, `TypeCorrect` for every `Range`: the counter does not
  leak out of its bits. `WakeupKept` rests on `WaitReady`: a thread about to wait
  holds a word that is below its target and has `WAITERS_BIT`, so that equality at
  the futex gives both for the current word.
- **`QCondvarProofs`.** One inductive invariant, `IInv`: the types; `Ownership` (a thread
  between taking and giving back a mutex owns it); `CaptureCounted`; `LastAlone`
  (while the last waiter gives the condition up nobody else is counted, which its hold
  on the mutex guarantees); `ValueOrder` (how `value`, `previous` and the locals of
  blocked waiters are ordered); `SignalNotAbsorbed`. From it
  `TypeCorrect`, `CaptureExact` and `SignalKept`. The argument is that every access to
  `previous` by a waiter of `Main` and by a signaller is made with `Main` held,
  and that a waiter of another mutex cannot be inside while `Main` has the condition.
  The set of waiters is finite (`FiniteAssumption`), since `counter` counts it.

- **`QBarrierProofs`.** `TypeCorrect`, `NobodyEarly` (`NoEarlyReturn`) and `PassesOnce` (`OncePerBatch`) for every finite set of threads, every
  `Count >= 1` and every number of calls, with waits that fail. None of the three is inductive; they are read off a count. `IInv` is: the
  types; `CallPlace` (what a ticket and a golden ticket are); `GenerationSeen` (a thread has returned at most once per generation it has
  seen, and one that left the spin has seen a new one: this is what keeps a thread with an old `gen` from passing twice); `PassAlone` (PassFlag
  goes from a golden ticket before `Clear` to a black ticket before `Drop`, one thread at a time, and until
  `Clear` the exit tickets of the batch before are used up or there was no batch); `TicketsExact` (every ticket is in `nIn` or in a batch taken out
  of it); `ExitsBounded` (a batch whose golden ticket has cleared `nOut` lets that thread and `Count - 1` others out); `CallsExact`. A first guess, that nobody drops PassFlag
  while a golden ticket is between `Clear` and `NextGeneration`, is false: a thread with an old `gen` may take the black ticket there, and
  the next golden ticket clears `nOut` before the first has advanced `generations`. The count therefore goes by cleared batches, not by
  generations. That `nIn` stays below the number of threads (`TypeOK`) follows last: what is in `nIn` are calls that have not returned.
- **`RMutexProofs`.** `IInv`: the types; `CountExact`; `OwnerPlace` (while `intact`, a thread inside
  is between calls, and one that frees the mutex still owns the word and has no count left); `Fetched` (what a
  thread knows of the word between its fetch and its next access: it is not the owner, it waits on a word
  with `WAITERS_BIT`, it frees with a compare only a word without it); `DiedPassing` (`OWNER_DIED` is in the word only
  until its owner gets to `rlock_wake`); `EndedPlace` (a thread that has ended has at most an unlock to finish, and a detached one
  owns the word only until that has freed it); `NoLostWakeup`. `CountExact` needs `OwnerPlace`, since the word is stored and
  not compared by `_unlock`. `NoLostWakeup` is kept by every step, those that break exclusion included: a store
  of 0 that wipes a foreign owner and its `WAITERS_BIT` is always followed by a wake. From it `TypeCorrect`,
  `CountAndOwner`, `WakeupNotLost`, and `ExclusionWhileIntact`: two threads are inside together only after
  one of the three places where `intact` is lost. `CountExact` counts a joinable thread that has ended with the mutex as its owner, which is what the code does;
  `DetachedOwnerFreed` says that a detached one keeps the word only until its unlock has stored to it.
- **`QRwlockProofs`.** `IInv` has ten parts. Who is where: `CallPlace`, `CounterMutexHeld` (the owner of `counter_mutex`
  is at `sub` or `clear`), `GateHeld` (one thread is behind the gatekeeper; nobody is once it was abandoned).
  What the words say: `CounterExact` (the counter is the number of read locks held, on their way in, on their way out
  and leaked), `BitsOwned`, `ReadBitOwned`. What a thread knows: `FetchedRead`, `FetchedWait`. And `NoLostWakeup`.
  The difficult step is the last reader's `Clear`: it is safe because the counter was zero at `Subtract` and `counter_mutex`, held since
  then, is needed to raise it. `WordsExact`, `WakeupNotLost` and `TypeCorrect` are parts of `IInv`; `Refinement` shows from `BitsOwned` and `GateHeld` that each step is
  one of `AbstractRwlock` or leaves its view alone. The set of threads is finite, since read locks are counted; `MaxDepth` and `MaxLeaked` are
  arbitrary.
- **`ThreadLifecycleProofs`.** `TypeCorrect` with all calls. `RecordKept` (`OwnRecord`) under the hypothesis `Disciplined`: joins, detaches and asynchronous
  cancels of one thread do not overlap, and either all threads are created joinable, or all detached, and nobody calls `detach` (`OneKind`), or one thread
  is started at most (`OneThread`), joinable or detached, and every call may be made on it. Outside of it the claim is false (section 5, item 5, and the double release of
  a detach beside a join). Within `OneKind` any number of threads use any number of records, with timed joins that give up and cancels of both types. `IInv`
  follows a record: free; one creator's (`CreatePlace`, the thread does not get past its wait for `StateExternalInit`); its thread's (`OwnerPlace`, `RunnerPlace`); in
  a client's hands (`LivePlace`, only while it is not detached); one joiner's, one detacher's or one asynchronous cancel's (`TakePlace`). The thread's late read of `attr` is
  harmless because a thread that finds `Detached` there still has the record (`OwnerPlace`). `detach` keeps this since the handle it marks is live, and in `OneThread` that
  can only be the handle of this thread; `create` keeps it in `OneKind` since the record may be another thread's by then, but one of the same kind
  (`KindKept`), and in `OneThread` since no thread is left to create.
- **`TaskQueueProofs`.** One invariant for pool and queue, `IInv`: the types; `WorkersPlace` (which workers exist and who holds `inputMutexQueue`); `HoldsTask`; `SingleHolder` (a task is in one place: a performer, the queue, a worker, the output, `update`'s stack, or drained);
  `TaskStates` (how far a task in each place has come); `SweepInv` (once `cancel` has found or made the list of workers empty, only a
  `perform` on record as `late` can start workers or queue a task); `CompletionInv`; `CountersExact`; and three parts about the
  condition, below. `CountersExact` is not inductive without `SingleHolder`: `clear` moves
  the whole queue at once, and the count of drained tasks grows by its length only because no task is queued twice. From it `TypeCorrect`,
  `CountersCorrect`, `TaskInOnePlace`, `CompletionCorrect` (`CompletedOnce`), `CancelMisses` (`CancelMissesAtMostOne`) and `TaskIsRemembered` (`TaskRemembered`).

  The condition: as long as no notification is overtaken `value` does not go back, and then `previous` is at least what every worker that waits has started from
  (`ConditionInv`), so `1 + previous` moves all of them. Two things are left. A worker may have loaded `value` and not stored it to `previous` when
  `cancel` loads that; it holds the mutex, so it is the only one, and it stays the only one since those behind it read `finalized`
  (`MissedOne`). And a queued task must not meet such a worker: `push` holds the mutex, so nobody is between its test of `tasksInQueue` and its release of the mutex, and while the
  task is queued nobody gets there; `previous` stands still, and either a worker will look at the queue by itself or a notification that stores more than `previous` is on
  its way (`QueueWatched`). An overtaken notification breaks `ConditionInv`, and with it both claims.

  `PoolAssumption` asks for finite sets of workers, performers
  and tasks, at least one worker, and integer priorities; their order is irrelevant to the proof, which needs of `PushNode` only that it
  inserts its task somewhere (`PushRange`).

**Proved and not run.** `TypeOK` of `QMutex` and of `QOnce`, `LockedIffHeld` of `QMutex`, `SingleHolder` of the pool,
`ExclusionWhileIntact` and `DetachedOwnerFreed` of `RMutex` are theorems or parts of the invariants above; no run repeats them.

**Only model-checked.** Liveness under fairness (`SleeperIsWoken`,
`EveryCallReturns`, `ReachedWaitReturns`, `BroadcastWakesAll`, `SignalWakesOne`,
`EveryBatchLeaves`, `JoinReturns`, `WriterServed`, `TaskServed`, `WaitForAllEnds`) and anything with `ENABLED` is out of
the prover's reach, as is induction over recursive data. Every safety property that a passing run checks is stated by a theorem;
`OwnRecord` in the cases of both its runs, `thread_join` (`OneKind`) and `thread_one` (`OneThread`).

## 5. What disagrees with the code

With a run:

1. **`rlock_wake` frees a locked mutex** (`rmutex_wake`). `_unlock` of an `rmutex` stores 0 in the word (`rmutex.h:301`) and then calls
   `rlock_wake`, which, without priority inheritance, stores 0 once more before it wakes a
   thread (`sprt_lock.cc:198`, the same on Darwin and Windows). A thread that locked the mutex in between loses it, and the next one gets in
   beside it.

Seen with TLC, in instances that are not among the runs; the constants are enough to see them again:

2. **A robust mutex stays with a dead owner** (`RMutex` with two threads, none in `Detached`, violates `DeadOwnerFreed`). `force_unlock` compares the word with the id of the thread that runs it
   (`pthread_mutex.cc:431-437`). For a joinable thread that is the one that joins (`pthread.cc:557`, `:588`) or detaches it (`:501`), so nothing is unlocked,
   marked or woken, and whoever locks the mutex next waits for ever, where it "should be locked successfully at first" (`pthread_mutex.cc:198`). If
   the caller owns the mutex itself, and the dead thread only had it in its list, the caller's lock is dropped under it; that is the third way to lose `intact`.
3. **A detached record that nobody releases** (`ThreadLifecycle` with a joinable thread and a client that detaches it violates `DetachedReleased`). `__runthead` sets `StateFinalized` outside of the mutex that `detach` relies on ("We hold the
   thread's mutex, so, it can not change state by itself", `pthread.cc:496`); a thread that finalizes between detach's test and its mark leaves
   its record allocated for ever.
4. **A finalized thread that is cancelled** (one thread, one client that joins and cancels, `AsyncCancel = TRUE`: `FinalizedIsFinal`). An asynchronous `cancel` that has read the state before `StateFinalized` overwrites it with
   `StateCancelling` (`pthread.cc:692`), and a thread "ready to be joined" (`pthread_thread_t.h:81`) is no longer ready.
5. **A record released by the thread before** (two threads on one record, joinable or detached, and a client that joins: `OwnRecord`). `__runthead` reads `thread->attr` (`pthread.cc:152`) after `StateFinalized` let a
   joiner release the record. If it was reused for a detached thread, the old thread releases the new one's record ("We are here because
   detached thread has completed execution", `pthread.cc:153`).
6. **A join refused though nobody waits** (one thread, two clients, joins with and without a timeout, `Overlap = TRUE`: `RefusedBesideJoiner`). A timed join that gives up leaves `JoinRequested` set (`pthread.cc:592`), and every later
   join of a thread that still runs gets `EINVAL` ("Another thread is already waiting to join this thread.", `:566`).
7. **A task left in the queue** (`TaskNotForgotten`, in the instance of `taskqueue`, or with two performers, one worker and `update`). `_signal` stores `1 + previous` from a load that may be old (`qcondvar.h:115-116`), and the pool notifies without the
   mutex. A notification that was overtaken by another sets `value` back; it, or a later one, then stores the very value that a sleeper started from, and
   that sleeper takes the wake and sleeps on. The task "to be executed in other thread" (`task.h:70`) stays queued with every worker asleep, until the next `perform` or
   `update`. `TaskRemembered`, `TaskServed` and `WaitForAllEnds` except runs in which `value` was set back, and `TaskIsRemembered` shows that this is the only way.
8. **A cancel that never ends** (one performer, one worker and `cancel`: `CancelStops`). `cancel` sets `finalized`, stops the workers and notifies without `inputMutexQueue` (`SPRuntimeDispatchThreadPool.cc:166-172`). A
   worker that has tested `finalized` and not gone to sleep yet misses all of it, and `cancel` joins it for ever, though it is there to
   "stop all workers" (`thread_pool.h:75`). It is one worker at most (`CancelMissesAtMostOne`), unless `value` was set back as in item 7: then
   the value that `cancel` stores can be the one that several sleepers started from.
9. `qmutex::lock` ignores the status of `_lock`. When the futex wait fails with
   `EINTR` (`qmutex.h:83-85`) the caller goes on without the lock, though "prev value already has LOCK flag, wait"
   (`qmutex.h:66`). `QMutex` with an interruptible thread in `QmutexClients` violates `MutualExclusion`.
10. A barrier for one thread never drops PassFlag: the black ticket is
   number `nthreads - 2`. The second call sleeps for ever. `QBarrier` with `Count = 1` violates `EveryBatchLeaves`.
11. `waitForAll` can wait for ever. A worker delivers its task and then decrements `tasksInExecution`
   (`:224-225`); the owner may fetch the task and read the count in between, and then waits for output that nobody will
   produce. Its timeout does not help: see `qcondvar.h:98` below. `WaitForAllEnds` excepts this state by name, beside item 7.
12. A `perform` that overlaps `cancel` (`:197`): with a lazy pool it may spawn workers after the cancel, though "remove lazy-init flag to prevent
   run-after-cancel" (`:161`); its task may stay in the queue, be lost, or be completed by `cancel` and again by `update`; a refused
   one is delivered through a null `info.complete`. `CompletedOnce` excepts the tasks in `late`.
13. A write lock that times out or is interrupted (`qrwlock.h:462`), a read lock with a timeout of zero (`qrwlock.h:290`) and a write
   lock with a timeout of zero that succeeds (`pthread_rwlock.cc:139`) return with the gatekeeper locked, the last one with the write lock too. Nobody
   gets in after that. `StateExact` shows that these are the only ways (`abandoned`).
14. A read lock taken twice by one thread is unlocked once: `_unlock_fair` never answers `Propagate`, so `rwlock_t::unlock` erases the whole
   entry (`pthread_rwlock.cc:212`), the second unlock answers `EPERM`, and the counter stays above zero (`leaked`). A recursive read lock with a writer
   behind the gate is a deadlock of the two; `WriterServed` excepts both.
15. `try_lock` of a taken `rmutex` without priority inheritance answers Ok (`rmutex.h:243-251`, `sprt_lock.cc:184`); the second of the ways to lose `intact`.
16. A relock by the owner of a recursive mutex counts and answers `ETIMEDOUT` (the fall-through at `pthread_mutex.cc:164`); a
   caller that believes the answer never unlocks it again (`extra`).

Met while reading:

- `pthread_mutex.cc:245`: the wake in the unlock of an inconsistent mutex wipes the `OWNER_DIED` that was just set; `consistent` (`:460`) answers `EINVAL` when
  it succeeds; no lock tests `NotRecoverable`.
- `rmutex.h:140`: `*timeout && timeout == 0` is never true, so the loop never gives up by itself.
- `runtime_core_sprt.cpp:431-441`: `recursive_timed_mutex` waits with `SyscallLock` and without `WAITERS_BIT`; nobody knows of
  its sleepers.
- `pthread.cc:499-507`: detach tests `StateFinalized` before `JoinRequested`; with a
  joiner on its way the record is released twice. The two calls together are undefined in POSIX.
- `pthread_thread_t.h:81`: after an asynchronous cancel a thread ends without
  `StateFinalized`, and its joiner waits for ever (`JoinReturns` excepts killed threads).
- `qcondvar.h:98`: the `Timeout` of the loop is overwritten by the status of `LockFn`; a timed
  wait never reports it, and `wait_for` with a predicate goes round with no time left. `TaskQueue` models `wait(iv)` accordingly.
- `qbarrier.h:100`: a futex wait that fails leaves its ticket taken, and the batch is one
  exit short from then on. `EveryBatchLeaves` therefore excepts failures.
- `pthread_barrier.cc:115`: `nOut` rests at `nthreads - 1`, so destroy of an idle barrier that was
  used answers `EBUSY`.
- `SPRuntimeDispatchTaskQueue.cc:161`: `wait()` calls `update`, which locks
  `outputMutex`, with that mutex held. In the model the owner stays at `relock`, and nobody delivers any more.
- `SPRuntimeDispatchThreadPool.cc:181-186`: tasks that `cancel` drains stay in both counters, so `waitForAll` after `cancel` does not end if any
  was drained (`CountersExact` has the term).
- `priority_queue.h:197-198`: `clear` replaces the locks by none while it works; a `push` at that moment runs unlocked.

## 6. What is not modelled

- In `QCondvar`: `condition_variable_any`; a relock that does not answer Ok (`qcondvar.h:98-99`: the `EOWNERDEAD` of a robust mutex, or a lock that fails),
  after which the code leaves the waiter in `counter` and the condition captured, so `CaptureCounted` is claimed for mutexes whose relock succeeds; attributes and clocks of
  `pthread_cond_t`; signals without the mutex, for which `ThreadPool` has a model of its own.
- In `QBarrier`: attributes, destroy (it only reads).
- In `QRwlock`: attributes, `EINTR` in the waits for `counter_mutex`, whose status the callers drop, the variants without a
  gatekeeper (`_funlock`, `_unlock`), a read lock asked for by the writer (it answers `EDEADLK` and changes nothing) and a write lock asked for by a
  reader (it waits for itself, as POSIX allows).
- In `RMutex`: priority inheritance (its word belongs to the kernel) and protection, ids that the system uses again, the class `rmutex` and
  the recursive mutexes of C++ beyond what they share with `mutex_t`, the getters and setters.
- In `ThreadLifecycle`: external threads, priorities, thread-local keys,
  the Windows native layer, handles used after their end.
- In `ThreadPool` and `TaskQueue`: task groups, the `wakeup` callback, the free list of nodes of the queue, the memory pools of `update`,
  `TaskQueue::lock`, a delivery apart from its notification of `outputCondition`, `performOnThread` after `cancel` (a null call at once), threads that cannot be created.
- `Queue`, `Looper` and handles, `Bus`, keys, `plock`, memory pools: next in the plan. A delegate of the `Bus` may be invalidated while an event for it is on its way (`SPRuntimeDispatchBus.cc:103`), which is
  a hazard with no property yet.
- The Darwin and Windows futex wrappers, conversion of timeouts.
- Vendored and generated code (musl adapters, mimalloc, lz4, the headers under `toolchains`), which is most of the repository's lines; pure conversions
  (text, hashes, URLs), floating-point geometry, platform I/O, the display-server protocols
  behind the window layer: sequential or outside the repository.

## 7. Plan

The synchronization core, the thread records and the pool are modelled, and their safety properties proved.

To model next: `Bus` and `Looper` (delegates, their state and events on their way), the handles of `Queue`
(status, pause, resume, cancel), the memory pools (tree, free lists, cleanup order), and keys (reference counts against destructors).
