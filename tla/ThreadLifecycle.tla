-------------------------- MODULE ThreadLifecycle --------------------------
(***************************************************************************)
(* The life of a thread record (thread_t) of core/pthread/pthread.cc: it   *)
(* is taken from the free list by create, used by the new native thread in *)
(* __runthead, by the threads that join, detach or cancel it, and given    *)
(* back to the free list by a joiner, by detach, or by the thread itself   *)
(* when it is detached.                                                    *)
(*                                                                         *)
(* thread->state is a qtimeline: its wait is a guard on the value here,    *)
(* which is what module QTimeline establishes.  thread->mutex and          *)
(* s_handlePool.mutex are locks (module QMutex): a section that no other   *)
(* access can come in between is one step.  The section of detach and of   *)
(* an asynchronous cancel is several, since __runthead sets the state and  *)
(* reads the attributes outside of the mutex.                              *)
(*                                                                         *)
(* The native threads are those of pthread_native_pthread.cc: an           *)
(* asynchronous cancel is the system's pthread_cancel, which ends the      *)
(* native thread wherever it is in __runthead.                             *)
(***************************************************************************)
EXTENDS Naturals, FiniteSets

CONSTANTS
  Records,        \* the memory of thread_t records
  Workers,        \* native threads, each started once, by create
  Clients,        \* threads that call create, join, detach and cancel
  CreateAttrs,    \* the attribute sets given to create
  Calls,          \* the calls clients make on a thread
  AsyncCancel,    \* whether threads set PTHREAD_CANCEL_ASYNCHRONOUS
  Overlap,        \* whether join, detach and asynchronous cancel of one
                  \* thread may overlap
  None

Flags == {"Detached", "JoinRequested", "CancelRequested", "CancelabilityAsync",
          "CancelabilityDisabled"}
Joins == {"join", "timedjoin", "tryjoin"}

ASSUME CallsAssumption ==
  /\ CreateAttrs \subseteq SUBSET {"Detached"}
  /\ Calls \subseteq Joins \cup {"detach", "cancel"}
  /\ AsyncCancel \in BOOLEAN /\ Overlap \in BOOLEAN
  /\ None \notin Workers \cup Clients \cup Records

VARIABLES
  free,      \* records in the free list
  runner,    \* runner[r]: the native thread the record was allocated for
  state,     \* state[r]: value of the timeline
  attr,      \* attr[r]: attribute flags
  mutex,     \* mutex[r]: the client inside a long section of thread->mutex
  live,      \* records whose handle a client may still use
  wpc,       \* wpc[w]: where native thread w is in __runthead
  record,    \* record[w]: the argument of __runthead
  killed,    \* killed[w]: the system was asked to cancel w
  cpc,       \* cpc[c]: where client c is
  subject    \* subject[c]: the record and the thread c's call is about

vars == <<free, runner, state, attr, mutex, live, wpc, record, killed, cpc,
          subject>>

StateInternalInit == 1
StateExternalInit == 2
StateCancelling == 4
StateFinalized == 6
States == {0, StateInternalInit, StateExternalInit, StateCancelling,
           StateFinalized}

(* Where a native thread has its record to itself or shares it with a      *)
(* joiner that has not been let go yet.                                    *)
Running == {"start", "sync", "callback", "unregister", "finalize"}
WorkerLocations == Running \cup {"none", "check", "release", "ended"}
ClientLocations == {"idle", "create", "create_sync", "join_wait",
                    "timedjoin_wait", "join_release", "refused", "detach_test",
                    "detach_mark", "cancel_set", "cancel_native"}
NoSubject == [record |-> None, worker |-> None]

TypeOK ==
  /\ free \subseteq Records /\ live \subseteq Records
  /\ runner \in [Records -> Workers \cup {None}]
  /\ state \in [Records -> States]
  /\ attr \in [Records -> SUBSET Flags]
  /\ mutex \in [Records -> Clients \cup {None}]
  /\ wpc \in [Workers -> WorkerLocations]
  /\ record \in [Workers -> Records \cup {None}]
  /\ killed \in [Workers -> BOOLEAN]
  /\ cpc \in [Clients -> ClientLocations]
  /\ subject \in [Clients -> [record : Records \cup {None},
                              worker : Workers \cup {None}]]

Init ==
  /\ free = Records /\ live = {}
  /\ runner = [r \in Records |-> None]
  /\ state = [r \in Records |-> 0]
  /\ attr = [r \in Records |-> {}]
  /\ mutex = [r \in Records |-> None]
  /\ wpc = [w \in Workers |-> "none"]
  /\ record = [w \in Workers |-> None]
  /\ killed = [w \in Workers |-> FALSE]
  /\ cpc = [c \in Clients |-> "idle"]
  /\ subject = [c \in Clients |-> NoSubject]

WorkerGoto(w, location) == wpc' = [wpc EXCEPT ![w] = location]

ClientGoto(c, location) == cpc' = [cpc EXCEPT ![c] = location]

Return(c) ==
  /\ ClientGoto(c, "idle")
  /\ subject' = [subject EXCEPT ![c] = NoSubject]

(* __detachAndDeallocateThread: under the pool's mutex the handle is       *)
(* closed, the caller's lock released and the record put on the free list. *)
(* What it held stays in the memory.                                       *)
DetachAndDeallocate(r) ==
  /\ free' = free \cup {r}
  /\ live' = live \ {r}
  /\ runner' = [runner EXCEPT ![r] = None]
  /\ mutex' = [mutex EXCEPT ![r] = None]

-----------------------------------------------------------------------------
(* create                                                                  *)

(* __allocateThread: take a record, construct it, copy the attributes.     *)
Create(c, r, flags) ==
  /\ cpc[c] = "idle"
  /\ r \in free
  /\ free' = free \ {r}
  /\ state' = [state EXCEPT ![r] = 0]
  /\ attr' = [attr EXCEPT ![r] = flags]
  /\ ClientGoto(c, "create")
  /\ subject' = [subject EXCEPT ![c] = [record |-> r, worker |-> None]]
  /\ UNCHANGED <<runner, mutex, live, wpc, record, killed>>

(* native::__createThread starts __runthead.                               *)
CreateNative(c, w) ==
  LET r == subject[c].record IN
  /\ cpc[c] = "create"
  /\ wpc[w] = "none"
  /\ runner' = [runner EXCEPT ![r] = w]
  /\ WorkerGoto(w, "start")
  /\ record' = [record EXCEPT ![w] = r]
  /\ ClientGoto(c, "create_sync")
  /\ subject' = [subject EXCEPT ![c].worker = w]
  /\ UNCHANGED <<free, state, attr, mutex, live, killed>>

(* native::__createThread fails: __deallocateThread.                       *)
CreateFailed(c) ==
  /\ cpc[c] = "create"
  /\ DetachAndDeallocate(subject[c].record)
  /\ Return(c)
  /\ UNCHANGED <<state, attr, wpc, record, killed>>

(* Mutant: the state is left to the new thread.                            *)
CreateSyncSilent(c) ==
  LET r == subject[c].record IN
  /\ cpc[c] = "create_sync"
  /\ state[r] >= StateInternalInit
  /\ live' = IF "Detached" \in attr[r] THEN live ELSE live \cup {r}
  /\ Return(c)
  /\ UNCHANGED <<free, runner, state, attr, mutex, wpc, record, killed>>

(* Wait for StateInternalInit, set StateExternalInit, hand the handle out. *)
(* The handle of a thread created detached is not to be used.              *)
CreateSync(c) ==
  LET r == subject[c].record IN
  /\ cpc[c] = "create_sync"
  /\ state[r] >= StateInternalInit
  /\ state' = [state EXCEPT ![r] = StateExternalInit]
  /\ live' = IF "Detached" \in attr[r] THEN live ELSE live \cup {r}
  /\ Return(c)
  /\ UNCHANGED <<free, runner, attr, mutex, wpc, record, killed>>

-----------------------------------------------------------------------------
(* __runthead                                                              *)

(* registerThread, then StateInternalInit.                                 *)
Start(w) ==
  /\ wpc[w] = "start"
  /\ state' = [state EXCEPT ![record[w]] = StateInternalInit]
  /\ WorkerGoto(w, "sync")
  /\ UNCHANGED <<free, runner, attr, mutex, live, record, killed, cpc, subject>>

(* Wait for StateExternalInit.                                             *)
Sync(w) ==
  /\ wpc[w] = "sync"
  /\ state[record[w]] >= StateExternalInit
  /\ WorkerGoto(w, "callback")
  /\ UNCHANGED <<free, runner, state, attr, mutex, live, record, killed, cpc,
                 subject>>

(* The callback calls setcancelstate or setcanceltype.                     *)
SetCancel(w) ==
  LET r == record[w] IN
  /\ wpc[w] = "callback"
  /\ mutex[r] = None
  /\ \E flag \in {"CancelabilityDisabled"}
                   \cup IF AsyncCancel THEN {"CancelabilityAsync"} ELSE {} :
       attr' = [attr EXCEPT ![r] = IF flag \in @ THEN @ \ {flag}
                                                 ELSE @ \cup {flag}]
  /\ UNCHANGED <<free, runner, state, mutex, live, wpc, record, killed, cpc,
                 subject>>

(* The callback returns or calls exit.                                     *)
CallbackEnds(w) ==
  /\ wpc[w] = "callback"
  /\ WorkerGoto(w, "unregister")
  /\ UNCHANGED <<free, runner, state, attr, mutex, live, record, killed, cpc,
                 subject>>

(* The callback calls testcancel, which exits on a deferred request.       *)
TestCancel(w) ==
  LET r == record[w] IN
  /\ wpc[w] = "callback"
  /\ mutex[r] = None
  /\ "CancelRequested" \in attr[r]
  /\ attr[r] \cap {"CancelabilityDisabled", "CancelabilityAsync"} = {}
  /\ WorkerGoto(w, "unregister")
  /\ UNCHANGED <<free, runner, state, attr, mutex, live, record, killed, cpc,
                 subject>>

(* Erase the thread from activeThreads; lock and unlock thread->mutex.     *)
Unregister(w) ==
  /\ wpc[w] = "unregister"
  /\ mutex[record[w]] = None
  /\ WorkerGoto(w, "finalize")
  /\ UNCHANGED <<free, runner, state, attr, mutex, live, record, killed, cpc,
                 subject>>

(* Mutant: signal, which adds, in place of set_and_signal.                 *)
FinalizeAdds(w) ==
  /\ wpc[w] = "finalize"
  /\ state' = [state EXCEPT ![record[w]] = @ + StateFinalized]
  /\ WorkerGoto(w, "check")
  /\ UNCHANGED <<free, runner, attr, mutex, live, record, killed, cpc, subject>>

(* StateFinalized, outside of the mutex.                                   *)
Finalize(w) ==
  /\ wpc[w] = "finalize"
  /\ state' = [state EXCEPT ![record[w]] = StateFinalized]
  /\ WorkerGoto(w, "check")
  /\ UNCHANGED <<free, runner, attr, mutex, live, record, killed, cpc, subject>>

(* Read the attributes of the record, which a joiner may have released.    *)
CheckDetached(w) ==
  /\ wpc[w] = "check"
  /\ WorkerGoto(w, IF "Detached" \in attr[record[w]] THEN "release" ELSE "ended")
  /\ UNCHANGED <<free, runner, state, attr, mutex, live, record, killed, cpc,
                 subject>>

(* A detached thread releases its record.                                  *)
ReleaseSelf(w) ==
  /\ wpc[w] = "release"
  /\ DetachAndDeallocate(record[w])
  /\ WorkerGoto(w, "ended")
  /\ UNCHANGED <<state, attr, record, killed, cpc, subject>>

(* The system's cancellation of the native thread takes effect.            *)
Killed(w) ==
  /\ killed[w]
  /\ wpc[w] \in Running \cup {"check", "release"}
  /\ WorkerGoto(w, "ended")
  /\ UNCHANGED <<free, runner, state, attr, mutex, live, record, killed, cpc,
                 subject>>

-----------------------------------------------------------------------------
(* join, timedjoin and tryjoin                                             *)

(* Client c is in a join or detach of r.                                   *)
Consuming(c, r) ==
  /\ subject[c].record = r
  /\ cpc[c] \in {"join_wait", "timedjoin_wait", "join_release", "detach_test",
                 "detach_mark"}

(* A client calls on a live handle and gets thread->mutex.                 *)
MayCall(c, r, call) ==
  /\ call \in Calls
  /\ cpc[c] = "idle"
  /\ r \in live
  /\ r \notin free
  /\ mutex[r] = None
  /\ Overlap \/ call = "cancel" \/ \A d \in Clients : ~Consuming(d, r)

About(c, r) ==
  subject' = [subject EXCEPT ![c] = [record |-> r, worker |-> runner[r]]]

(* __pthread_join finds the thread finalized and releases the record.      *)
JoinFinalized(c, r, call) ==
  /\ MayCall(c, r, call)
  /\ "Detached" \notin attr[r]
  /\ state[r] >= StateFinalized
  /\ DetachAndDeallocate(r)
  /\ UNCHANGED <<state, attr, wpc, record, killed, cpc, subject>>

(* EINVAL: "Another thread is already waiting to join this thread."        *)
JoinRefused(c, r, call) ==
  /\ MayCall(c, r, call)
  /\ call # "tryjoin"
  /\ "Detached" \notin attr[r]
  /\ state[r] < StateFinalized
  /\ "JoinRequested" \in attr[r]
  /\ ClientGoto(c, "refused")
  /\ About(c, r)
  /\ UNCHANGED <<free, runner, state, attr, mutex, live, wpc, record, killed>>

RefusedReturns(c) ==
  /\ cpc[c] = "refused"
  /\ Return(c)
  /\ UNCHANGED <<free, runner, state, attr, mutex, live, wpc, record, killed>>

(* Request the join and go to wait. (A tryjoin gives EBUSY, an attempt on  *)
(* a detached thread EINVAL; neither changes anything.)                    *)
JoinStart(c, r, call) ==
  /\ MayCall(c, r, call)
  /\ call # "tryjoin"
  /\ attr[r] \cap {"Detached", "JoinRequested"} = {}
  /\ state[r] < StateFinalized
  /\ attr' = [attr EXCEPT ![r] = @ \cup {"JoinRequested"}]
  /\ ClientGoto(c, IF call = "join" THEN "join_wait" ELSE "timedjoin_wait")
  /\ About(c, r)
  /\ UNCHANGED <<free, runner, state, mutex, live, wpc, record, killed>>

(* Mutant: the joiner goes on when the thread starts to be cancelled.      *)
JoinWaitEarly(c) ==
  /\ cpc[c] \in {"join_wait", "timedjoin_wait"}
  /\ state[subject[c].record] >= StateExternalInit
  /\ ClientGoto(c, "join_release")
  /\ UNCHANGED <<free, runner, state, attr, mutex, live, wpc, record, killed,
                 subject>>

(* The wait for StateFinalized ends.                                       *)
JoinWait(c) ==
  /\ cpc[c] \in {"join_wait", "timedjoin_wait"}
  /\ state[subject[c].record] >= StateFinalized
  /\ ClientGoto(c, "join_release")
  /\ UNCHANGED <<free, runner, state, attr, mutex, live, wpc, record, killed,
                 subject>>

(* The wait of a timedjoin fails with ErrorTimeout.                        *)
JoinTimeout(c) ==
  /\ cpc[c] = "timedjoin_wait"
  /\ Return(c)
  /\ UNCHANGED <<free, runner, state, attr, mutex, live, wpc, record, killed>>

(* The joiner takes the result and releases the record.                    *)
JoinRelease(c) ==
  /\ cpc[c] = "join_release"
  /\ DetachAndDeallocate(subject[c].record)
  /\ Return(c)
  /\ UNCHANGED <<state, attr, wpc, record, killed>>

-----------------------------------------------------------------------------
(* detach                                                                  *)

(* The checks of detach, with thread->mutex held from here on.             *)
DetachStart(c, r) ==
  /\ MayCall(c, r, "detach")
  /\ "Detached" \notin attr[r]
  /\ mutex' = [mutex EXCEPT ![r] = c]
  /\ ClientGoto(c, "detach_test")
  /\ About(c, r)
  /\ UNCHANGED <<free, runner, state, attr, live, wpc, record, killed>>

(* try_wait(StateFinalized) decides who releases the record.               *)
DetachTest(c) ==
  LET r == subject[c].record IN
  /\ cpc[c] = "detach_test"
  /\ \/ /\ state[r] >= StateFinalized
        /\ DetachAndDeallocate(r)
        /\ Return(c)
     \/ /\ state[r] < StateFinalized /\ "JoinRequested" \in attr[r]
        /\ mutex' = [mutex EXCEPT ![r] = None]
        /\ Return(c)
        /\ UNCHANGED <<free, live, runner>>
     \/ /\ state[r] < StateFinalized /\ "JoinRequested" \notin attr[r]
        /\ ClientGoto(c, "detach_mark")
        /\ UNCHANGED <<free, live, runner, mutex, subject>>
  /\ UNCHANGED <<state, attr, wpc, record, killed>>

(* Leave the release of the record to the thread.                          *)
DetachMark(c) ==
  LET r == subject[c].record IN
  /\ cpc[c] = "detach_mark"
  /\ attr' = [attr EXCEPT ![r] = @ \cup {"Detached"}]
  /\ mutex' = [mutex EXCEPT ![r] = None]
  /\ live' = live \ {r}
  /\ Return(c)
  /\ UNCHANGED <<free, runner, state, wpc, record, killed>>

-----------------------------------------------------------------------------
(* cancel                                                                  *)

(* A deferred cancel, or one that is disabled, leaves a request.           *)
CancelRequest(c, r) ==
  /\ MayCall(c, r, "cancel")
  /\ "CancelabilityAsync" \in attr[r] => "CancelabilityDisabled" \in attr[r]
  /\ attr' = [attr EXCEPT ![r] = @ \cup {"CancelRequested"}]
  /\ UNCHANGED <<free, runner, state, mutex, live, wpc, record, killed, cpc,
                 subject>>

(* An asynchronous cancel reads the state.                                 *)
CancelAsync(c, r) ==
  /\ MayCall(c, r, "cancel")
  /\ "CancelabilityAsync" \in attr[r]
  /\ "CancelabilityDisabled" \notin attr[r]
  /\ Overlap \/ \A d \in Clients : ~Consuming(d, r)
  /\ state[r] < StateCancelling
  /\ mutex' = [mutex EXCEPT ![r] = c]
  /\ ClientGoto(c, "cancel_set")
  /\ About(c, r)
  /\ UNCHANGED <<free, runner, state, attr, live, wpc, record, killed>>

(* set_and_signal(StateCancelling).                                        *)
CancelSet(c) ==
  /\ cpc[c] = "cancel_set"
  /\ state' = [state EXCEPT ![subject[c].record] = StateCancelling]
  /\ ClientGoto(c, "cancel_native")
  /\ UNCHANGED <<free, runner, attr, mutex, live, wpc, record, killed, subject>>

(* native::__cancelThreadAsync, then the mutex is released.                *)
CancelNative(c) ==
  LET r == subject[c].record IN
  /\ cpc[c] = "cancel_native"
  /\ killed' = [w \in Workers |-> killed[w] \/ w = runner[r]]
  /\ mutex' = [mutex EXCEPT ![r] = None]
  /\ Return(c)
  /\ UNCHANGED <<free, runner, state, attr, live, wpc, record>>

-----------------------------------------------------------------------------
WorkerStep(w) ==
  \/ Start(w) \/ Sync(w) \/ CallbackEnds(w) \/ Unregister(w) \/ Finalize(w)
  \/ CheckDetached(w) \/ ReleaseSelf(w)

ClientStep(c) ==
  \/ \E w \in Workers : CreateNative(c, w)
  \/ CreateSync(c) \/ JoinWait(c) \/ JoinRelease(c) \/ RefusedReturns(c)
  \/ DetachTest(c) \/ DetachMark(c) \/ CancelSet(c) \/ CancelNative(c)

ClientCall(c) ==
  \/ \E r \in Records, flags \in CreateAttrs :
       (\E w \in Workers : wpc[w] = "none") /\ Create(c, r, flags)
  \/ \E r \in Records, call \in Joins :
       JoinFinalized(c, r, call) \/ JoinRefused(c, r, call) \/ JoinStart(c, r, call)
  \/ \E r \in Records : DetachStart(c, r) \/ CancelRequest(c, r) \/ CancelAsync(c, r)

Next ==
  \/ \E w \in Workers : WorkerStep(w) \/ SetCancel(w) \/ TestCancel(w) \/ Killed(w)
  \/ \E c \in Clients : ClientStep(c) \/ ClientCall(c) \/ CreateFailed(c) \/ JoinTimeout(c)

(* Threads run, and every callback comes to its end.  No client has to     *)
(* make a call.                                                            *)
Fairness ==
  /\ \A w \in Workers : WF_vars(WorkerStep(w))
  /\ \A c \in Clients : WF_vars(ClientStep(c))

Spec == Init /\ [][Next]_vars /\ Fairness

-----------------------------------------------------------------------------
(* A record belongs to its thread until the thread has set StateFinalized, *)
(* and whoever releases a record releases that of the thread it joined,    *)
(* detached, or is: no record is released twice, or under a thread that    *)
(* runs.  ("We are here because detached thread has completed execution"). *)
OwnRecord ==
  /\ \A w \in Workers :
       wpc[w] \in Running \cup {"release"} => runner[record[w]] = w
  /\ \A c \in Clients :
       Consuming(c, subject[c].record) =>
         runner[subject[c].record] = subject[c].worker

(* "with this flag, thread's resources will be destroyed right before      *)
(* __runthread func returns": no thread ends and leaves a detached record  *)
(* allocated.  The code does not keep this: a thread may finalize between  *)
(* DetachTest and DetachMark.                                              *)
DetachedReleased ==
  \A r \in Records :
    "Detached" \in attr[r] /\ runner[r] # None => wpc[runner[r]] # "ended"

(* "Another thread is already waiting to join this thread": a join is      *)
(* refused with EINVAL only while that is so.  The code does not keep      *)
(* this: JoinRequested outlives a timed join that has given up.            *)
RefusedBesideJoiner ==
  [][\A c \in Clients :
       cpc[c] = "idle" /\ cpc'[c] = "refused" =>
         \E d \in Clients : Consuming(d, subject'[c].record)]_vars

(* A join of a thread returns, unless the system's cancel has ended the    *)
(* native thread in the middle of __runthead.                              *)
JoinReturns ==
  \A c \in Clients, w \in Workers :
    cpc[c] = "join_wait" /\ subject[c].worker = w ~> cpc[c] = "idle" \/ killed[w]

(* "set when thread ready to be joined or detached to free it's            *)
(* resources": StateFinalized stays until the record is released.  The     *)
(* code does not keep this: a cancel that has read the state just before   *)
(* writes StateCancelling over it, and every join then waits for a thread  *)
(* that has ended.                                                         *)
FinalizedIsFinal ==
  [][\A r \in Records :
       state[r] = StateFinalized /\ r \notin free' \cup free
         => state'[r] = StateFinalized]_vars

=============================================================================
