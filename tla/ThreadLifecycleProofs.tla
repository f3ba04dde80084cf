----------------------- MODULE ThreadLifecycleProofs -----------------------
(***************************************************************************)
(* Proofs about thread records, for any number of records and clients.     *)
(* The types hold with all calls and any number of threads.  That a record *)
(* stays with its thread does not: a thread reads its attributes after     *)
(* StateFinalized let a joiner release the record, so it may take those of *)
(* the record's next thread for its own.  It does hold                     *)
(*  - where all threads are created joinable, or all detached, and nobody  *)
(*    calls detach; within this, threads may be created, joined with and   *)
(*    without a timeout and cancelled in any order, and records reused     *)
(*    without end;                                                         *)
(*  - for a thread that no other one follows, with detach and all the      *)
(*    other calls.                                                         *)
(* Both where joins, detaches and asynchronous cancels of one thread do    *)
(* not overlap.                                                            *)
(*                                                                         *)
(* The argument: a record leaves the free list for one creator, passes to  *)
(* the thread it starts, and becomes usable by clients only when that      *)
(* thread waits for StateExternalInit.  It is released by a creator that   *)
(* could not start a thread, by the only joiner or detacher once the       *)
(* thread has finalized, or by the thread itself, when nobody can use the  *)
(* handle any more.                                                        *)
(***************************************************************************)
EXTENDS ThreadLifecycle, TLAPS

(* All threads are created joinable, or all detached; nobody calls detach. *)
OneKind ==
  /\ \A f, g \in CreateAttrs : f = g
  /\ "detach" \notin Calls

(* One thread is started at most.                                          *)
OneThread == \A v, w \in Workers : v = w

(* Joins, detaches and asynchronous cancels of one thread do not overlap,  *)
(* and no thread takes another one's attributes for its own.               *)
Disciplined == ~Overlap /\ (OneKind \/ OneThread)

(* The kind is: detached.                                                  *)
DetachedKind == \E flags \in CreateAttrs : "Detached" \in flags

Creating == {"create", "create_sync"}
Taking == {"join_wait", "timedjoin_wait", "join_release", "detach_test",
           "detach_mark"}
Cancelling == {"cancel_set", "cancel_native"}

(* Who is on its way has a record.                                         *)
CallPlace ==
  /\ \A w \in Workers : wpc[w] # "none" => record[w] \in Records
  /\ \A c \in Clients : cpc[c] # "idle" => subject[c].record \in Records

(* A record that has a runner is allocated and is that thread's argument.  *)
RunnerPlace ==
  \A r \in Records :
    runner[r] # None =>
      r \notin free /\ wpc[runner[r]] # "none" /\ record[runner[r]] = r

(* A thread up to Finalize has its record, which is not finalized; so has  *)
(* one that releases it, or is about to find that it has to.               *)
OwnerPlace ==
  \A w \in Workers :
    /\ wpc[w] \in Running \cup {"release"} => runner[record[w]] = w
    /\ wpc[w] \in Running => state[record[w]] # StateFinalized
    /\ wpc[w] = "check" /\ "Detached" \in attr[record[w]] => runner[record[w]] = w
    /\ wpc[w] = "release" => "Detached" \in attr[record[w]]
    /\ wpc[w] = "none" => ~killed[w]

(* Where threads are of one kind Detached is in the attributes of all      *)
(* records in use, and of all that a thread may still read, or in none.    *)
KindKept ==
  OneKind =>
    /\ \A r \in Records \ free : "Detached" \in attr[r] <=> DetachedKind
    /\ \A w \in Workers :
         wpc[w] # "none" => ("Detached" \in attr[record[w]] <=> DetachedKind)

(* A usable handle is that of a thread that was started and is joinable.   *)
LivePlace ==
  \A r \in live : r \notin free /\ runner[r] # None /\ "Detached" \notin attr[r]

(* One creator has the record, and its thread does not get past the wait   *)
(* for StateExternalInit.                                                  *)
CreatePlace ==
  \A c \in Clients :
    LET r == subject[c].record IN
    /\ cpc[c] \in Creating =>
         /\ r \notin free /\ r \notin live
         /\ \A d \in Clients : cpc[d] \in Creating /\ subject[d].record = r => d = c
    /\ cpc[c] = "create" => runner[r] = None /\ state[r] = 0
    /\ cpc[c] = "create_sync" =>
         /\ runner[r] # None /\ wpc[runner[r]] \in {"start", "sync"}
         /\ state[r] \in {0, StateInternalInit} /\ ~killed[runner[r]]

(* Who joins or detaches is alone with a live record, a detach and an      *)
(* asynchronous cancel hold its mutex; who is about to release a record    *)
(* after a join has seen StateFinalized.                                   *)
TakePlace ==
  \A c \in Clients :
    LET r == subject[c].record IN
    /\ cpc[c] \in {"detach_test", "detach_mark"} => "detach" \in Calls /\ mutex[r] = c
    /\ cpc[c] \in Taking \cup Cancelling => r \in live
    /\ cpc[c] \in Taking =>
         /\ runner[r] = subject[c].worker
         /\ \A d \in Clients :
              cpc[d] \in Taking \cup Cancelling /\ subject[d].record = r => d = c
    /\ cpc[c] = "join_release" => state[r] = StateFinalized
    /\ cpc[c] \in Cancelling => mutex[r] = c

Own ==
  RunnerPlace /\ OwnerPlace /\ KindKept /\ LivePlace /\ CreatePlace /\ TakePlace

IInv == TypeOK /\ CallPlace /\ Own

-----------------------------------------------------------------------------
(* The types                                                               *)

(* Initially the types hold, and nobody has a record.                      *)
LEMMA TypeInit == Init => TypeOK /\ CallPlace
BY CallsAssumption
   DEF Init, TypeOK, CallPlace, States, WorkerLocations, ClientLocations, NoSubject

(* A step of a worker keeps the types.                                     *)
LEMMA WorkerTypes ==
  ASSUME TypeOK, CallPlace, NEW w \in Workers,
         WorkerStep(w) \/ SetCancel(w) \/ TestCancel(w) \/ Killed(w)
  PROVE  TypeOK' /\ CallPlace'
<1> USE DEF TypeOK, CallPlace
<1>1. CASE Start(w)
  BY <1>1 DEF Start, WorkerGoto, WorkerLocations, Running, States
<1>2. CASE Sync(w) \/ CallbackEnds(w) \/ TestCancel(w) \/ Unregister(w)
           \/ CheckDetached(w) \/ Killed(w)
  <2>1. /\ wpc[w] # "none"
        /\ \E l \in WorkerLocations \ {"none"} : wpc' = [wpc EXCEPT ![w] = l]
        /\ UNCHANGED <<free, runner, state, attr, mutex, live, record, killed, cpc,
                       subject>>
    BY <1>2 DEF Sync, CallbackEnds, TestCancel, Unregister, CheckDetached, Killed,
                WorkerGoto, WorkerLocations, Running
  <2> QED
    BY <2>1
<1>3. CASE SetCancel(w)
  <2>1. attr' \in [Records -> SUBSET Flags]
    BY <1>3 DEF SetCancel, Flags
  <2> QED
    BY <1>3, <2>1 DEF SetCancel
<1>4. CASE Finalize(w)
  BY <1>4 DEF Finalize, WorkerGoto, WorkerLocations, Running, States
<1>5. CASE ReleaseSelf(w)
  BY <1>5, CallsAssumption
     DEF ReleaseSelf, DetachAndDeallocate, WorkerGoto, WorkerLocations, Running
<1> QED
  BY <1>1, <1>2, <1>3, <1>4, <1>5 DEF WorkerStep

(* What Return and About do to a client's locals.                          *)
LEMMA ReturnTypes ==
  ASSUME TypeOK, NEW c \in Clients, Return(c)
  PROVE  /\ cpc' \in [Clients -> ClientLocations]
         /\ subject' \in [Clients -> [record : Records \cup {None},
                                      worker : Workers \cup {None}]]
         /\ cpc'[c] = "idle"
         /\ \A d \in Clients : d # c => cpc'[d] = cpc[d] /\ subject'[d] = subject[d]
BY DEF TypeOK, Return, ClientGoto, ClientLocations, NoSubject

(* And the beginning of a call about r.                                    *)
LEMMA AboutTypes ==
  ASSUME TypeOK, NEW c \in Clients, NEW r \in Records, About(c, r),
         NEW l \in ClientLocations, ClientGoto(c, l)
  PROVE  /\ cpc' \in [Clients -> ClientLocations]
         /\ subject' \in [Clients -> [record : Records \cup {None},
                                      worker : Workers \cup {None}]]
         /\ cpc'[c] = l /\ subject'[c].record = r /\ subject'[c].worker = runner[r]
         /\ \A d \in Clients : d # c => cpc'[d] = cpc[d] /\ subject'[d] = subject[d]
BY DEF TypeOK, About, ClientGoto

(* What a release of a record does.                                        *)
LEMMA Deallocated ==
  ASSUME TypeOK, NEW r \in Records, DetachAndDeallocate(r)
  PROVE  /\ free' \subseteq Records /\ live' \subseteq Records
         /\ runner' \in [Records -> Workers \cup {None}]
         /\ mutex' \in [Records -> Clients \cup {None}]
         /\ free' = free \cup {r} /\ live' = live \ {r} /\ runner'[r] = None
         /\ \A s \in Records : s # r => runner'[s] = runner[s] /\ mutex'[s] = mutex[s]
BY DEF TypeOK, DetachAndDeallocate

(* A step inside a client's call keeps the types.                          *)
LEMMA ClientTypes ==
  ASSUME TypeOK, CallPlace, NEW c \in Clients,
         ClientStep(c) \/ CreateFailed(c) \/ JoinTimeout(c)
  PROVE  TypeOK' /\ CallPlace'
<1>0. cpc[c] # "idle" => subject[c].record \in Records
  BY DEF CallPlace
<1>1. ASSUME NEW w \in Workers, CreateNative(c, w) PROVE TypeOK' /\ CallPlace'
  <2>1. /\ runner' \in [Records -> Workers \cup {None}]
        /\ wpc' \in [Workers -> WorkerLocations]
        /\ record' \in [Workers -> Records \cup {None}]
        /\ cpc' \in [Clients -> ClientLocations]
    BY <1>0, <1>1 DEF CreateNative, WorkerGoto, ClientGoto, TypeOK, Running,
                      WorkerLocations, ClientLocations
  <2>2. /\ subject' \in [Clients -> [record : Records \cup {None},
                                     worker : Workers \cup {None}]]
        /\ \A d \in Clients : subject'[d].record = subject[d].record
    BY <1>1 DEF CreateNative, TypeOK
  <2>3. TypeOK'
    BY <1>1, <2>1, <2>2 DEF CreateNative, TypeOK
  <2>4. CallPlace'
    BY <1>0, <1>1, <2>2 DEF CreateNative, WorkerGoto, ClientGoto, TypeOK, CallPlace
  <2> QED
    BY <2>3, <2>4
<1>2. CASE CreateSync(c)
  <2>1. state' \in [Records -> States] /\ live' \subseteq Records
    BY <1>0, <1>2 DEF CreateSync, TypeOK, States
  <2> QED
    BY <1>2, <2>1, ReturnTypes DEF CreateSync, TypeOK, CallPlace
<1>3. CASE CreateFailed(c) \/ JoinRelease(c)
  <2>1. /\ subject[c].record \in Records /\ DetachAndDeallocate(subject[c].record)
        /\ Return(c) /\ UNCHANGED <<state, attr, wpc, record, killed>>
    BY <1>0, <1>3 DEF CreateFailed, JoinRelease
  <2> QED
    BY <2>1, ReturnTypes, Deallocated DEF TypeOK, CallPlace
<1>4. CASE JoinWait(c)
  BY <1>4 DEF JoinWait, ClientGoto, ClientLocations, TypeOK, CallPlace
<1>5. CASE RefusedReturns(c) \/ JoinTimeout(c)
  BY <1>5, ReturnTypes DEF RefusedReturns, JoinTimeout, TypeOK, CallPlace
<1>6. CASE DetachTest(c)
  <2> DEFINE r == subject[c].record
  <2>1. r \in Records /\ UNCHANGED <<state, attr, wpc, record, killed>>
    BY <1>0, <1>6 DEF DetachTest
  <2>2. CASE DetachAndDeallocate(r) /\ Return(c)
    BY <2>1, <2>2, ReturnTypes, Deallocated DEF TypeOK, CallPlace
  <2>3. CASE /\ mutex' = [mutex EXCEPT ![r] = None] /\ Return(c)
             /\ UNCHANGED <<free, live, runner>>
    BY <2>1, <2>3, ReturnTypes DEF TypeOK, CallPlace
  <2>4. CASE /\ ClientGoto(c, "detach_mark")
             /\ UNCHANGED <<free, live, runner, mutex, subject>>
    BY <1>6, <2>1, <2>4 DEF DetachTest, ClientGoto, ClientLocations, TypeOK, CallPlace
  <2> QED
    BY <1>6, <2>2, <2>3, <2>4 DEF DetachTest
<1>7. CASE DetachMark(c)
  <2>1. /\ attr' \in [Records -> SUBSET Flags]
        /\ mutex' \in [Records -> Clients \cup {None}] /\ live' \subseteq Records
    BY <1>0, <1>7 DEF DetachMark, TypeOK, Flags
  <2> QED
    BY <1>7, <2>1, ReturnTypes DEF DetachMark, TypeOK, CallPlace
<1>8. CASE CancelSet(c)
  BY <1>0, <1>8 DEF CancelSet, ClientGoto, ClientLocations, TypeOK, CallPlace, States
<1>9. CASE CancelNative(c)
  <2>1. /\ killed' \in [Workers -> BOOLEAN]
        /\ mutex' \in [Records -> Clients \cup {None}]
    BY <1>0, <1>9 DEF CancelNative, TypeOK
  <2> QED
    BY <1>9, <2>1, ReturnTypes DEF CancelNative, TypeOK, CallPlace
<1> QED
  BY <1>1, <1>2, <1>3, <1>4, <1>5, <1>6, <1>7, <1>8, <1>9 DEF ClientStep

(* A call keeps the types.                                                 *)
LEMMA CallTypes ==
  ASSUME TypeOK, CallPlace, NEW c \in Clients, ClientCall(c)
  PROVE  TypeOK' /\ CallPlace'
<1>1. ASSUME NEW r \in Records, NEW flags \in CreateAttrs, Create(c, r, flags)
      PROVE  TypeOK' /\ CallPlace'
  <2>1. /\ state' \in [Records -> States] /\ attr' \in [Records -> SUBSET Flags]
        /\ cpc' \in [Clients -> ClientLocations]
    BY <1>1, CallsAssumption
       DEF Create, ClientGoto, ClientLocations, TypeOK, States, Flags
  <2>2. /\ subject' \in [Clients -> [record : Records \cup {None},
                                     worker : Workers \cup {None}]]
        /\ subject'[c].record = r
        /\ \A d \in Clients : d # c => subject'[d] = subject[d]
    BY <1>1 DEF Create, TypeOK
  <2>3. TypeOK'
    BY <1>1, <2>1, <2>2 DEF Create, TypeOK
  <2>4. CallPlace'
    BY <1>1, <2>2 DEF Create, ClientGoto, TypeOK, CallPlace
  <2> QED
    BY <2>3, <2>4
<1>2. ASSUME NEW r \in Records, NEW call \in Joins, JoinFinalized(c, r, call)
      PROVE  TypeOK' /\ CallPlace'
  BY <1>2, Deallocated DEF JoinFinalized, TypeOK, CallPlace
<1>3. ASSUME NEW r \in Records, NEW call \in Joins, JoinRefused(c, r, call)
      PROVE  TypeOK' /\ CallPlace'
  <2>1. "refused" \in ClientLocations
    BY DEF ClientLocations
  <2> QED
    BY <1>3, <2>1, AboutTypes DEF JoinRefused, TypeOK, CallPlace
<1>4. ASSUME NEW r \in Records, NEW call \in Joins, JoinStart(c, r, call)
      PROVE  TypeOK' /\ CallPlace'
  <2>1. PICK l \in ClientLocations : ClientGoto(c, l)
    BY <1>4 DEF JoinStart, ClientLocations
  <2>2. /\ attr' \in [Records -> SUBSET Flags]
        /\ UNCHANGED <<free, runner, state, mutex, live, wpc, record, killed>>
    BY <1>4 DEF JoinStart, TypeOK, Flags
  <2>3. About(c, r)
    BY <1>4 DEF JoinStart
  <2>4. /\ cpc' \in [Clients -> ClientLocations]
        /\ subject' \in [Clients -> [record : Records \cup {None},
                                     worker : Workers \cup {None}]]
        /\ subject'[c].record = r
        /\ \A d \in Clients : d # c => cpc'[d] = cpc[d] /\ subject'[d] = subject[d]
    BY <2>1, <2>3, AboutTypes
  <2>5. TypeOK'
    BY <2>2, <2>4 DEF TypeOK
  <2>6. CallPlace'
    BY <2>2, <2>4 DEF CallPlace
  <2> QED
    BY <2>5, <2>6
<1>5. ASSUME NEW r \in Records, DetachStart(c, r) \/ CancelAsync(c, r)
      PROVE  TypeOK' /\ CallPlace'
  <2>1. PICK l \in ClientLocations : ClientGoto(c, l)
    BY <1>5 DEF DetachStart, CancelAsync, ClientLocations
  <2>2. mutex' \in [Records -> Clients \cup {None}]
    BY <1>5 DEF DetachStart, CancelAsync, TypeOK
  <2> QED
    BY <1>5, <2>1, <2>2, AboutTypes DEF DetachStart, CancelAsync, TypeOK, CallPlace
<1>6. ASSUME NEW r \in Records, CancelRequest(c, r) PROVE TypeOK' /\ CallPlace'
  <2>1. attr' \in [Records -> SUBSET Flags]
    BY <1>6 DEF CancelRequest, TypeOK, Flags
  <2> QED
    BY <1>6, <2>1 DEF CancelRequest, TypeOK, CallPlace
<1> QED
  BY <1>1, <1>2, <1>3, <1>4, <1>5, <1>6 DEF ClientCall

(* Every step keeps the types.                                             *)
LEMMA TypeInductive == TypeOK /\ CallPlace /\ [Next]_vars => TypeOK' /\ CallPlace'
<1> SUFFICES ASSUME TypeOK, CallPlace, [Next]_vars PROVE TypeOK' /\ CallPlace'
  OBVIOUS
<1>1. CASE UNCHANGED vars
  BY <1>1 DEF vars, TypeOK, CallPlace
<1> QED
  BY <1>1, WorkerTypes, ClientTypes, CallTypes DEF Next

(* Every field of a record and every place of a thread keeps its type, for *)
(* any number of records, threads and clients and with all calls: what     *)
(* create, __runthead, join, detach and cancel pass on is always a record. *)
THEOREM TypeCorrect == Spec => []TypeOK
BY TypeInit, TypeInductive, PTL DEF Spec

-----------------------------------------------------------------------------
(* Whose record it is                                                      *)

(* Initially all records are free and nobody is about anything.            *)
LEMMA OwnInit == Init => Own
BY CallsAssumption
   DEF Init, Own, RunnerPlace, OwnerPlace, KindKept, LivePlace, CreatePlace,
       TakePlace, Running, Creating, Taking, Cancelling

(* A step of __runthead that changes nothing but the thread's place.       *)
LEMMA PlaceKeeps ==
  ASSUME TypeOK, CallPlace, Own, NEW w \in Workers,
         \/ Sync(w) \/ CallbackEnds(w) \/ TestCancel(w) \/ Unregister(w)
         \/ CheckDetached(w) \/ Killed(w)
  PROVE  Own'
<1>1. /\ wpc[w] \notin {"none", "ended"} /\ wpc'[w] \notin {"none", "start", "check"}
      /\ wpc'[w] \in Running => wpc[w] \in Running
      /\ wpc'[w] = "release" => wpc[w] = "check" /\ "Detached" \in attr[record[w]]
      /\ wpc[w] \in {"start", "sync"} =>
           killed[w] \/ state[record[w]] \notin {0, StateInternalInit}
      /\ \A v \in Workers : v # w => wpc'[v] = wpc[v]
      /\ UNCHANGED <<free, runner, state, attr, mutex, live, record, killed, cpc,
                     subject>>
  BY DEF Sync, CallbackEnds, TestCancel, Unregister, CheckDetached, Killed, TypeOK,
         WorkerGoto, WorkerLocations, Running, StateExternalInit, StateInternalInit,
         States
<1>2. record[w] \in Records
  BY <1>1 DEF CallPlace
<1>3. RunnerPlace'
  BY <1>1, CallsAssumption DEF TypeOK, Own, RunnerPlace
<1>4. OwnerPlace'
  BY <1>1, <1>2 DEF Own, OwnerPlace, KindKept, Running
<1>5. KindKept' /\ LivePlace' /\ TakePlace'
  BY <1>1 DEF Own, KindKept, LivePlace, TakePlace
<1>6. CreatePlace'
  <2>1. ASSUME NEW c \in Clients, cpc[c] = "create_sync"
        PROVE  runner[subject[c].record] # w
    BY <1>1, <2>1 DEF Own, CreatePlace, RunnerPlace, CallPlace
  <2> QED
    BY <1>1, <2>1 DEF TypeOK, CallPlace, Own, CreatePlace, Creating
<1> QED
  BY <1>3, <1>4, <1>5, <1>6 DEF Own

(* StateInternalInit and StateFinalized are set by a thread that still has *)
(* its record, and on no other.                                            *)
LEMMA StateKeeps ==
  ASSUME TypeOK, CallPlace, Own, NEW w \in Workers, Start(w) \/ Finalize(w)
  PROVE  Own'
<1> DEFINE r == record[w]
<1>1. /\ r \in Records /\ runner[r] = w /\ wpc[w] \in Running
      /\ \/ wpc[w] = "start" /\ wpc'[w] = "sync" /\ state'[r] = StateInternalInit
         \/ wpc[w] = "finalize" /\ wpc'[w] = "check" /\ state'[r] = StateFinalized
      /\ \A s \in Records : s # r => state'[s] = state[s]
      /\ \A v \in Workers : v # w => wpc'[v] = wpc[v]
      /\ UNCHANGED <<free, runner, attr, mutex, live, record, killed, cpc, subject>>
  BY DEF Start, Finalize, TypeOK, CallPlace, Own, OwnerPlace, WorkerGoto, Running
<1> HIDE DEF r
<1>2. \A v \in Workers : v # w /\ wpc[v] \in Running => record[v] # r
  BY <1>1 DEF Own, OwnerPlace
<1>3. RunnerPlace' /\ KindKept' /\ LivePlace'
  BY <1>1, CallsAssumption DEF TypeOK, Own, RunnerPlace, KindKept, LivePlace
<1>4. OwnerPlace'
  BY <1>1, <1>2 DEF CallPlace, Own, OwnerPlace, Running, r, StateInternalInit,
                    StateFinalized
<1>5. CreatePlace'
  BY <1>1, CallsAssumption
     DEF TypeOK, CallPlace, Own, CreatePlace, Creating, RunnerPlace
<1>6. TakePlace'
  BY <1>1 DEF CallPlace, Own, TakePlace, Taking, OwnerPlace, r
<1> QED
  BY <1>3, <1>4, <1>5, <1>6 DEF Own

(* The steps that change the attributes leave "Detached" alone.            *)
LEMMA AttributeKeeps ==
  ASSUME TypeOK, CallPlace, Own,
         UNCHANGED <<free, runner, state, mutex, live, wpc, record, killed, cpc,
                     subject>>,
         \A r \in Records : "Detached" \in attr'[r] <=> "Detached" \in attr[r]
  PROVE  Own'
<1>1. RunnerPlace' /\ CreatePlace' /\ TakePlace'
  BY DEF Own, RunnerPlace, CreatePlace, TakePlace
<1>2. OwnerPlace' /\ KindKept'
  BY DEF CallPlace, Own, OwnerPlace, KindKept, Running
<1>3. LivePlace'
  BY DEF TypeOK, Own, LivePlace
<1> QED
  BY <1>1, <1>2, <1>3 DEF Own

(* A record may be released when no thread runs on it and nobody else is   *)
(* in a call about it.                                                     *)
LEMMA ReleaseKeeps ==
  ASSUME TypeOK, CallPlace, Own, NEW r \in Records, DetachAndDeallocate(r),
         UNCHANGED <<state, attr, record, killed>>,
         \A v \in Workers :
           \/ /\ wpc'[v] = wpc[v]
              /\ wpc[v] \in Running \cup {"release"} => record[v] # r
              /\ wpc[v] = "check" /\ "Detached" \in attr[record[v]] => record[v] # r
           \/ wpc[v] = "release" /\ wpc'[v] = "ended",
         \A d \in Clients :
           \/ /\ cpc'[d] = cpc[d] /\ subject'[d] = subject[d]
              /\ cpc[d] \in Creating \cup Taking \cup Cancelling
                   => subject[d].record # r
           \/ cpc'[d] = "idle"
  PROVE  Own'
<1>1. /\ free' = free \cup {r} /\ live' = live \ {r} /\ runner'[r] = None
      /\ \A s \in Records : s # r => runner'[s] = runner[s] /\ mutex'[s] = mutex[s]
  BY Deallocated
<1>2. RunnerPlace'
  BY <1>1, CallsAssumption DEF TypeOK, Own, RunnerPlace
<1>3. OwnerPlace'
  BY <1>1 DEF CallPlace, Own, OwnerPlace, Running
<1>4. KindKept'
  BY <1>1 DEF Own, KindKept
<1>5. LivePlace'
  BY <1>1 DEF TypeOK, Own, LivePlace
<1>6. CreatePlace'
  <2>1. ASSUME NEW c \in Clients, cpc'[c] = "create_sync"
        PROVE  wpc'[runner[subject[c].record]] \in {"start", "sync"}
    <3>1. /\ cpc[c] = "create_sync" /\ subject[c].record \in Records
          /\ runner[subject[c].record] \in Workers
          /\ wpc[runner[subject[c].record]] \in {"start", "sync"}
          /\ subject[c].record # r /\ record[runner[subject[c].record]] # r
      BY <2>1 DEF TypeOK, CallPlace, Own, CreatePlace, RunnerPlace, Creating
    <3> QED
      BY <3>1
  <2> QED
    BY <1>1, <2>1 DEF CallPlace, Own, CreatePlace, Creating
<1>7. TakePlace'
  BY <1>1 DEF CallPlace, Own, TakePlace, Taking, Cancelling
<1> QED
  BY <1>2, <1>3, <1>4, <1>5, <1>6, <1>7 DEF Own

(* A detached thread is the only one that uses its record at the end.      *)
LEMMA ReleaseSelfKeeps ==
  ASSUME TypeOK, CallPlace, Own, NEW w \in Workers, ReleaseSelf(w)
  PROVE  Own'
<1> DEFINE r == record[w]
<1>1. /\ r \in Records /\ runner[r] = w /\ r \notin live
      /\ wpc[w] = "release" /\ wpc'[w] = "ended" /\ DetachAndDeallocate(r)
      /\ \A v \in Workers : v # w => wpc'[v] = wpc[v]
      /\ UNCHANGED <<state, attr, record, killed, cpc, subject>>
  BY DEF ReleaseSelf, WorkerGoto, TypeOK, CallPlace, Own, OwnerPlace, LivePlace
<1> HIDE DEF r
<1>2. \A v \in Workers : v # w =>
        /\ wpc[v] \in Running \cup {"release"} => record[v] # r
        /\ wpc[v] = "check" /\ "Detached" \in attr[record[v]] => record[v] # r
  BY <1>1 DEF Own, OwnerPlace
<1>3. \A d \in Clients :
        cpc[d] \in Creating \cup Taking \cup Cancelling => subject[d].record # r
  BY <1>1, CallsAssumption DEF Own, CreatePlace, TakePlace, Creating
<1> QED
  BY <1>1, <1>2, <1>3, ReleaseKeeps

(* A joiner, or detach, releases the record of a thread that has           *)
(* finalized, alone.                                                       *)
LEMMA JoinReleaseKeeps ==
  ASSUME TypeOK, CallPlace, Own, NEW c \in Clients, NEW r \in Records, r \in live,
         state[r] = StateFinalized, DetachAndDeallocate(r),
         \A d \in Clients :
           d # c /\ cpc[d] \in Taking \cup Cancelling => subject[d].record # r,
         cpc'[c] = "idle",
         \A d \in Clients : d # c => cpc'[d] = cpc[d] /\ subject'[d] = subject[d],
         UNCHANGED <<state, attr, wpc, record, killed>>
  PROVE  Own'
<1>1. "Detached" \notin attr[r]
  BY DEF Own, LivePlace
<1>2. \A v \in Workers :
        /\ wpc[v] \in Running \cup {"release"} => record[v] # r
        /\ wpc[v] = "check" /\ "Detached" \in attr[record[v]] => record[v] # r
  BY <1>1 DEF Own, OwnerPlace
<1>3. \A d \in Clients : cpc[d] \in Creating => subject[d].record # r
  BY DEF Own, CreatePlace
<1> QED
  BY <1>2, <1>3, ReleaseKeeps

(* A step inside a client's call.                                          *)
LEMMA ClientKeeps ==
  ASSUME Disciplined, TypeOK, CallPlace, Own, NEW c \in Clients,
         ClientStep(c) \/ CreateFailed(c) \/ JoinTimeout(c)
  PROVE  Own'
<1> DEFINE r == subject[c].record
<1>0. cpc[c] # "idle" => r \in Records
  BY DEF CallPlace
<1>1. ASSUME NEW w \in Workers, CreateNative(c, w) PROVE Own'
  <2>1. /\ cpc[c] = "create" /\ wpc[w] = "none"
        /\ r \in Records /\ runner[r] = None /\ r \notin free /\ r \notin live
        /\ runner'[r] = w /\ wpc'[w] = "start" /\ record'[w] = r
        /\ cpc'[c] = "create_sync"
        /\ \A s \in Records : s # r => runner'[s] = runner[s]
        /\ \A v \in Workers : v # w => wpc'[v] = wpc[v] /\ record'[v] = record[v]
        /\ \A d \in Clients : d # c => cpc'[d] = cpc[d] /\ subject'[d] = subject[d]
        /\ subject'[c].record = r
        /\ UNCHANGED <<free, state, attr, mutex, live, killed>>
    BY <1>0, <1>1 DEF CreateNative, WorkerGoto, ClientGoto, TypeOK, Own,
                      CreatePlace, Creating
  <2>2. state[r] = 0
    BY <2>1 DEF Own, CreatePlace
  <2> HIDE DEF r
  <2>3. RunnerPlace'
    BY <2>1, CallsAssumption DEF TypeOK, Own, RunnerPlace
  <2>4. OwnerPlace'
    BY <2>1, <2>2, CallsAssumption DEF CallPlace, Own, OwnerPlace, Running, StateFinalized
  <2>5. KindKept' /\ LivePlace'
    BY <2>1, CallsAssumption DEF TypeOK, CallPlace, Own, KindKept, LivePlace
  <2>6. CreatePlace'
    <3>1. w # None /\ ~killed[w]
      BY <2>1, CallsAssumption DEF Own, OwnerPlace
    <3>2. ASSUME NEW d \in Clients, d # c, cpc[d] \in Creating
          PROVE  /\ subject[d].record \in Records /\ subject[d].record # r
                 /\ runner'[subject[d].record] = runner[subject[d].record]
                 /\ runner[subject[d].record] # w
      <4>1. subject[d].record \in Records /\ subject[d].record # r
        BY <2>1, <3>2 DEF CallPlace, Own, CreatePlace, Creating, r
      <4> QED
        BY <2>1, <3>1, <4>1 DEF Own, RunnerPlace
    <3>3. ASSUME NEW d \in Clients, d # c, cpc[d] = "create_sync"
          PROVE  wpc'[runner[subject[d].record]] = wpc[runner[subject[d].record]]
      BY <2>1, <3>2, <3>3 DEF TypeOK, Own, CreatePlace, Creating
    <3> QED
      BY <2>1, <2>2, <3>1, <3>2, <3>3 DEF Own, CreatePlace, Creating
  <2>7. TakePlace'
    BY <2>1 DEF CallPlace, Own, TakePlace, Taking, Cancelling
  <2> QED
    BY <2>3, <2>4, <2>5, <2>6, <2>7 DEF Own
<1>2. CASE CreateSync(c)
  <2>1. /\ cpc[c] = "create_sync" /\ r \in Records /\ r \notin free /\ r \notin live
        /\ runner[r] # None /\ wpc[runner[r]] \in {"start", "sync"}
        /\ state'[r] = StateExternalInit /\ cpc'[c] = "idle"
        /\ \A s \in Records : s # r => state'[s] = state[s]
        /\ \A d \in Clients : d # c => cpc'[d] = cpc[d] /\ subject'[d] = subject[d]
        /\ UNCHANGED <<free, runner, attr, mutex, wpc, record, killed>>
    BY <1>0, <1>2, ReturnTypes DEF CreateSync, TypeOK, Own, CreatePlace, Creating
  <2>2. live' = IF "Detached" \in attr[r] THEN live ELSE live \cup {r}
    BY <1>2, <2>1 DEF CreateSync
  <2>3. \A d \in Clients : cpc[d] \in Creating /\ d # c => subject[d].record # r
    BY <2>1 DEF Own, CreatePlace, Creating
  <2> HIDE DEF r
  <2>4. RunnerPlace' /\ OwnerPlace'
    BY <2>1 DEF CallPlace, Own, RunnerPlace, OwnerPlace, Running,
                StateExternalInit, StateFinalized
  <2>5. KindKept' /\ LivePlace'
    BY <2>1, <2>2 DEF Own, KindKept, LivePlace
  <2>6. CreatePlace'
    BY <2>1, <2>2, <2>3 DEF CallPlace, Own, CreatePlace, Creating
  <2>7. TakePlace'
    BY <2>1, <2>2 DEF CallPlace, Own, TakePlace, Taking, Cancelling
  <2> QED
    BY <2>4, <2>5, <2>6, <2>7 DEF Own
<1>3. CASE CreateFailed(c)
  <2>1. /\ cpc[c] = "create" /\ r \in Records /\ runner[r] = None /\ r \notin live
        /\ DetachAndDeallocate(r) /\ cpc'[c] = "idle"
        /\ \A d \in Clients : d # c => cpc'[d] = cpc[d] /\ subject'[d] = subject[d]
        /\ UNCHANGED <<state, attr, wpc, record, killed>>
    BY <1>0, <1>3, ReturnTypes DEF CreateFailed, Own, CreatePlace, Creating
  <2>2. \A d \in Clients :
          d # c /\ cpc[d] \in Creating \cup Taking \cup Cancelling
            => subject[d].record # r
    BY <2>1 DEF Own, CreatePlace, TakePlace, Creating
  <2> HIDE DEF r
  <2>3. \A v \in Workers :
          /\ wpc[v] \in Running \cup {"release"} => record[v] # r
          /\ wpc[v] = "check" /\ "Detached" \in attr[record[v]] => record[v] # r
    BY <2>1, CallsAssumption DEF Own, OwnerPlace
  <2> QED
    BY <2>1, <2>2, <2>3, ReleaseKeeps
<1>4. CASE JoinRelease(c)
  <2>1. /\ cpc[c] = "join_release" /\ r \in Records /\ r \in live
        /\ state[r] = StateFinalized /\ DetachAndDeallocate(r) /\ cpc'[c] = "idle"
        /\ \A d \in Clients : d # c => cpc'[d] = cpc[d] /\ subject'[d] = subject[d]
        /\ UNCHANGED <<state, attr, wpc, record, killed>>
    BY <1>0, <1>4, ReturnTypes DEF JoinRelease, Own, TakePlace, Taking
  <2>2. \A d \in Clients :
          d # c /\ cpc[d] \in Taking \cup Cancelling => subject[d].record # r
    BY <2>1 DEF Own, TakePlace, Taking
  <2> HIDE DEF r
  <2> QED
    BY <2>1, <2>2, JoinReleaseKeeps
<1>5. CASE JoinWait(c)
  <2>1. /\ cpc[c] \in {"join_wait", "timedjoin_wait"} /\ r \in Records
        /\ state[r] = StateFinalized /\ cpc'[c] = "join_release"
        /\ \A d \in Clients : d # c => cpc'[d] = cpc[d]
        /\ UNCHANGED <<free, runner, state, attr, mutex, live, wpc, record, killed,
                       subject>>
    BY <1>0, <1>5 DEF JoinWait, ClientGoto, TypeOK, States, StateInternalInit,
                      StateExternalInit, StateCancelling, StateFinalized
  <2>2. RunnerPlace' /\ OwnerPlace' /\ KindKept' /\ LivePlace'
    BY <2>1 DEF Own, RunnerPlace, OwnerPlace, KindKept, LivePlace
  <2>3. CreatePlace'
    BY <2>1 DEF Own, CreatePlace, Creating
  <2>4. TakePlace'
    BY <2>1 DEF Own, TakePlace, Taking, Cancelling
  <2> QED
    BY <2>2, <2>3, <2>4 DEF Own
<1>6. CASE RefusedReturns(c) \/ JoinTimeout(c)
  <2>1. /\ cpc'[c] = "idle"
        /\ \A d \in Clients : d # c => cpc'[d] = cpc[d] /\ subject'[d] = subject[d]
        /\ UNCHANGED <<free, runner, state, attr, mutex, live, wpc, record, killed>>
    BY <1>6, ReturnTypes DEF RefusedReturns, JoinTimeout
  <2>2. RunnerPlace' /\ OwnerPlace' /\ KindKept' /\ LivePlace'
    BY <2>1 DEF Own, RunnerPlace, OwnerPlace, KindKept, LivePlace
  <2>3. CreatePlace'
    BY <2>1 DEF Own, CreatePlace, Creating
  <2>4. TakePlace'
    BY <2>1 DEF Own, TakePlace, Taking, Cancelling
  <2> QED
    BY <2>2, <2>3, <2>4 DEF Own
<1>7. CASE DetachTest(c)
  <2>1. /\ cpc[c] = "detach_test" /\ r \in Records /\ r \in live /\ mutex[r] = c
        /\ UNCHANGED <<state, attr, wpc, record, killed>>
    BY <1>0, <1>7 DEF DetachTest, Own, TakePlace, Taking
  <2>2. \A d \in Clients :
          d # c /\ cpc[d] \in Taking \cup Cancelling => subject[d].record # r
    BY <2>1 DEF Own, TakePlace, Taking
  <2>3. CASE state[r] >= StateFinalized /\ DetachAndDeallocate(r) /\ Return(c)
    <3>1. state[r] = StateFinalized
      BY <2>1, <2>3 DEF TypeOK, States, StateInternalInit, StateExternalInit,
                        StateCancelling, StateFinalized
    <3>2. /\ cpc'[c] = "idle"
          /\ \A d \in Clients : d # c => cpc'[d] = cpc[d] /\ subject'[d] = subject[d]
      BY <2>3, ReturnTypes
    <3> HIDE DEF r
    <3> QED
      BY <2>1, <2>2, <2>3, <3>1, <3>2, JoinReleaseKeeps
  <2>4. CASE /\ mutex' = [mutex EXCEPT ![r] = None] /\ Return(c)
             /\ UNCHANGED <<free, live, runner>>
    <3>1. /\ cpc'[c] = "idle"
          /\ \A d \in Clients : d # c => cpc'[d] = cpc[d] /\ subject'[d] = subject[d]
          /\ \A s \in Records : s # r => mutex'[s] = mutex[s]
      BY <2>4, ReturnTypes DEF TypeOK
    <3> HIDE DEF r
    <3>2. RunnerPlace' /\ OwnerPlace' /\ KindKept' /\ LivePlace'
      BY <2>1, <2>4 DEF Own, RunnerPlace, OwnerPlace, KindKept, LivePlace
    <3>3. CreatePlace'
      BY <2>1, <2>4, <3>1 DEF Own, CreatePlace, Creating
    <3>4. TakePlace'
      BY <2>1, <2>2, <2>4, <3>1 DEF CallPlace, Own, TakePlace, Taking, Cancelling
    <3> QED
      BY <3>2, <3>3, <3>4 DEF Own
  <2>5. CASE /\ ClientGoto(c, "detach_mark")
             /\ UNCHANGED <<free, live, runner, mutex, subject>>
    <3>1. cpc'[c] = "detach_mark" /\ \A d \in Clients : d # c => cpc'[d] = cpc[d]
      BY <2>5 DEF ClientGoto, TypeOK
    <3>2. RunnerPlace' /\ OwnerPlace' /\ KindKept' /\ LivePlace'
      BY <2>1, <2>5 DEF Own, RunnerPlace, OwnerPlace, KindKept, LivePlace
    <3>3. CreatePlace'
      BY <2>1, <2>5, <3>1 DEF Own, CreatePlace, Creating
    <3>4. TakePlace'
      BY <2>1, <2>2, <2>5, <3>1 DEF Own, TakePlace, Taking, Cancelling
    <3> QED
      BY <3>2, <3>3, <3>4 DEF Own
  <2> QED
    BY <1>7, <2>3, <2>4, <2>5 DEF DetachTest
<1>8. CASE DetachMark(c)
  <2>1. /\ cpc[c] = "detach_mark" /\ r \in Records /\ r \in live
        /\ runner[r] \in Workers /\ ~OneKind
        /\ live' = live \ {r} /\ cpc'[c] = "idle"
        /\ \A s \in Records : s # r => mutex'[s] = mutex[s] /\ attr'[s] = attr[s]
        /\ attr'[r] = attr[r] \cup {"Detached"}
        /\ \A d \in Clients : d # c => cpc'[d] = cpc[d] /\ subject'[d] = subject[d]
        /\ UNCHANGED <<free, runner, state, wpc, record, killed>>
    BY <1>0, <1>8, ReturnTypes
       DEF DetachMark, TypeOK, Own, TakePlace, Taking, LivePlace, OneKind
  <2>2. \A d \in Clients :
          d # c /\ cpc[d] \in Taking \cup Cancelling => subject[d].record # r
    BY <2>1 DEF Own, TakePlace, Taking
  <2>3. \A v \in Workers : runner[r] = v
    BY <2>1 DEF Disciplined, OneThread
  <2> HIDE DEF r
  <2>4. RunnerPlace' /\ LivePlace'
    BY <2>1 DEF TypeOK, Own, RunnerPlace, LivePlace
  <2>5. OwnerPlace'
    BY <2>1, <2>3 DEF CallPlace, Own, OwnerPlace, Running
  <2>6. KindKept'
    BY <2>1 DEF KindKept
  <2>7. CreatePlace'
    BY <2>1 DEF Own, CreatePlace, Creating
  <2>8. TakePlace'
    BY <2>1, <2>2 DEF CallPlace, Own, TakePlace, Taking, Cancelling
  <2> QED
    BY <2>4, <2>5, <2>6, <2>7, <2>8 DEF Own
<1>9. CASE CancelSet(c)
  <2>1. /\ cpc[c] = "cancel_set" /\ r \in Records /\ r \in live
        /\ state'[r] = StateCancelling /\ cpc'[c] = "cancel_native"
        /\ \A s \in Records : s # r => state'[s] = state[s]
        /\ \A d \in Clients : d # c => cpc'[d] = cpc[d]
        /\ UNCHANGED <<free, runner, attr, mutex, live, wpc, record, killed, subject>>
    BY <1>0, <1>9 DEF CancelSet, ClientGoto, TypeOK, Own, TakePlace, Cancelling
  <2>2. \A d \in Clients : cpc[d] \in Taking => subject[d].record # r
    BY <2>1 DEF Own, TakePlace, Taking, Cancelling
  <2>3. \A d \in Clients : cpc[d] \in Creating => subject[d].record # r
    BY <2>1 DEF Own, CreatePlace
  <2>4. RunnerPlace' /\ KindKept' /\ LivePlace'
    BY <2>1 DEF Own, RunnerPlace, KindKept, LivePlace
  <2>5. OwnerPlace'
    BY <2>1 DEF CallPlace, Own, OwnerPlace, Running, StateCancelling, StateFinalized
  <2>6. CreatePlace'
    BY <2>1, <2>3 DEF CallPlace, Own, CreatePlace, Creating
  <2>7. TakePlace'
    BY <2>1, <2>2 DEF CallPlace, Own, TakePlace, Taking, Cancelling
  <2> QED
    BY <2>4, <2>5, <2>6, <2>7 DEF Own
<1>10. CASE CancelNative(c)
  <2>1. /\ cpc[c] = "cancel_native" /\ r \in Records /\ r \in live
        /\ cpc'[c] = "idle"
        /\ \A w \in Workers : killed'[w] <=> killed[w] \/ w = runner[r]
        /\ \A s \in Records : s # r => mutex'[s] = mutex[s]
        /\ \A d \in Clients : d # c => cpc'[d] = cpc[d] /\ subject'[d] = subject[d]
        /\ UNCHANGED <<free, runner, state, attr, live, wpc, record>>
    BY <1>0, <1>10, ReturnTypes DEF CancelNative, TypeOK, Own, TakePlace, Cancelling
  <2>2. \A d \in Clients :
          d # c /\ cpc[d] \in Cancelling => subject[d].record # r
    BY <2>1 DEF Own, TakePlace, Cancelling
  <2>3. /\ \A d \in Clients : cpc[d] \in Creating => subject[d].record # r
        /\ runner[r] # None /\ wpc[runner[r]] # "none" /\ record[runner[r]] = r
    BY <2>1 DEF Own, CreatePlace, LivePlace, RunnerPlace
  <2>4. RunnerPlace' /\ KindKept' /\ LivePlace'
    BY <2>1 DEF Own, RunnerPlace, KindKept, LivePlace
  <2>5. OwnerPlace'
    BY <2>1, <2>3 DEF Own, OwnerPlace
  <2>6. CreatePlace'
    <3>1. ASSUME NEW d \in Clients, cpc[d] = "create_sync"
          PROVE  runner[subject[d].record] \in Workers \ {runner[r]}
      BY <2>3, <3>1 DEF TypeOK, CallPlace, Own, CreatePlace, Creating, RunnerPlace
    <3> QED
      BY <2>1, <3>1 DEF Own, CreatePlace, Creating
  <2>7. TakePlace'
    BY <2>1, <2>2 DEF CallPlace, Own, TakePlace, Taking, Cancelling
  <2> QED
    BY <2>4, <2>5, <2>6, <2>7 DEF Own
<1> QED
  BY <1>1, <1>2, <1>3, <1>4, <1>5, <1>6, <1>7, <1>8, <1>9, <1>10
     DEF ClientStep

(* A call begins.                                                          *)
LEMMA CallKeeps ==
  ASSUME Disciplined, TypeOK, CallPlace, Own, NEW c \in Clients, ClientCall(c)
  PROVE  Own'
<1>1. ASSUME NEW r \in Records, NEW flags \in CreateAttrs, Create(c, r, flags),
             \E w \in Workers : wpc[w] = "none"
      PROVE  Own'
  <2>1. /\ r \in free /\ cpc[c] = "idle" /\ cpc'[c] = "create"
        /\ free' = free \ {r} /\ state'[r] = 0 /\ attr'[r] = flags
        /\ \A s \in Records : s # r => state'[s] = state[s] /\ attr'[s] = attr[s]
        /\ \A d \in Clients : d # c => cpc'[d] = cpc[d] /\ subject'[d] = subject[d]
        /\ subject'[c].record = r
        /\ UNCHANGED <<runner, mutex, live, wpc, record, killed>>
    BY <1>1 DEF Create, ClientGoto, TypeOK
  <2>2. OneKind => ("Detached" \in flags <=> DetachedKind)
    BY DEF OneKind, DetachedKind
  <2>3. r \notin live /\ runner[r] = None
    BY <2>1 DEF Own, LivePlace, RunnerPlace
  <2>4. /\ \A d \in Clients :
             cpc[d] \in Creating \cup Taking \cup Cancelling => subject[d].record # r
        /\ \A v \in Workers : wpc[v] \in Running \cup {"release"} => record[v] # r
    BY <2>1, <2>3, CallsAssumption DEF Own, CreatePlace, TakePlace, OwnerPlace, Running
  <2>5. RunnerPlace' /\ LivePlace'
    BY <2>1, <2>3 DEF TypeOK, Own, RunnerPlace, LivePlace
  <2>6. OwnerPlace'
    <3>1. ASSUME NEW v \in Workers, wpc[v] = "check", record[v] = r
          PROVE  "Detached" \notin flags
      <4>1. OneKind
        BY <1>1, <3>1 DEF Disciplined, OneThread
      <4>2. "Detached" \notin attr[r]
        BY <2>3, <3>1, CallsAssumption DEF Own, OwnerPlace
      <4> QED
        BY <2>2, <3>1, <4>1, <4>2 DEF Own, KindKept
    <3> QED
      BY <2>1, <2>4, <3>1 DEF CallPlace, Own, OwnerPlace, Running
  <2>7. KindKept'
    BY <2>1, <2>2 DEF CallPlace, Own, KindKept
  <2>8. CreatePlace'
    BY <2>1, <2>3, <2>4 DEF CallPlace, Own, CreatePlace, Creating
  <2>9. TakePlace'
    BY <2>1, <2>4 DEF CallPlace, Own, TakePlace, Taking, Cancelling
  <2> QED
    BY <2>5, <2>6, <2>7, <2>8, <2>9 DEF Own
<1>2. ASSUME NEW r \in Records, NEW call \in Joins, JoinFinalized(c, r, call)
      PROVE  Own'
  <2>1. /\ cpc[c] = "idle" /\ r \in live /\ mutex[r] = None
        /\ state[r] = StateFinalized /\ DetachAndDeallocate(r)
        /\ \A d \in Clients : ~Consuming(d, r)
        /\ UNCHANGED <<state, attr, wpc, record, killed, cpc, subject>>
    BY <1>2 DEF JoinFinalized, MayCall, Disciplined, Joins, TypeOK, States,
                StateInternalInit, StateExternalInit, StateCancelling, StateFinalized
  <2>2. \A d \in Clients : cpc[d] \in Taking \cup Cancelling => subject[d].record # r
    BY <2>1, CallsAssumption DEF Own, TakePlace, Consuming, Taking
  <2> QED
    BY <2>1, <2>2, JoinReleaseKeeps
<1>3. ASSUME NEW r \in Records, NEW call \in Joins, JoinRefused(c, r, call)
      PROVE  Own'
  <2>1. /\ cpc'[c] = "refused"
        /\ \A d \in Clients : d # c => cpc'[d] = cpc[d] /\ subject'[d] = subject[d]
        /\ UNCHANGED <<free, runner, state, attr, mutex, live, wpc, record, killed>>
    BY <1>3 DEF JoinRefused, ClientGoto, About, TypeOK
  <2>2. RunnerPlace' /\ OwnerPlace' /\ KindKept' /\ LivePlace'
    BY <2>1 DEF Own, RunnerPlace, OwnerPlace, KindKept, LivePlace
  <2>3. CreatePlace'
    BY <2>1 DEF Own, CreatePlace, Creating
  <2>4. TakePlace'
    BY <2>1 DEF Own, TakePlace, Taking, Cancelling
  <2> QED
    BY <2>2, <2>3, <2>4 DEF Own
<1>4. ASSUME NEW r \in Records, NEW call \in Joins, JoinStart(c, r, call)
      PROVE  Own'
  <2>1. /\ cpc[c] = "idle" /\ r \in live /\ mutex[r] = None
        /\ cpc'[c] \in {"join_wait", "timedjoin_wait"}
        /\ subject'[c].record = r /\ subject'[c].worker = runner[r]
        /\ \A s \in Records : "Detached" \in attr'[s] <=> "Detached" \in attr[s]
        /\ \A d \in Clients : ~Consuming(d, r)
        /\ \A d \in Clients : d # c => cpc'[d] = cpc[d] /\ subject'[d] = subject[d]
        /\ UNCHANGED <<free, runner, state, mutex, live, wpc, record, killed>>
    BY <1>4 DEF JoinStart, MayCall, Disciplined, Joins, ClientGoto, About, TypeOK
  <2>2. \A d \in Clients : cpc[d] \in Taking \cup Cancelling => subject[d].record # r
    BY <2>1, CallsAssumption DEF Own, TakePlace, Consuming, Taking
  <2>3. RunnerPlace' /\ LivePlace'
    BY <2>1 DEF TypeOK, Own, RunnerPlace, LivePlace
  <2>4. OwnerPlace'
    BY <2>1 DEF CallPlace, Own, OwnerPlace, Running
  <2>5. KindKept'
    BY <2>1 DEF CallPlace, Own, KindKept
  <2>6. CreatePlace'
    BY <2>1 DEF Own, CreatePlace, Creating
  <2>7. TakePlace'
    BY <2>1, <2>2 DEF Own, TakePlace, Taking, Cancelling
  <2> QED
    BY <2>3, <2>4, <2>5, <2>6, <2>7 DEF Own
<1>5. ASSUME NEW r \in Records, CancelRequest(c, r) PROVE Own'
  <2>1. \A s \in Records : "Detached" \in attr'[s] <=> "Detached" \in attr[s]
    BY <1>5 DEF CancelRequest, TypeOK
  <2> QED
    BY <1>5, <2>1, AttributeKeeps DEF CancelRequest
<1>6. ASSUME NEW r \in Records, CancelAsync(c, r) PROVE Own'
  <2>1. /\ cpc[c] = "idle" /\ r \in live /\ mutex[r] = None /\ mutex'[r] = c
        /\ cpc'[c] = "cancel_set" /\ subject'[c].record = r
        /\ \A s \in Records : s # r => mutex'[s] = mutex[s]
        /\ \A d \in Clients : ~Consuming(d, r)
        /\ \A d \in Clients : d # c => cpc'[d] = cpc[d] /\ subject'[d] = subject[d]
        /\ UNCHANGED <<free, runner, state, attr, live, wpc, record, killed>>
    BY <1>6 DEF CancelAsync, MayCall, Disciplined, ClientGoto, About, TypeOK
  <2>2. \A d \in Clients : cpc[d] \in Taking \cup Cancelling => subject[d].record # r
    BY <2>1, CallsAssumption DEF Own, TakePlace, Consuming, Taking
  <2>3. RunnerPlace' /\ OwnerPlace' /\ KindKept' /\ LivePlace'
    BY <2>1 DEF Own, RunnerPlace, OwnerPlace, KindKept, LivePlace
  <2>4. CreatePlace'
    BY <2>1 DEF Own, CreatePlace, Creating
  <2>5. TakePlace'
    BY <2>1, <2>2 DEF CallPlace, Own, TakePlace, Taking, Cancelling
  <2> QED
    BY <2>3, <2>4, <2>5 DEF Own
<1>7. ASSUME NEW r \in Records, DetachStart(c, r) PROVE Own'
  <2>1. /\ cpc[c] = "idle" /\ r \in live /\ mutex[r] = None /\ mutex'[r] = c
        /\ "detach" \in Calls /\ cpc'[c] = "detach_test"
        /\ subject'[c].record = r /\ subject'[c].worker = runner[r]
        /\ \A s \in Records : s # r => mutex'[s] = mutex[s]
        /\ \A d \in Clients : ~Consuming(d, r)
        /\ \A d \in Clients : d # c => cpc'[d] = cpc[d] /\ subject'[d] = subject[d]
        /\ UNCHANGED <<free, runner, state, attr, live, wpc, record, killed>>
    BY <1>7 DEF DetachStart, MayCall, Disciplined, ClientGoto, About, TypeOK
  <2>2. \A d \in Clients : cpc[d] \in Taking \cup Cancelling => subject[d].record # r
    BY <2>1, CallsAssumption DEF Own, TakePlace, Consuming, Taking
  <2>3. RunnerPlace' /\ OwnerPlace' /\ KindKept' /\ LivePlace'
    BY <2>1 DEF Own, RunnerPlace, OwnerPlace, KindKept, LivePlace
  <2>4. CreatePlace'
    BY <2>1 DEF Own, CreatePlace, Creating
  <2>5. TakePlace'
    BY <2>1, <2>2 DEF CallPlace, Own, TakePlace, Taking, Cancelling
  <2> QED
    BY <2>3, <2>4, <2>5 DEF Own
<1> QED
  BY <1>1, <1>2, <1>3, <1>4, <1>5, <1>6, <1>7 DEF ClientCall

(* Every step keeps the invariant.                                         *)
LEMMA Inductive ==
  ASSUME Disciplined, IInv, [Next]_vars
  PROVE  IInv'
<1>0. TypeOK /\ CallPlace /\ Own
  BY DEF IInv
<1>1. ASSUME UNCHANGED vars PROVE Own'
  BY <1>0, <1>1, AttributeKeeps DEF vars
<1>2. ASSUME NEW w \in Workers, SetCancel(w) PROVE Own'
  <2>1. \A s \in Records : "Detached" \in attr'[s] <=> "Detached" \in attr[s]
    BY <1>0, <1>2 DEF SetCancel, TypeOK
  <2> QED
    BY <1>0, <1>2, <2>1, AttributeKeeps DEF SetCancel
<1>3. Own'
  BY <1>0, <1>1, <1>2, PlaceKeeps, StateKeeps, ReleaseSelfKeeps, ClientKeeps, CallKeeps
     DEF Next, WorkerStep
<1> QED
  BY <1>0, <1>3, TypeInductive DEF IInv

(* The invariant always holds.                                             *)
THEOREM Invariance == ASSUME Disciplined PROVE Spec => []IInv
<1>1. Init => IInv
  BY TypeInit, OwnInit DEF IInv
<1>2. IInv /\ [Next]_vars => IInv'
  BY Inductive
<1> QED
  BY <1>1, <1>2, PTL DEF Spec

(* "We are here because detached thread has completed execution": where    *)
(* all threads are created joinable, or all detached, and detach is not    *)
(* called, or where one thread is started and called upon in every way, a  *)
(* record stays with its thread until the thread has set StateFinalized,   *)
(* and whoever releases a record releases the one it means, once.  Cancels *)
(* of both types may come at any time.                                     *)
THEOREM RecordKept == ASSUME Disciplined PROVE Spec => []OwnRecord
<1>1. IInv => OwnRecord
  BY DEF IInv, Own, OwnerPlace, TakePlace, OwnRecord, Consuming, Taking
<1> QED
  BY <1>1, Invariance, PTL

=============================================================================
