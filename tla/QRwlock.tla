------------------------------ MODULE QRwlock ------------------------------
(***************************************************************************)
(* qrwlock_base of include/sprt/runtime/thread/qrwlock.h, its "fair"       *)
(* operations as rwlock_t of core/pthread/pthread_rwlock.cc calls them.    *)
(*                                                                         *)
(* One action per atomic access to `value`, whose bits are a set.  The two *)
(* qmutexes inside the lock are taken as locks (QMutex shows that they     *)
(* are): `gate` is whether gatekeeper_mutex is locked, `cmtx` who is       *)
(* between lock and unlock of counter_mutex.  `counter` is touched only    *)
(* under counter_mutex, so lock, fetchAdd and unlock are one step.         *)
(*                                                                         *)
(* Clients do not ask for the write lock while they hold a read lock, and  *)
(* a read lock is taken again by its holder up to MaxDepth times.  A call  *)
(* by the holder of the write lock answers EDEADLK and changes nothing.    *)
(***************************************************************************)
EXTENDS Futex, Naturals, FiniteSets

CONSTANTS
  Threads,
  ReadClients,    \* threads that call rdlock and tryrdlock
  WriteClients,   \* threads that call wrlock and trywrlock
  Timed,          \* threads that may pass a timeout
  Interruptible,  \* threads a signal may interrupt in a wait (EINTR)
  MaxDepth,       \* bound: read locks one thread takes at a time
  MaxLeaked,      \* bound: no read lock is taken twice after so many leaks
  Nobody

ASSUME ThreadsAssumption ==
  /\ IsFiniteSet(Threads) /\ Nobody \notin Threads
  /\ ReadClients \subseteq Threads /\ WriteClients \subseteq Threads
  /\ Timed \subseteq Threads /\ Interruptible \subseteq Threads
ASSUME DepthAssumption == MaxDepth \in Nat \ {0} /\ MaxLeaked \in Nat

VARIABLES
  value,     \* rwlock_data::value
  gate,      \* gatekeeper_mutex is locked
  cmtx,      \* who holds counter_mutex
  counter,   \* rwlock_data::counter
  pc,
  call,      \* call[t]: the operation t is in
  expected,  \* expected[t]: the value fetched last by t
  timeout,   \* timeout[t]: what is left of the timeout of t's call
  rd,        \* rd[t]: the entry of threadRdLocks of t, 0 if there is none
  wr,        \* threads with an entry in threadWrLocks
  leaked,    \* history: read locks granted whose entry was erased
  abandoned  \* history: a call has returned with the gatekeeper locked

locals == <<pc, call, expected, timeout>>
books == <<rd, wr, leaked, abandoned>>
vars == <<value, gate, cmtx, counter, locals, books>>

ReadLock == "Read"
WriteLock == "Write"
Waiters == "Waiters"
Modes == {ReadLock, WriteLock}

(* A timeout of zero from the start ("zero") is told from one used up by   *)
(* waiting ("spent"): rwlock_t compares the first, the loops see both.     *)
Timeouts == {"infinite", "left", "zero", "spent"}
Expired(t) == timeout[t] \in {"zero", "spent"}
Calls == {"none", "rd", "tryrd", "wr", "trywr", "unlock"}
Reading(t) == call[t] \in {"rd", "tryrd"}
Locations == {"idle", "gate", "gate_wait", "gated", "inc", "cas", "announce",
              "wait", "asleep", "woken", "retry", "ungate", "dec", "sub",
              "clear", "exchange", "unlock_gate", "wake"}

TypeOK ==
  /\ value \in SUBSET (Modes \cup {Waiters})
  /\ gate \in BOOLEAN
  /\ cmtx \in Threads \cup {Nobody}
  /\ counter \in Nat
  /\ pc \in [Threads -> Locations]
  /\ call \in [Threads -> Calls]
  /\ expected \in [Threads -> SUBSET (Modes \cup {Waiters})]
  /\ timeout \in [Threads -> Timeouts]
  /\ rd \in [Threads -> 0..MaxDepth]
  /\ wr \in SUBSET Threads
  /\ leaked \in Nat
  /\ abandoned \in BOOLEAN

Init ==
  /\ value = {} /\ gate = FALSE /\ cmtx = Nobody /\ counter = 0
  /\ pc = [t \in Threads |-> "idle"]
  /\ call = [t \in Threads |-> "none"]
  /\ expected = [t \in Threads |-> {}]
  /\ timeout = [t \in Threads |-> "infinite"]
  /\ rd = [t \in Threads |-> 0] /\ wr = {}
  /\ leaked = 0 /\ abandoned = FALSE

Goto(t, location) ==
  pc' = [pc EXCEPT ![t] = location] /\ UNCHANGED <<call, expected, timeout>>

(* The call of t is over: its locals are gone.                             *)
Return(t) ==
  /\ pc' = [pc EXCEPT ![t] = "idle"]
  /\ call' = [call EXCEPT ![t] = "none"]
  /\ expected' = [expected EXCEPT ![t] = {}]
  /\ timeout' = [timeout EXCEPT ![t] = "infinite"]

Fetch(t, fetched, location) ==
  /\ expected' = [expected EXCEPT ![t] = fetched]
  /\ pc' = [pc EXCEPT ![t] = location]
  /\ UNCHANGED <<call, timeout>>

(* What the clock may leave of a timeout after a wait.                     *)
Elapsed(left) == IF left = "left" THEN {"left", "spent"} ELSE {left}

-----------------------------------------------------------------------------
(* The calls.  Every one of them but unlock starts at the gatekeeper.      *)
Begin(t, operation, limits) ==
  /\ pc[t] = "idle"
  /\ t \notin wr
  /\ pc' = [pc EXCEPT ![t] = "gate"]
  /\ call' = [call EXCEPT ![t] = operation]
  /\ \E limit \in limits : timeout' = [timeout EXCEPT ![t] = limit]
  /\ UNCHANGED <<value, gate, cmtx, counter, expected, books>>

MayRead(t) ==
  /\ t \in ReadClients
  /\ rd[t] < MaxDepth
  /\ rd[t] > 0 => leaked < MaxLeaked
MayWrite(t) == t \in WriteClients /\ rd[t] = 0
Limits(t) == IF t \in Timed THEN {"infinite", "left", "zero"} ELSE {"infinite"}
RdLock(t) == MayRead(t) /\ Begin(t, "rd", Limits(t))
TryRdLock(t) == MayRead(t) /\ Begin(t, "tryrd", {"infinite"})
WrLock(t) == MayWrite(t) /\ Begin(t, "wr", Limits(t))
TryWrLock(t) == MayWrite(t) /\ Begin(t, "trywr", {"infinite"})

(* unlock, and force_unlock when the thread ends: the whole entry of       *)
(* threadRdLocks is erased, since _unlock_fair never answers Propagate.    *)
(* Then _unlock_fair loads the value.                                      *)
Unlock(t) ==
  /\ pc[t] = "idle"
  /\ rd[t] > 0 \/ t \in wr
  /\ rd' = [rd EXCEPT ![t] = 0]
  /\ wr' = wr \ {t}
  /\ leaked' = leaked + (IF rd[t] > 1 THEN rd[t] - 1 ELSE 0)
  /\ pc' = [pc EXCEPT ![t] = IF ReadLock \in value THEN "dec" ELSE "exchange"]
  /\ call' = [call EXCEPT ![t] = "unlock"]
  /\ expected' = [expected EXCEPT ![t] = value]
  /\ UNCHANGED <<value, gate, cmtx, counter, timeout, abandoned>>

-----------------------------------------------------------------------------
(* The gatekeeper: qmutex_base::_lock, or _try_lock.                       *)
Gate(t) ==
  /\ pc[t] = "gate"
  /\ IF ~gate THEN gate' = TRUE /\ Goto(t, "gated")
     ELSE /\ UNCHANGED gate
          /\ IF Expired(t) \/ call[t] \in {"tryrd", "trywr"}
               THEN Return(t) ELSE Goto(t, "gate_wait")
  /\ UNCHANGED <<value, cmtx, counter, books>>

GateWait(t) ==
  /\ pc[t] = "gate_wait"
  /\ ~gate
  /\ gate' = TRUE
  /\ pc' = [pc EXCEPT ![t] = "gated"]
  /\ \E left \in Elapsed(timeout[t]) : timeout' = [timeout EXCEPT ![t] = left]
  /\ UNCHANGED <<value, cmtx, counter, call, expected, books>>

GateGiveUp(t) ==
  /\ pc[t] = "gate_wait"
  /\ timeout[t] # "infinite" \/ t \in Interruptible
  /\ Return(t)
  /\ UNCHANGED <<value, gate, cmtx, counter, books>>

(* Through the gate. A writer keeps it locked; a reader unlocks it, unless *)
(* its timeout is zero: then _rdlock_fair returns Timeout at once.         *)
Gated(t) ==
  /\ pc[t] = "gated"
  /\ \/ ~Reading(t) /\ Goto(t, "cas") /\ UNCHANGED <<gate, abandoned>>
     \/ Reading(t) /\ ~Expired(t) /\ gate' = FALSE /\ Goto(t, "inc")
          /\ UNCHANGED abandoned
     \/ Reading(t) /\ Expired(t) /\ Return(t) /\ abandoned' = TRUE
          /\ UNCHANGED gate
  /\ UNCHANGED <<value, cmtx, counter, rd, wr, leaked>>

(* Mutant: the counter is touched without its mutex (the pattern that the  *)
(* comment of counter_mutex rules out).                                    *)
RdIncrementUnlocked(t) ==
  /\ pc[t] = "inc"
  /\ counter' = counter + 1
  /\ Goto(t, "cas")
  /\ UNCHANGED <<value, gate, cmtx, books>>

(* _rd_increment: lock counter_mutex, fetchAdd, unlock.                    *)
RdIncrement(t) ==
  /\ pc[t] = "inc"
  /\ cmtx = Nobody
  /\ counter' = counter + 1
  /\ Goto(t, "cas")
  /\ UNCHANGED <<value, gate, cmtx, books>>

-----------------------------------------------------------------------------
(* The lock is granted. rdlock enters it into threadRdLocks, unless the    *)
(* timeout is down to zero: then the read lock is given back.  wrlock      *)
(* returns ETIMEDOUT with the write lock taken if its timeout was zero.    *)
Granted(t) ==
  \/ /\ Reading(t) /\ ~Expired(t)
     /\ Return(t)
     /\ rd' = [rd EXCEPT ![t] = @ + 1]
     /\ UNCHANGED <<wr, leaked, abandoned>>
  \/ Reading(t) /\ Expired(t) /\ Fetch(t, {}, "dec") /\ UNCHANGED books
  \/ /\ ~Reading(t)
     /\ Return(t)
     /\ IF timeout[t] = "zero" THEN abandoned' = TRUE /\ UNCHANGED wr
                               ELSE wr' = wr \cup {t} /\ UNCHANGED abandoned
     /\ UNCHANGED <<rd, leaked>>

(* The call fails after the gate. A reader takes its count back; wrlock    *)
(* just returns, trywrlock unlocks the gatekeeper first.                   *)
Failed(t) ==
  \/ Reading(t) /\ Fetch(t, {}, "dec") /\ UNCHANGED books
  \/ call[t] = "trywr" /\ Goto(t, "ungate") /\ UNCHANGED books
  \/ call[t] = "wr" /\ Return(t) /\ abandoned' = TRUE
       /\ UNCHANGED <<rd, wr, leaked>>

Blocked(t, bits) ==
  bits \cap (IF Reading(t) THEN {WriteLock} ELSE Modes) # {}

(* Head of the loops of _rdlock and _wrlock, for the value just fetched: a *)
(* reader is content with a read lock that is already set; the try         *)
(* variants do not loop.                                                   *)
Head(t, fetched) ==
  IF Reading(t) /\ ReadLock \in fetched THEN Granted(t)
  ELSE IF Expired(t) \/ call[t] \in {"tryrd", "trywr"} THEN Failed(t)
  ELSE /\ Fetch(t, fetched,
                IF ~Blocked(t, fetched) THEN "retry"
                ELSE IF Waiters \in fetched THEN "wait" ELSE "announce")
       /\ UNCHANGED books

(* The first compare-and-swap, from 0 to the lock bit alone.               *)
Cas(t) ==
  /\ pc[t] = "cas"
  /\ IF value = {}
       THEN value' = {IF Reading(t) THEN ReadLock ELSE WriteLock} /\ Granted(t)
       ELSE UNCHANGED value /\ Head(t, value)
  /\ UNCHANGED <<gate, cmtx, counter>>

(* fetchOr(Waiters): no wait when the lock was released meanwhile.         *)
Announce(t) ==
  /\ pc[t] = "announce"
  /\ value' = value \cup {Waiters}
  /\ Fetch(t, value', IF Blocked(t, value) THEN "wait" ELSE "retry")
  /\ UNCHANGED <<gate, cmtx, counter, books>>

Wait(t) ==
  /\ pc[t] = "wait"
  /\ pc' = sprt_qlock_wait(pc, t, value, expected[t])
  /\ UNCHANGED <<value, gate, cmtx, counter, call, expected, timeout, books>>

(* WaitFn fails with ETIMEDOUT, or with EINTR.                             *)
GiveUp(t) ==
  /\ pc[t] = "asleep"
  /\ timeout[t] # "infinite" \/ t \in Interruptible
  /\ Failed(t)
  /\ UNCHANGED <<value, gate, cmtx, counter>>

(* After the wait: subtract the elapsed time, assume a free lock.          *)
Elapse(t) ==
  /\ pc[t] = "woken"
  /\ pc' = [pc EXCEPT ![t] = "retry"]
  /\ expected' = [expected EXCEPT ![t] = {}]
  /\ \E left \in Elapsed(timeout[t]) : timeout' = [timeout EXCEPT ![t] = left]
  /\ UNCHANGED <<value, gate, cmtx, counter, call, books>>

(* Mutant: the retry does not carry Waiters over.                          *)
RetryUnmarked(t) ==
  /\ pc[t] = "retry"
  /\ IF value = expected[t]
       THEN value' = {IF Reading(t) THEN ReadLock ELSE WriteLock} /\ Granted(t)
       ELSE UNCHANGED value /\ Head(t, value)
  /\ UNCHANGED <<gate, cmtx, counter>>

(* Foot of the loops: compare-and-swap to the lock bit and Waiters.        *)
Retry(t) ==
  /\ pc[t] = "retry"
  /\ IF value = expected[t]
       THEN /\ value' = {Waiters, IF Reading(t) THEN ReadLock ELSE WriteLock}
            /\ Granted(t)
       ELSE UNCHANGED value /\ Head(t, value)
  /\ UNCHANGED <<gate, cmtx, counter>>

(* trywrlock found the value taken.                                        *)
Ungate(t) ==
  /\ pc[t] = "ungate"
  /\ gate' = FALSE
  /\ Return(t)
  /\ UNCHANGED <<value, cmtx, counter, books>>

-----------------------------------------------------------------------------
(* _rd_decrement_unlock, under counter_mutex: load the value if it is not  *)
(* known; fetchSub; the last reader clears the value.                      *)
Decrement(t) ==
  /\ pc[t] = "dec"
  /\ cmtx = Nobody
  /\ cmtx' = t
  /\ Fetch(t, IF expected[t] = {} THEN value ELSE expected[t], "sub")
  /\ UNCHANGED <<value, gate, counter, books>>

(* Mutant: a reader that gives up takes its count back and leaves the      *)
(* value alone.                                                            *)
SubtractOnly(t) ==
  /\ pc[t] = "sub"
  /\ counter' = counter - 1
  /\ IF ReadLock \in expected[t] /\ counter = 1 /\ call[t] = "unlock"
       THEN Goto(t, "clear") /\ UNCHANGED cmtx
       ELSE Return(t) /\ cmtx' = Nobody
  /\ UNCHANGED <<value, gate, books>>

Subtract(t) ==
  /\ pc[t] = "sub"
  /\ counter' = counter - 1
  /\ IF ReadLock \in expected[t] /\ counter = 1
       THEN Goto(t, "clear") /\ UNCHANGED cmtx
       ELSE Return(t) /\ cmtx' = Nobody
  /\ UNCHANGED <<value, gate, books>>

Clear(t) ==
  /\ pc[t] = "clear"
  /\ value' = {}
  /\ cmtx' = Nobody
  /\ IF Waiters \in value THEN Goto(t, "wake") ELSE Return(t)
  /\ UNCHANGED <<gate, counter, books>>

(* _unlock_fair of a write lock: exchange(0), unlock the gatekeeper, wake. *)
Exchange(t) ==
  /\ pc[t] = "exchange"
  /\ value' = {}
  /\ Fetch(t, value, "unlock_gate")
  /\ UNCHANGED <<gate, cmtx, counter, books>>

(* Mutant: the gatekeeper is forgotten when nobody waits.                  *)
UnlockGateIfWaiters(t) ==
  /\ pc[t] = "unlock_gate"
  /\ gate' = (gate /\ Waiters \notin expected[t])
  /\ IF Waiters \in expected[t] THEN Goto(t, "wake") ELSE Return(t)
  /\ UNCHANGED <<value, cmtx, counter, books>>

UnlockGate(t) ==
  /\ pc[t] = "unlock_gate"
  /\ gate' = (gate /\ WriteLock \notin expected[t])
  /\ IF Waiters \in expected[t] THEN Goto(t, "wake") ELSE Return(t)
  /\ UNCHANGED <<value, cmtx, counter, books>>

(* sprt_qlock_wake_all.                                                    *)
Wake(t) ==
  /\ pc[t] = "wake"
  /\ pc' = sprt_qlock_wake_all([pc EXCEPT ![t] = "idle"])
  /\ call' = [call EXCEPT ![t] = "none"]
  /\ expected' = [expected EXCEPT ![t] = {}]
  /\ timeout' = [timeout EXCEPT ![t] = "infinite"]
  /\ UNCHANGED <<value, gate, cmtx, counter, books>>

(* The steps a thread takes once inside a call.                            *)
Proceed(t) ==
  Gate(t) \/ GateWait(t) \/ Gated(t) \/ RdIncrement(t) \/ Cas(t)
    \/ Announce(t) \/ Wait(t) \/ Elapse(t) \/ Retry(t) \/ Ungate(t)
    \/ Decrement(t) \/ Subtract(t) \/ Clear(t) \/ Exchange(t)
    \/ UnlockGate(t) \/ Wake(t)

Next ==
  \E t \in Threads :
    RdLock(t) \/ TryRdLock(t) \/ WrLock(t) \/ TryWrLock(t) \/ Unlock(t)
      \/ Proceed(t) \/ GateGiveUp(t) \/ GiveUp(t)

(* A thread that can run does, and whoever holds the lock gives it back.   *)
(* Nothing makes a thread call, and no timeout or signal has to happen.    *)
Fairness == \A t \in Threads : WF_vars(Proceed(t)) /\ WF_vars(Unlock(t))

Spec == Init /\ [][Next]_vars /\ Fairness

-----------------------------------------------------------------------------
Readers == {t \in Threads : rd[t] > 0}

(* A thread that holds the write lock is alone, whichever of the stale     *)
(* values the loops of _rdlock and _wrlock went by.                        *)
Exclusion == \A t \in wr : wr = {t} /\ Readers = {}

(* The lock is a readers-writer lock.                                      *)
Abstract == INSTANCE AbstractRwlock WITH readers <- Readers, writers <- wr
RefinesAbstractRwlock == Abstract!Spec

(* Threads that _rd_increment has counted and that hold no read lock yet,  *)
(* or are about to take their count back.                                  *)
Counted ==
  {t \in Threads :
     \/ Reading(t) /\ pc[t] \in {"cas", "announce", "wait", "asleep", "woken",
                                 "retry", "dec", "sub"}
     \/ call[t] = "unlock" /\ pc[t] \in {"dec", "sub"}}

(* The read locks held: a thread and how many times it has it.             *)
ReadLocks == {l \in Threads \X (1..MaxDepth) : l[2] <= rd[l[1]]}

(* The counter is exact through every race of a reader that arrives with   *)
(* one that leaves, or that gives up: it counts the read locks held, the   *)
(* threads on their way in or out, and the read locks whose holder called  *)
(* unlock once for several rdlocks (their entry is erased as a whole).     *)
CounterExact ==
  counter = Cardinality(ReadLocks) + Cardinality(Counted) + leaked

(* The gatekeeper is locked exactly while a thread is behind it, or for    *)
(* ever after a call gave up with it locked (a wrlock that times out or is *)
(* interrupted, an rdlock or wrlock with a timeout of zero).               *)
GateHeldIffUsed ==
  gate <=> \/ abandoned
           \/ wr # {}
           \/ \E t \in Threads :
                \/ pc[t] \in {"gated", "ungate", "exchange", "unlock_gate"}
                \/ call[t] \in {"wr", "trywr"}
                     /\ pc[t] \notin {"gate", "gate_wait"}

(* The read lock bit is not left behind: it is set only while somebody     *)
(* will clear it ("If counter was 1 before decrement, we possibly missed   *)
(* read wakeup; We should perform it here").                               *)
ReadBitOwned == ReadLock \in value => counter > 0 \/ \E t \in Threads : pc[t] = "clear"

(* What the words of the lock say is what the threads do: the holder of    *)
(* the write lock is alone, the counter is exact, a set read bit has       *)
(* somebody to clear it, and a locked gatekeeper somebody behind it.       *)
StateExact == Exclusion /\ CounterExact /\ ReadBitOwned /\ GateHeldIffUsed

(* While a thread sleeps on the value, the value says so to whoever holds  *)
(* the lock, or wake_all is on its way.                                    *)
NoLostWakeup ==
  Sleepers(pc) # {} =>
    \/ Waiters \in value /\ value \cap Modes # {}
    \/ \E t \in Threads :
         pc[t] = "wake" \/ (pc[t] = "unlock_gate" /\ Waiters \in expected[t])

(* A writer behind the gate gets the lock in the end, though readers keep  *)
(* coming (the gatekeeper is there to "Prevent writer starwation"), unless *)
(* it gives up, a read lock has been leaked, or a reader asks for the lock *)
(* again while it holds it (it waits at the gate for the writer, the       *)
(* writer for it).                                                         *)
WriterServed ==
  \A t \in Threads :
    call[t] = "wr" /\ pc[t] = "cas"
      ~> \/ t \in wr \/ pc[t] = "idle" \/ leaked > 0
         \/ \E u \in Readers : call[u] # "none"

=============================================================================
