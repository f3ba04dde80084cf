--------------------------- MODULE QRwlockProofs ---------------------------
(***************************************************************************)
(* Proofs about QRwlock for every number of threads, every depth of read   *)
(* locks and every timeout: the lock is a readers-writer lock, its words   *)
(* say what the threads do, and no sleeper is forgotten.  The inductive    *)
(* invariant is made of where a call may be (CallPlace), who holds the two *)
(* mutexes inside the lock (CounterMutexHeld, GateHeld), whom the bits of  *)
(* the value belong to (BitsOwned), the count, and what a thread knows     *)
(* of the value it fetched (FetchedRead, FetchedWait).                     *)
(***************************************************************************)
EXTENDS QRwlock, FiniteSetTheorems, TLAPS

(* The locations of each call. A thread between calls is in none, and the  *)
(* holder of the write lock is between calls.                              *)
CallPlace ==
  /\ \A t \in Threads :
       /\ pc[t] = "idle" <=> call[t] = "none"
       /\ pc[t] = "inc" => Reading(t)
       /\ pc[t] \in {"gate", "gate_wait", "gated", "cas", "announce", "wait",
                     "asleep", "woken", "retry"} => call[t] # "unlock"
       /\ pc[t] = "ungate" => call[t] = "trywr"
       /\ pc[t] \in {"dec", "sub", "clear", "wake"}
            => Reading(t) \/ call[t] = "unlock"
       /\ pc[t] \in {"exchange", "unlock_gate"} => call[t] = "unlock"
       /\ Reading(t) => rd[t] < MaxDepth
  /\ \A t \in wr : pc[t] = "idle"

(* counter_mutex is held from the load of the value to its clearing.       *)
CounterMutexHeld ==
  \A t \in Threads : cmtx = t <=> pc[t] \in {"sub", "clear"}

(* The thread has locked the gatekeeper and not unlocked it yet.           *)
Behind(t) ==
  \/ t \in wr
  \/ pc[t] \in {"gated", "ungate", "exchange", "unlock_gate"}
  \/ call[t] \in {"wr", "trywr"} /\ pc[t] \notin {"gate", "gate_wait"}

(* One thread at a time is behind the gatekeeper, and none once a call     *)
(* gave up with it locked.                                                 *)
GateHeld ==
  /\ \A t, u \in Threads : Behind(t) /\ Behind(u) => t = u
  /\ abandoned => \A t \in Threads : ~Behind(t)
  /\ gate <=> abandoned \/ \E t \in Threads : Behind(t)

(* The bits belong to the holders, and to a thread that is about to clear  *)
(* them.                                                                   *)
BitsOwned ==
  /\ ReadLock \in value => WriteLock \notin value
  /\ \A t \in Threads : rd[t] > 0 => ReadLock \in value
  /\ \A t \in Threads : t \in wr \/ pc[t] = "exchange" => WriteLock \in value
  /\ \A t \in Threads : pc[t] = "clear" => ReadLock \in value /\ counter = 0

(* A reader on its way out that fetched the read bit finds it set; one     *)
(* that did not is not the last if the bit was set since.                  *)
FetchedRead ==
  \A t \in Threads :
    /\ pc[t] = "dec" => expected[t] = {} \/ ReadLock \in expected[t]
    /\ pc[t] \in {"dec", "sub"} /\ ReadLock \in expected[t]
         => ReadLock \in value
    /\ pc[t] = "sub" /\ ReadLock \notin expected[t] /\ ReadLock \in value
         => counter > 1

(* A thread retries on a value that lets it in, sleeps on one that keeps   *)
(* it out and announces it, and unlocks the gate of a write lock it had.   *)
FetchedWait ==
  \A t \in Threads :
    /\ pc[t] = "retry" => /\ WriteLock \notin expected[t]
                          /\ ~Reading(t) => ReadLock \notin expected[t]
    /\ pc[t] = "wait" => /\ Waiters \in expected[t]
                         /\ expected[t] \cap Modes # {}
    /\ pc[t] = "unlock_gate" => WriteLock \in expected[t]

IInv ==
  /\ TypeOK
  /\ CallPlace
  /\ CounterMutexHeld
  /\ GateHeld
  /\ CounterExact
  /\ BitsOwned
  /\ FetchedRead
  /\ FetchedWait
  /\ ReadBitOwned
  /\ NoLostWakeup

-----------------------------------------------------------------------------
(* What an action may do to the locals: nobody but t moves.                *)
Moves(t) ==
  /\ pc' \in [Threads -> Locations] /\ call' \in [Threads -> Calls]
  /\ expected' \in [Threads -> SUBSET (Modes \cup {Waiters})]
  /\ timeout' \in [Threads -> Timeouts]
  /\ \A u \in Threads \ {t} :
       /\ pc'[u] = pc[u] /\ call'[u] = call[u] /\ expected'[u] = expected[u]
       /\ timeout'[u] = timeout[u]

(* What Goto does to the locals.                                           *)
LEMMA GotoStep ==
  ASSUME TypeOK, NEW t \in Threads, NEW l \in Locations, Goto(t, l)
  PROVE  /\ Moves(t) /\ pc'[t] = l /\ call'[t] = call[t]
         /\ expected'[t] = expected[t] /\ timeout'[t] = timeout[t]
BY DEF TypeOK, Goto, Moves

(* What Return does to the locals.                                         *)
LEMMA ReturnStep ==
  ASSUME TypeOK, NEW t \in Threads, Return(t)
  PROVE  Moves(t) /\ pc'[t] = "idle" /\ call'[t] = "none"
<1>1. "idle" \in Locations /\ "none" \in Calls /\ "infinite" \in Timeouts
      /\ {} \in SUBSET (Modes \cup {Waiters})
  BY DEF Locations, Calls, Timeouts
<1> QED
  BY <1>1 DEF TypeOK, Return, Moves

(* What Fetch does to the locals.                                          *)
LEMMA FetchStep ==
  ASSUME TypeOK, NEW t \in Threads, NEW l \in Locations,
         NEW w \in SUBSET (Modes \cup {Waiters}), Fetch(t, w, l)
  PROVE  /\ Moves(t) /\ pc'[t] = l /\ call'[t] = call[t]
         /\ expected'[t] = w /\ timeout'[t] = timeout[t]
BY DEF TypeOK, Fetch, Moves

(* The four calls that start at the gatekeeper.                            *)
Begins(t) == RdLock(t) \/ TryRdLock(t) \/ WrLock(t) \/ TryWrLock(t)

(* A call goes to the gatekeeper, a reader below its depth.                *)
LEMMA BeginStep ==
  ASSUME TypeOK, NEW t \in Threads, Begins(t)
  PROVE  /\ Moves(t) /\ pc[t] = "idle" /\ t \notin wr
         /\ pc'[t] = "gate" /\ call'[t] \in {"rd", "tryrd", "wr", "trywr"}
         /\ call'[t] \in {"rd", "tryrd"} => rd[t] < MaxDepth
         /\ UNCHANGED <<value, gate, cmtx, counter, rd, wr, leaked, abandoned>>
<1>1. PICK op \in {"rd", "tryrd", "wr", "trywr"} :
        /\ Begin(t, op, Limits(t)) \/ Begin(t, op, {"infinite"})
        /\ op \in {"rd", "tryrd"} => rd[t] < MaxDepth
  BY DEF Begins, RdLock, TryRdLock, WrLock, TryWrLock, MayRead
<1>2. PICK limit \in Timeouts :
        /\ pc[t] = "idle" /\ t \notin wr
        /\ pc' = [pc EXCEPT ![t] = "gate"]
        /\ call' = [call EXCEPT ![t] = op]
        /\ timeout' = [timeout EXCEPT ![t] = limit]
        /\ UNCHANGED <<value, gate, cmtx, counter, expected, rd, wr, leaked,
                       abandoned>>
  BY <1>1 DEF Begin, Limits, Timeouts, books
<1>3. "gate" \in Locations /\ op \in Calls
  BY DEF Locations, Calls
<1> QED
  BY <1>1, <1>2, <1>3 DEF TypeOK, Moves

-----------------------------------------------------------------------------
(* The ends of an attempt at the value: a reader is let in, or goes to     *)
(* take its count back; a writer is let in (and told so unless its timeout *)
(* was zero), goes to unlock the gatekeeper, or leaves with it locked.     *)
ReaderIn(t) ==
  /\ Reading(t) /\ pc'[t] = "idle" /\ call'[t] = "none"
  /\ rd' = [rd EXCEPT ![t] = @ + 1]
  /\ UNCHANGED <<wr, leaked, abandoned>>
ReaderBack(t) ==
  /\ Reading(t) /\ pc'[t] = "dec" /\ call'[t] = call[t] /\ expected'[t] = {}
  /\ UNCHANGED <<rd, wr, leaked, abandoned>>
WriterIn(t) ==
  /\ ~Reading(t) /\ pc'[t] = "idle" /\ call'[t] = "none"
  /\ \/ wr' = wr \cup {t} /\ UNCHANGED abandoned
     \/ abandoned' /\ UNCHANGED wr
  /\ abandoned' \in BOOLEAN
  /\ UNCHANGED <<rd, leaked>>
WriterBack(t) ==
  /\ call[t] = "trywr" /\ pc'[t] = "ungate" /\ call'[t] = call[t]
  /\ UNCHANGED <<rd, wr, leaked, abandoned>>
WriterOut(t) ==
  /\ call[t] = "wr" /\ pc'[t] = "idle" /\ call'[t] = "none"
  /\ abandoned' /\ abandoned' \in BOOLEAN
  /\ UNCHANGED <<rd, wr, leaked>>

(* Who is granted the lock is let in, or takes its count back.             *)
LEMMA GrantedStep ==
  ASSUME TypeOK, NEW t \in Threads, Granted(t)
  PROVE  Moves(t) /\ (ReaderIn(t) \/ ReaderBack(t) \/ WriterIn(t))
<1>1. "dec" \in Locations /\ {} \in SUBSET (Modes \cup {Waiters})
  BY DEF Locations
<1>2. CASE Reading(t) /\ ~Expired(t)
  <2>1. Return(t) /\ rd' = [rd EXCEPT ![t] = @ + 1]
        /\ UNCHANGED <<wr, leaked, abandoned>>
    BY <1>2 DEF Granted
  <2> QED
    BY <1>2, <2>1, ReturnStep DEF ReaderIn
<1>3. CASE Reading(t) /\ Expired(t)
  <2>1. Fetch(t, {}, "dec") /\ UNCHANGED <<rd, wr, leaked, abandoned>>
    BY <1>3 DEF Granted, books
  <2> QED
    BY <1>1, <1>3, <2>1, FetchStep DEF ReaderBack
<1>4. CASE ~Reading(t)
  <2>1. /\ Return(t) /\ UNCHANGED <<rd, leaked>>
        /\ \/ wr' = wr \cup {t} /\ UNCHANGED abandoned
           \/ abandoned' /\ UNCHANGED wr
        /\ abandoned' \in BOOLEAN
    BY <1>4 DEF Granted, TypeOK
  <2> QED
    BY <1>4, <2>1, ReturnStep DEF WriterIn
<1> QED
  BY <1>2, <1>3, <1>4

(* Who fails takes its count back, unlocks the gatekeeper, or leaves.      *)
LEMMA FailedStep ==
  ASSUME TypeOK, NEW t \in Threads, Failed(t)
  PROVE  Moves(t) /\ (ReaderBack(t) \/ WriterBack(t) \/ WriterOut(t))
<1>1. /\ "dec" \in Locations /\ "ungate" \in Locations
      /\ {} \in SUBSET (Modes \cup {Waiters})
  BY DEF Locations
<1>2. CASE Reading(t) /\ Fetch(t, {}, "dec") /\ UNCHANGED books
  BY <1>1, <1>2, FetchStep DEF ReaderBack, books
<1>3. CASE call[t] = "trywr" /\ Goto(t, "ungate") /\ UNCHANGED books
  BY <1>1, <1>3, GotoStep DEF WriterBack, books
<1>4. CASE call[t] = "wr" /\ Return(t) /\ abandoned' = TRUE
           /\ UNCHANGED <<rd, wr, leaked>>
  BY <1>4, ReturnStep DEF WriterOut
<1> QED
  BY <1>2, <1>3, <1>4 DEF Failed

(* The thread keeps trying, with the value it fetched.                     *)
TriesAgain(t) ==
  /\ call'[t] = call[t] /\ expected'[t] = value
  /\ \/ /\ pc'[t] = "retry" /\ WriteLock \notin value
        /\ ~Reading(t) => ReadLock \notin value
     \/ pc'[t] = "wait" /\ Waiters \in value /\ value \cap Modes # {}
     \/ pc'[t] = "announce"
  /\ UNCHANGED <<rd, wr, leaked, abandoned>>

(* The head of the loops lets in a reader that finds the read bit only.    *)
LEMMA HeadStep ==
  ASSUME TypeOK, NEW t \in Threads, Head(t, value)
  PROVE  /\ Moves(t)
         /\ \/ ReadLock \in value /\ (ReaderIn(t) \/ ReaderBack(t))
            \/ ReaderBack(t) \/ WriterBack(t) \/ WriterOut(t)
            \/ TriesAgain(t)
<1>1. CASE Reading(t) /\ ReadLock \in value
  BY <1>1, GrantedStep DEF Head, WriterIn
<1>2. CASE /\ ~(Reading(t) /\ ReadLock \in value)
           /\ Expired(t) \/ call[t] \in {"tryrd", "trywr"}
  BY <1>2, FailedStep DEF Head
<1>3. CASE /\ ~(Reading(t) /\ ReadLock \in value)
           /\ ~(Expired(t) \/ call[t] \in {"tryrd", "trywr"})
  <2> DEFINE l == IF ~Blocked(t, value) THEN "retry"
                  ELSE IF Waiters \in value THEN "wait" ELSE "announce"
  <2>1. Fetch(t, value, l) /\ UNCHANGED books
    BY <1>3 DEF Head
  <2>2. l \in Locations
    BY DEF Locations
  <2>3. Moves(t) /\ pc'[t] = l /\ call'[t] = call[t] /\ expected'[t] = value
    <3> HIDE DEF l
    <3> QED
      BY <2>1, <2>2, FetchStep DEF TypeOK
  <2>4. ~Blocked(t, value)
          => WriteLock \notin value /\ (~Reading(t) => ReadLock \notin value)
    BY DEF Blocked, Modes
  <2>5. Blocked(t, value) => value \cap Modes # {}
    BY DEF Blocked, Modes
  <2> QED
    BY <2>1, <2>3, <2>4, <2>5 DEF TriesAgain, books
<1> QED
  BY <1>1, <1>2, <1>3

(* An attempt at the value: the first compare-and-swap or a later one.     *)
(* ReadLock is set where WriteLock is not, WriteLock where neither is, and *)
(* Waiters is kept.                                                        *)
LEMMA AttemptStep ==
  ASSUME TypeOK, FetchedWait, NEW t \in Threads, Cas(t) \/ Retry(t)
  PROVE  /\ Moves(t) /\ pc[t] \in {"cas", "retry"}
         /\ UNCHANGED <<gate, cmtx, counter>>
         /\ value' \in SUBSET (Modes \cup {Waiters})
         /\ \/ /\ WriteLock \notin value /\ WriteLock \notin value'
               /\ ReadLock \in value'
               /\ ReaderIn(t) \/ ReaderBack(t)
            \/ /\ WriteLock \notin value /\ ReadLock \notin value
               /\ WriteLock \in value' /\ ReadLock \notin value'
               /\ WriterIn(t)
            \/ /\ UNCHANGED value
               /\ \/ ReadLock \in value /\ (ReaderIn(t) \/ ReaderBack(t))
                  \/ ReaderBack(t) \/ WriterBack(t) \/ WriterOut(t)
                  \/ TriesAgain(t)
         /\ \/ UNCHANGED value \/ value = {}
            \/ Waiters \in value' /\ value' \cap Modes # {}
<1>1. pc[t] \in {"cas", "retry"} /\ UNCHANGED <<gate, cmtx, counter>>
  BY DEF Cas, Retry
<1>2. CASE UNCHANGED value /\ Head(t, value)
  BY <1>1, <1>2, HeadStep DEF TypeOK
<1>3. ASSUME Granted(t),
             \/ /\ pc[t] = "cas" /\ value = {}
                /\ value' = {IF Reading(t) THEN ReadLock ELSE WriteLock}
             \/ /\ pc[t] = "retry" /\ value = expected[t]
                /\ value' = {Waiters,
                             IF Reading(t) THEN ReadLock ELSE WriteLock}
      PROVE  /\ value' \in SUBSET (Modes \cup {Waiters})
             /\ value = {} \/ (Waiters \in value' /\ value' \cap Modes # {})
             /\ WriteLock \notin value
             /\ Reading(t) => WriteLock \notin value' /\ ReadLock \in value'
             /\ ~Reading(t) => /\ ReadLock \notin value
                               /\ WriteLock \in value'
                               /\ ReadLock \notin value'
  BY <1>3 DEF FetchedWait, Modes, ReadLock, WriteLock, Waiters
<1>4. CASE ~(UNCHANGED value /\ Head(t, value))
  <2>1. /\ Granted(t)
        /\ \/ /\ pc[t] = "cas" /\ value = {}
              /\ value' = {IF Reading(t) THEN ReadLock ELSE WriteLock}
           \/ /\ pc[t] = "retry" /\ value = expected[t]
              /\ value' = {Waiters, IF Reading(t) THEN ReadLock ELSE WriteLock}
    BY <1>4 DEF Cas, Retry
  <2>2. CASE Reading(t)
    BY <1>1, <1>3, <2>1, <2>2, GrantedStep DEF WriterIn
  <2>3. CASE ~Reading(t)
    BY <1>1, <1>3, <2>1, <2>3, GrantedStep DEF ReaderIn, ReaderBack
  <2> QED
    BY <2>2, <2>3
<1> QED
  BY <1>2, <1>4

(* wake_all moves the caller and every sleeper, nobody else.               *)
LEMMA WakeStep ==
  ASSUME TypeOK, NEW t \in Threads, Wake(t)
  PROVE  /\ pc' \in [Threads -> Locations] /\ call' \in [Threads -> Calls]
         /\ expected' \in [Threads -> SUBSET (Modes \cup {Waiters})]
         /\ timeout' \in [Threads -> Timeouts]
         /\ pc[t] = "wake" /\ pc'[t] = "idle" /\ call'[t] = "none"
         /\ \A u \in Threads \ {t} :
              /\ call'[u] = call[u] /\ expected'[u] = expected[u]
              /\ \/ pc[u] # "asleep" /\ pc'[u] = pc[u]
                 \/ pc[u] = "asleep" /\ pc'[u] = "woken"
         /\ UNCHANGED <<value, gate, cmtx, counter, rd, wr, leaked, abandoned>>
<1> DEFINE p == [pc EXCEPT ![t] = "idle"]
<1>1. /\ pc \in [Threads -> Locations] /\ pc[t] = "wake"
      /\ "none" \in Calls /\ "infinite" \in Timeouts
      /\ {} \in SUBSET (Modes \cup {Waiters})
  BY DEF TypeOK, Wake, Calls, Timeouts
<1>2. /\ p \in [Threads -> Locations] /\ p[t] = "idle"
      /\ \A u \in Threads \ {t} : p[u] = pc[u]
  BY <1>1 DEF Locations
<1>3. pc' = sprt_qlock_wake_all(p)
  BY DEF Wake
<1> HIDE DEF p
<1>4. /\ pc' \in [Threads -> Locations] /\ pc'[t] = "idle"
      /\ \A u \in Threads \ {t} :
           \/ pc[u] # "asleep" /\ pc'[u] = pc[u]
           \/ pc[u] = "asleep" /\ pc'[u] = "woken"
  BY <1>1, <1>2, <1>3 DEF sprt_qlock_wake_all, Locations
<1> QED
  BY <1>1, <1>4 DEF Wake, TypeOK, books

-----------------------------------------------------------------------------
(* The other actions, by what they do to the thread and to the words.      *)
LEMMA UnlockStep ==
  ASSUME TypeOK, NEW t \in Threads, Unlock(t)
  PROVE  /\ Moves(t) /\ pc[t] = "idle" /\ call'[t] = "unlock"
         /\ expected'[t] = value
         /\ pc'[t] = IF ReadLock \in value THEN "dec" ELSE "exchange"
         /\ rd[t] > 0 \/ t \in wr
         /\ rd' = [rd EXCEPT ![t] = 0] /\ wr' = wr \ {t}
         /\ leaked' = leaked + (IF rd[t] > 1 THEN rd[t] - 1 ELSE 0)
         /\ UNCHANGED <<value, gate, cmtx, counter, abandoned>>
<1>1. "dec" \in Locations /\ "exchange" \in Locations /\ "unlock" \in Calls
  BY DEF Locations, Calls
<1> QED
  BY <1>1 DEF Unlock, TypeOK, Moves

(* A thread passes the gatekeeper only when nobody has it locked.          *)
LEMMA GateStep ==
  ASSUME TypeOK, NEW t \in Threads, Gate(t) \/ GateWait(t) \/ GateGiveUp(t)
  PROVE  /\ Moves(t) /\ pc[t] \in {"gate", "gate_wait"}
         /\ \/ /\ ~gate /\ gate'
               /\ pc'[t] = "gated" /\ call'[t] = call[t]
            \/ UNCHANGED gate /\ pc'[t] = "idle" /\ call'[t] = "none"
            \/ UNCHANGED gate /\ pc'[t] = "gate_wait" /\ call'[t] = call[t]
         /\ gate' \in BOOLEAN
         /\ UNCHANGED <<value, cmtx, counter, rd, wr, leaked, abandoned>>
<1>1. "gated" \in Locations /\ "gate_wait" \in Locations
  BY DEF Locations
<1>2. CASE Gate(t)
  BY <1>1, <1>2, GotoStep, ReturnStep DEF Gate, books
<1>3. CASE GateWait(t)
  <2>1. Elapsed(timeout[t]) \subseteq Timeouts
    BY DEF Elapsed, Timeouts, TypeOK
  <2>2. PICK left \in Timeouts : timeout' = [timeout EXCEPT ![t] = left]
    BY <1>3, <2>1 DEF GateWait
  <2> QED
    BY <1>1, <1>3, <2>2 DEF GateWait, TypeOK, Moves, books
<1>4. CASE GateGiveUp(t)
  <2>1. UNCHANGED gate /\ gate' \in BOOLEAN
    BY <1>4 DEF GateGiveUp, TypeOK
  <2> QED
    BY <1>4, <2>1, ReturnStep DEF GateGiveUp, books
<1> QED
  BY <1>2, <1>3, <1>4

(* Behind the gate: a writer goes on, a reader unlocks it or gives up.     *)
LEMMA GatedStep ==
  ASSUME TypeOK, NEW t \in Threads, Gated(t)
  PROVE  /\ Moves(t) /\ pc[t] = "gated"
         /\ \/ /\ ~Reading(t) /\ pc'[t] = "cas" /\ call'[t] = call[t]
               /\ UNCHANGED <<gate, abandoned>>
            \/ /\ Reading(t) /\ pc'[t] = "inc" /\ call'[t] = call[t]
               /\ ~gate' /\ UNCHANGED abandoned
            \/ /\ Reading(t) /\ pc'[t] = "idle" /\ call'[t] = "none"
               /\ abandoned' /\ UNCHANGED gate
         /\ gate' \in BOOLEAN /\ abandoned' \in BOOLEAN
         /\ UNCHANGED <<value, cmtx, counter, rd, wr, leaked>>
<1>1. "cas" \in Locations /\ "inc" \in Locations
  BY DEF Locations
<1>2. CASE ~Reading(t) /\ Goto(t, "cas") /\ UNCHANGED <<gate, abandoned>>
  <2>1. gate' \in BOOLEAN /\ abandoned' \in BOOLEAN
    BY <1>2 DEF TypeOK
  <2> QED
    BY <1>1, <1>2, <2>1, GotoStep DEF Gated
<1>3. CASE /\ Reading(t) /\ gate' = FALSE /\ Goto(t, "inc")
           /\ UNCHANGED abandoned
  <2>1. gate' \in BOOLEAN /\ abandoned' \in BOOLEAN /\ ~gate'
    BY <1>3 DEF TypeOK
  <2> QED
    BY <1>1, <1>3, <2>1, GotoStep DEF Gated
<1>4. CASE Reading(t) /\ Return(t) /\ abandoned' = TRUE /\ UNCHANGED gate
  <2>1. gate' \in BOOLEAN /\ abandoned' \in BOOLEAN /\ abandoned'
    BY <1>4 DEF TypeOK
  <2> QED
    BY <1>4, <2>1, ReturnStep DEF Gated
<1> QED
  BY <1>2, <1>3, <1>4 DEF Gated

(* _rd_increment counts a reader while nobody has counter_mutex.           *)
LEMMA IncrementStep ==
  ASSUME TypeOK, NEW t \in Threads, RdIncrement(t)
  PROVE  /\ Moves(t) /\ pc[t] = "inc" /\ pc'[t] = "cas" /\ call'[t] = call[t]
         /\ cmtx = Nobody /\ counter' = counter + 1
         /\ UNCHANGED <<value, gate, cmtx, rd, wr, leaked, abandoned>>
<1>1. "cas" \in Locations
  BY DEF Locations
<1> QED
  BY <1>1, GotoStep DEF RdIncrement, books

(* A thread waits for a value with a lock bit, and retries without.        *)
LEMMA AnnounceStep ==
  ASSUME TypeOK, NEW t \in Threads, Announce(t)
  PROVE  /\ Moves(t) /\ pc[t] = "announce" /\ call'[t] = call[t]
         /\ value' = value \cup {Waiters} /\ expected'[t] = value'
         /\ value' \in SUBSET (Modes \cup {Waiters})
         /\ \/ pc'[t] = "wait" /\ value \cap Modes # {}
            \/ /\ pc'[t] = "retry" /\ WriteLock \notin value
               /\ ~Reading(t) => ReadLock \notin value
         /\ UNCHANGED <<gate, cmtx, counter, rd, wr, leaked, abandoned>>
<1>1. /\ "wait" \in Locations /\ "retry" \in Locations
      /\ value' \in SUBSET (Modes \cup {Waiters})
      /\ value' = value \cup {Waiters}
  BY DEF Locations, Announce, TypeOK
<1>2. CASE Blocked(t, value)
  <2>1. Fetch(t, value', "wait") /\ value \cap Modes # {}
    BY <1>2 DEF Announce, Blocked, Modes
  <2> QED
    BY <1>1, <2>1, FetchStep DEF Announce, books
<1>3. CASE ~Blocked(t, value)
  <2>1. /\ Fetch(t, value', "retry") /\ WriteLock \notin value
        /\ ~Reading(t) => ReadLock \notin value
    BY <1>3 DEF Announce, Blocked, Modes
  <2> QED
    BY <1>1, <2>1, FetchStep DEF Announce, books
<1> QED
  BY <1>2, <1>3

(* A thread sleeps on the value it fetched.                                *)
LEMMA WaitStep ==
  ASSUME TypeOK, NEW t \in Threads, Wait(t)
  PROVE  /\ Moves(t) /\ pc[t] = "wait" /\ call'[t] = call[t]
         /\ expected'[t] = expected[t]
         /\ \/ pc'[t] = "asleep" /\ value = expected[t]
            \/ pc'[t] = "woken"
         /\ UNCHANGED <<value, gate, cmtx, counter, rd, wr, leaked, abandoned>>
<1>1. "asleep" \in Locations /\ "woken" \in Locations
  BY DEF Locations
<1> QED
  BY <1>1 DEF Wait, sprt_qlock_wait, TypeOK, Moves, books

(* A wait that fails is a call that fails.                                 *)
LEMMA GiveUpStep ==
  ASSUME TypeOK, NEW t \in Threads, GiveUp(t)
  PROVE  /\ Moves(t) /\ pc[t] = "asleep"
         /\ ReaderBack(t) \/ WriterBack(t) \/ WriterOut(t)
         /\ UNCHANGED <<value, gate, cmtx, counter>>
BY FailedStep DEF GiveUp

(* After a wait the lock is assumed free.                                  *)
LEMMA ElapseStep ==
  ASSUME TypeOK, NEW t \in Threads, Elapse(t)
  PROVE  /\ Moves(t) /\ pc[t] = "woken" /\ pc'[t] = "retry"
         /\ call'[t] = call[t] /\ expected'[t] = {}
         /\ UNCHANGED <<value, gate, cmtx, counter, rd, wr, leaked, abandoned>>
<1>1. "retry" \in Locations /\ {} \in SUBSET (Modes \cup {Waiters})
  BY DEF Locations
<1>2. Elapsed(timeout[t]) \subseteq Timeouts
  BY DEF Elapsed, Timeouts, TypeOK
<1>3. PICK left \in Timeouts : timeout' = [timeout EXCEPT ![t] = left]
  BY <1>2 DEF Elapse
<1> QED
  BY <1>1, <1>3 DEF Elapse, TypeOK, Moves, books

(* trywrlock unlocks the gatekeeper.                                       *)
LEMMA UngateStep ==
  ASSUME TypeOK, NEW t \in Threads, Ungate(t)
  PROVE  /\ Moves(t) /\ pc[t] = "ungate" /\ pc'[t] = "idle"
         /\ call'[t] = "none" /\ ~gate' /\ gate' \in BOOLEAN
         /\ UNCHANGED <<value, cmtx, counter, rd, wr, leaked, abandoned>>
BY ReturnStep DEF Ungate, books

(* _rd_decrement_unlock takes counter_mutex and knows the value.           *)
LEMMA DecrementStep ==
  ASSUME TypeOK, NEW t \in Threads, Decrement(t)
  PROVE  /\ Moves(t) /\ pc[t] = "dec" /\ pc'[t] = "sub" /\ call'[t] = call[t]
         /\ expected'[t] = IF expected[t] = {} THEN value ELSE expected[t]
         /\ cmtx = Nobody /\ cmtx' = t
         /\ UNCHANGED <<value, gate, counter, rd, wr, leaked, abandoned>>
<1> DEFINE w == IF expected[t] = {} THEN value ELSE expected[t]
<1>1. "sub" \in Locations /\ w \in SUBSET (Modes \cup {Waiters})
  BY DEF Locations, TypeOK
<1>2. Fetch(t, w, "sub")
  BY DEF Decrement
<1>3. Moves(t) /\ pc'[t] = "sub" /\ call'[t] = call[t] /\ expected'[t] = w
  <2> HIDE DEF w
  <2> QED
    BY <1>1, <1>2, FetchStep
<1> QED
  BY <1>3 DEF Decrement, books

(* The last reader keeps counter_mutex to clear the value.                 *)
LEMMA SubtractStep ==
  ASSUME TypeOK, NEW t \in Threads, Subtract(t)
  PROVE  /\ Moves(t) /\ pc[t] = "sub" /\ counter' = counter - 1
         /\ \/ /\ ReadLock \in expected[t] /\ counter = 1
               /\ pc'[t] = "clear" /\ call'[t] = call[t] /\ UNCHANGED cmtx
            \/ /\ ~(ReadLock \in expected[t] /\ counter = 1)
               /\ pc'[t] = "idle" /\ call'[t] = "none" /\ cmtx' = Nobody
         /\ UNCHANGED <<value, gate, rd, wr, leaked, abandoned>>
<1>1. "clear" \in Locations
  BY DEF Locations
<1> QED
  BY <1>1, GotoStep, ReturnStep DEF Subtract, books

(* The value is cleared and counter_mutex unlocked.                        *)
LEMMA ClearStep ==
  ASSUME TypeOK, NEW t \in Threads, Clear(t)
  PROVE  /\ Moves(t) /\ pc[t] = "clear" /\ value' = {} /\ cmtx' = Nobody
         /\ \/ Waiters \in value /\ pc'[t] = "wake" /\ call'[t] = call[t]
            \/ Waiters \notin value /\ pc'[t] = "idle" /\ call'[t] = "none"
         /\ UNCHANGED <<gate, counter, rd, wr, leaked, abandoned>>
<1>1. "wake" \in Locations
  BY DEF Locations
<1> QED
  BY <1>1, GotoStep, ReturnStep DEF Clear, books

(* _unlock_fair takes the value and leaves 0.                              *)
LEMMA ExchangeStep ==
  ASSUME TypeOK, NEW t \in Threads, Exchange(t)
  PROVE  /\ Moves(t) /\ pc[t] = "exchange" /\ pc'[t] = "unlock_gate"
         /\ call'[t] = call[t] /\ expected'[t] = value /\ value' = {}
         /\ UNCHANGED <<gate, cmtx, counter, rd, wr, leaked, abandoned>>
<1>1. "unlock_gate" \in Locations /\ value \in SUBSET (Modes \cup {Waiters})
  BY DEF Locations, TypeOK
<1> QED
  BY <1>1, FetchStep DEF Exchange, books

(* _unlock_fair unlocks the gatekeeper of a write lock.                    *)
LEMMA UnlockGateStep ==
  ASSUME TypeOK, NEW t \in Threads, UnlockGate(t)
  PROVE  /\ Moves(t) /\ pc[t] = "unlock_gate"
         /\ gate' \in BOOLEAN
         /\ gate' <=> gate /\ WriteLock \notin expected[t]
         /\ \/ Waiters \in expected[t] /\ pc'[t] = "wake" /\ call'[t] = call[t]
            \/ /\ Waiters \notin expected[t]
               /\ pc'[t] = "idle" /\ call'[t] = "none"
         /\ UNCHANGED <<value, cmtx, counter, rd, wr, leaked, abandoned>>
<1>1. "wake" \in Locations
  BY DEF Locations
<1> QED
  BY <1>1, GotoStep, ReturnStep DEF UnlockGate, books

-----------------------------------------------------------------------------
(* The read locks held and the threads counted are finitely many.          *)
LEMMA CountsFinite ==
  ASSUME TypeOK
  PROVE  /\ IsFiniteSet(ReadLocks) /\ Cardinality(ReadLocks) \in Nat
         /\ IsFiniteSet(Counted) /\ Cardinality(Counted) \in Nat
<1>1. IsFiniteSet(1..MaxDepth)
  BY DepthAssumption, FS_Interval
<1>2. IsFiniteSet(Threads \X (1..MaxDepth))
  BY <1>1, ThreadsAssumption, FS_Product
<1>3. IsFiniteSet(ReadLocks)
  BY <1>2, FS_Subset DEF ReadLocks
<1>4. IsFiniteSet(Counted)
  BY ThreadsAssumption, FS_Subset DEF Counted
<1> QED
  BY <1>3, <1>4, FS_CardinalityType

(* A thread counted, or with a read lock, is in the counter.               *)
LEMMA CounterCovers ==
  ASSUME TypeOK, CounterExact
  PROVE  /\ \A t \in Counted : counter > 0
         /\ \A t, u \in Counted : t # u => counter > 1
         /\ \A t \in Threads : rd[t] > 0 => counter > 0
<1>1. ASSUME NEW t \in Counted PROVE counter > 0
  <2>1. Cardinality(Counted) # 0
    BY CountsFinite, FS_EmptySet
  <2> QED
    BY <2>1, CountsFinite DEF CounterExact, TypeOK
<1>2. ASSUME NEW t \in Counted, NEW u \in Counted, t # u PROVE counter > 1
  <2>1. Cardinality(Counted \ {t}) = Cardinality(Counted) - 1
    BY CountsFinite, FS_RemoveElement
  <2>2. IsFiniteSet(Counted \ {t}) /\ u \in Counted \ {t}
    BY <1>2, CountsFinite, FS_RemoveElement
  <2>3. Cardinality(Counted \ {t}) # 0
    BY <2>2, FS_EmptySet
  <2>4. Cardinality(Counted \ {t}) \in Nat
    BY <2>2, FS_CardinalityType
  <2> QED
    BY <2>1, <2>3, <2>4, CountsFinite DEF CounterExact, TypeOK
<1>3. ASSUME NEW t \in Threads, rd[t] > 0 PROVE counter > 0
  <2>1. <<t, 1>> \in ReadLocks
    BY <1>3, DepthAssumption DEF ReadLocks, TypeOK
  <2>2. Cardinality(ReadLocks) # 0
    BY <2>1, CountsFinite, FS_EmptySet
  <2> QED
    BY <2>2, CountsFinite DEF CounterExact, TypeOK
<1> QED
  BY <1>1, <1>2, <1>3

(* One read lock more.                                                     *)
LEMMA ReadLockAdded ==
  ASSUME TypeOK, NEW t \in Threads, rd[t] < MaxDepth,
         rd' = [rd EXCEPT ![t] = @ + 1]
  PROVE  Cardinality(ReadLocks') = Cardinality(ReadLocks) + 1
<1>1. <<t, rd[t] + 1>> \notin ReadLocks
  BY DEF ReadLocks, TypeOK
<1>2. ReadLocks' = ReadLocks \cup {<<t, rd[t] + 1>>}
  <2>1. rd[t] \in 0..MaxDepth /\ rd \in [Threads -> 0..MaxDepth]
    BY DEF TypeOK
  <2>2. ASSUME NEW u \in Threads, NEW n \in 1..MaxDepth
        PROVE  n <= rd'[u] <=> n <= rd[u] \/ (u = t /\ n = rd[t] + 1)
    BY <2>1, DepthAssumption
  <2>3. <<t, rd[t] + 1>> \in Threads \X (1..MaxDepth)
    BY <2>1, DepthAssumption
  <2>4. ASSUME NEW l \in Threads \X (1..MaxDepth)
        PROVE  l[2] <= rd'[l[1]]
                 <=> l[2] <= rd[l[1]] \/ l = <<t, rd[t] + 1>>
    BY <2>2
  <2> QED
    BY <2>3, <2>4 DEF ReadLocks
<1> QED
  BY <1>1, <1>2, CountsFinite, FS_AddElement

(* The read locks of one thread less.                                      *)
LEMMA ReadLocksDropped ==
  ASSUME TypeOK, NEW t \in Threads, rd' = [rd EXCEPT ![t] = 0]
  PROVE  Cardinality(ReadLocks') = Cardinality(ReadLocks) - rd[t]
<1> DEFINE Own == {t} \X (1..rd[t])
<1>1. rd[t] \in 0..MaxDepth /\ rd \in [Threads -> 0..MaxDepth]
  BY DEF TypeOK
<1>2. IsFiniteSet(Own) /\ Cardinality(Own) = rd[t]
  <2>1. IsFiniteSet(1..rd[t]) /\ Cardinality(1..rd[t]) = rd[t]
    BY <1>1, DepthAssumption, FS_Interval
  <2>2. IsFiniteSet({t}) /\ Cardinality({t}) = 1
    BY FS_Singleton
  <2>3. /\ IsFiniteSet(Own)
        /\ Cardinality(Own) = Cardinality({t}) * Cardinality(1..rd[t])
    BY <2>1, <2>2, FS_Product
  <2> QED
    BY <2>1, <2>2, <2>3, <1>1
<1>3. ReadLocks' = ReadLocks \ Own
  <2>1. ASSUME NEW l \in Threads \X (1..MaxDepth)
        PROVE  l[2] <= rd'[l[1]] <=> l[2] <= rd[l[1]] /\ l \notin Own
    BY <1>1, DepthAssumption
  <2> QED
    BY <2>1 DEF ReadLocks
<1>4. ReadLocks \cap Own = Own
  <2>1. ASSUME NEW l \in Own PROVE l \in ReadLocks
    <3>1. l \in Threads \X (1..MaxDepth) /\ l[1] = t /\ l[2] <= rd[t]
      BY <1>1, DepthAssumption
    <3> QED
      BY <3>1 DEF ReadLocks
  <2> QED
    BY <2>1
<1> HIDE DEF Own
<1>5. Cardinality(ReadLocks \ Own)
        = Cardinality(ReadLocks) - Cardinality(ReadLocks \cap Own)
  BY CountsFinite, FS_Difference
<1> QED
  BY <1>2, <1>3, <1>4, <1>5

(* One thread counted more, or less.                                       *)
LEMMA CountedChanges ==
  ASSUME TypeOK, NEW t \in Threads
  PROVE  /\ Counted' = Counted => Cardinality(Counted') = Cardinality(Counted)
         /\ t \notin Counted /\ Counted' = Counted \cup {t}
              => Cardinality(Counted') = Cardinality(Counted) + 1
         /\ t \in Counted /\ Counted' = Counted \ {t}
              => Cardinality(Counted') = Cardinality(Counted) - 1
<1>1. IsFiniteSet(Counted)
  BY CountsFinite
<1> HIDE DEF Counted
<1>2. t \notin Counted
        => Cardinality(Counted \cup {t}) = Cardinality(Counted) + 1
  BY <1>1, FS_AddElement
<1>3. t \in Counted => Cardinality(Counted \ {t}) = Cardinality(Counted) - 1
  BY <1>1, FS_RemoveElement
<1> QED
  BY <1>2, <1>3

-----------------------------------------------------------------------------
(* A step keeps the types: the counter and the entries stay in range.      *)
LEMMA TypeInductive ==
  ASSUME IInv, [Next]_vars
  PROVE  TypeOK'
<1> USE ThreadsAssumption, DepthAssumption
    DEF IInv, TypeOK, CallPlace
<1>1. CASE UNCHANGED vars
  BY <1>1 DEF vars, locals, books
<1>2. ASSUME NEW t \in Threads, Begins(t) PROVE TypeOK'
  BY <1>2, BeginStep DEF Moves
<1>3. ASSUME NEW t \in Threads, Unlock(t) PROVE TypeOK'
  BY <1>3, UnlockStep DEF Moves
<1>4. ASSUME NEW t \in Threads, Gate(t) \/ GateWait(t) \/ GateGiveUp(t)
      PROVE  TypeOK'
  BY <1>4, GateStep DEF Moves
<1>5. ASSUME NEW t \in Threads, Gated(t) PROVE TypeOK'
  BY <1>5, GatedStep DEF Moves
<1>6. ASSUME NEW t \in Threads, RdIncrement(t) PROVE TypeOK'
  BY <1>6, IncrementStep DEF Moves
<1>7. ASSUME NEW t \in Threads, Cas(t) \/ Retry(t) PROVE TypeOK'
  <2>1. /\ Moves(t) /\ UNCHANGED <<gate, cmtx, counter>>
        /\ value' \in SUBSET (Modes \cup {Waiters})
    BY <1>7, AttemptStep
  <2>2. CASE ReaderIn(t)
    BY <2>1, <2>2 DEF Moves, ReaderIn
  <2>3. CASE ~ReaderIn(t)
    <3>1. /\ rd' = rd /\ leaked' = leaked /\ (wr' = wr \/ wr' = wr \cup {t})
          /\ abandoned' \in BOOLEAN
      BY <1>7, <2>3, AttemptStep
         DEF ReaderBack, WriterIn, WriterBack, WriterOut, TriesAgain
    <3> QED
      BY <2>1, <3>1 DEF Moves
  <2> QED
    BY <2>2, <2>3
<1>8. ASSUME NEW t \in Threads, Announce(t) PROVE TypeOK'
  BY <1>8, AnnounceStep DEF Moves
<1>9. ASSUME NEW t \in Threads, Wait(t) PROVE TypeOK'
  BY <1>9, WaitStep DEF Moves
<1>10. ASSUME NEW t \in Threads, GiveUp(t) PROVE TypeOK'
  BY <1>10, GiveUpStep DEF Moves, ReaderBack, WriterBack, WriterOut
<1>11. ASSUME NEW t \in Threads, Elapse(t) PROVE TypeOK'
  BY <1>11, ElapseStep DEF Moves
<1>12. ASSUME NEW t \in Threads, Ungate(t) PROVE TypeOK'
  BY <1>12, UngateStep DEF Moves
<1>13. ASSUME NEW t \in Threads, Decrement(t) PROVE TypeOK'
  BY <1>13, DecrementStep DEF Moves
<1>14. ASSUME NEW t \in Threads, Subtract(t) PROVE TypeOK'
  <2>1. t \in Counted
    BY <1>14, SubtractStep DEF Counted
  <2>2. counter > 0
    BY <2>1, CounterCovers
  <2> QED
    BY <1>14, <2>2, SubtractStep DEF Moves
<1>15. ASSUME NEW t \in Threads, Clear(t) PROVE TypeOK'
  BY <1>15, ClearStep DEF Moves
<1>16. ASSUME NEW t \in Threads, Exchange(t) PROVE TypeOK'
  BY <1>16, ExchangeStep DEF Moves
<1>17. ASSUME NEW t \in Threads, UnlockGate(t) PROVE TypeOK'
  BY <1>17, UnlockGateStep DEF Moves
<1>18. ASSUME NEW t \in Threads, Wake(t) PROVE TypeOK'
  BY <1>18, WakeStep
<1> QED
  BY <1>1, <1>2, <1>3, <1>4, <1>5, <1>6, <1>7, <1>8, <1>9, <1>10, <1>11,
     <1>12, <1>13, <1>14, <1>15, <1>16, <1>17, <1>18 DEF Next, Proceed, Begins

(* A step leaves every call where it may be and counter_mutex with its     *)
(* holder.                                                                 *)
LEMMA PlaceInductive ==
  ASSUME IInv, [Next]_vars
  PROVE  CallPlace' /\ CounterMutexHeld'
<1>0. /\ wr \in SUBSET Threads /\ rd \in [Threads -> 0..MaxDepth]
      /\ counter \in Nat /\ TypeOK /\ gate \in BOOLEAN /\ abandoned \in BOOLEAN
  BY DEF IInv, TypeOK
<1> USE <1>0, ThreadsAssumption, DepthAssumption
    DEF IInv, CallPlace, CounterMutexHeld, BitsOwned, Reading
<1>1. CASE UNCHANGED vars
  BY <1>1 DEF vars, locals, books
<1>2. ASSUME NEW t \in Threads, Begins(t)
      PROVE  CallPlace' /\ CounterMutexHeld'
  BY <1>2, BeginStep DEF Moves
<1>3. ASSUME NEW t \in Threads, Unlock(t)
      PROVE  CallPlace' /\ CounterMutexHeld'
  BY <1>3, UnlockStep DEF Moves
<1>4. ASSUME NEW t \in Threads, Gate(t) \/ GateWait(t) \/ GateGiveUp(t)
      PROVE  CallPlace' /\ CounterMutexHeld'
  BY <1>4, GateStep DEF Moves
<1>5. ASSUME NEW t \in Threads, Gated(t) PROVE CallPlace' /\ CounterMutexHeld'
  BY <1>5, GatedStep DEF Moves
<1>6. ASSUME NEW t \in Threads, RdIncrement(t)
      PROVE  CallPlace' /\ CounterMutexHeld'
  BY <1>6, IncrementStep DEF Moves
<1>7. ASSUME NEW t \in Threads, Cas(t) \/ Retry(t)
      PROVE  CallPlace' /\ CounterMutexHeld'
  BY <1>7, AttemptStep DEF Moves, ReaderIn, ReaderBack, WriterIn, WriterBack,
     WriterOut, TriesAgain
<1>8. ASSUME NEW t \in Threads, Announce(t)
      PROVE  CallPlace' /\ CounterMutexHeld'
  BY <1>8, AnnounceStep DEF Moves
<1>9. ASSUME NEW t \in Threads, Wait(t) PROVE CallPlace' /\ CounterMutexHeld'
  BY <1>9, WaitStep DEF Moves
<1>10. ASSUME NEW t \in Threads, GiveUp(t)
      PROVE  CallPlace' /\ CounterMutexHeld'
  BY <1>10, GiveUpStep DEF Moves, ReaderBack, WriterBack, WriterOut
<1>11. ASSUME NEW t \in Threads, Elapse(t)
      PROVE  CallPlace' /\ CounterMutexHeld'
  BY <1>11, ElapseStep DEF Moves
<1>12. ASSUME NEW t \in Threads, Ungate(t)
      PROVE  CallPlace' /\ CounterMutexHeld'
  BY <1>12, UngateStep DEF Moves
<1>13. ASSUME NEW t \in Threads, Decrement(t)
      PROVE  CallPlace' /\ CounterMutexHeld'
  BY <1>13, DecrementStep DEF Moves
<1>14. ASSUME NEW t \in Threads, Subtract(t)
      PROVE  CallPlace' /\ CounterMutexHeld'
  BY <1>14, SubtractStep DEF Moves
<1>15. ASSUME NEW t \in Threads, Clear(t)
      PROVE  CallPlace' /\ CounterMutexHeld'
  BY <1>15, ClearStep DEF Moves
<1>16. ASSUME NEW t \in Threads, Exchange(t)
      PROVE  CallPlace' /\ CounterMutexHeld'
  BY <1>16, ExchangeStep DEF Moves
<1>17. ASSUME NEW t \in Threads, UnlockGate(t)
      PROVE  CallPlace' /\ CounterMutexHeld'
  BY <1>17, UnlockGateStep DEF Moves
<1>18. ASSUME NEW t \in Threads, Wake(t) PROVE CallPlace' /\ CounterMutexHeld'
  BY <1>18, WakeStep
<1> QED
  BY <1>1, <1>2, <1>3, <1>4, <1>5, <1>6, <1>7, <1>8, <1>9, <1>10, <1>11,
     <1>12, <1>13, <1>14, <1>15, <1>16, <1>17, <1>18 DEF Next, Proceed, Begins

(* A step keeps at most one thread behind the gatekeeper.                  *)
LEMMA GateInductive ==
  ASSUME IInv, [Next]_vars
  PROVE  GateHeld'
<1>0. /\ wr \in SUBSET Threads /\ rd \in [Threads -> 0..MaxDepth]
      /\ counter \in Nat /\ TypeOK /\ gate \in BOOLEAN /\ abandoned \in BOOLEAN
  BY DEF IInv, TypeOK
<1> USE <1>0, ThreadsAssumption, DepthAssumption
    DEF IInv, CallPlace, GateHeld, Behind, Reading
<1>1. CASE UNCHANGED vars
  BY <1>1 DEF vars, locals, books
<1>2. ASSUME NEW t \in Threads, Begins(t) PROVE GateHeld'
  BY <1>2, BeginStep DEF Moves
<1>3. ASSUME NEW t \in Threads, Unlock(t) PROVE GateHeld'
  BY <1>3, UnlockStep DEF Moves, BitsOwned
<1>4. ASSUME NEW t \in Threads, Gate(t) \/ GateWait(t) \/ GateGiveUp(t)
      PROVE  GateHeld'
  BY <1>4, GateStep DEF Moves
<1>5. ASSUME NEW t \in Threads, Gated(t) PROVE GateHeld'
  <2>1. /\ Behind(t) /\ ~abandoned /\ gate
        /\ \A u \in Threads : Behind(u) => u = t
    BY <1>5, GatedStep
  <2>m. /\ \A u \in Threads \ {t} : pc'[u] = pc[u] /\ call'[u] = call[u]
        /\ UNCHANGED wr
    BY <1>5, GatedStep DEF Moves
  <2>2. \A u \in Threads \ {t} : ~Behind(u)'
    BY <2>1, <2>m
  <2>3. CASE ~Reading(t)
    <3>1. Behind(t)'
      BY <1>5, <2>3, GatedStep DEF TypeOK, Calls
    <3>2. gate' /\ ~abandoned'
      BY <1>5, <2>1, <2>3, GatedStep
    <3> QED
      BY <2>2, <3>1, <3>2
  <2>4. CASE Reading(t)
    <3>1. ~Behind(t)'
      BY <1>5, <2>4, GatedStep
    <3>2. gate' <=> abandoned'
      BY <1>5, <2>1, <2>4, GatedStep
    <3> QED
      BY <2>2, <3>1, <3>2
  <2> QED
    BY <2>3, <2>4
<1>6. ASSUME NEW t \in Threads, RdIncrement(t) PROVE GateHeld'
  BY <1>6, IncrementStep DEF Moves
<1>7. ASSUME NEW t \in Threads, Cas(t) \/ Retry(t) PROVE GateHeld'
  <2>1. Moves(t) /\ pc[t] \in {"cas", "retry"} /\ UNCHANGED gate
    BY <1>7, AttemptStep
  <2>2. CASE ReaderIn(t) \/ ReaderBack(t)
    BY <2>1, <2>2 DEF Moves, ReaderIn, ReaderBack
  <2>3. CASE WriterIn(t)
    <3>1. call[t] \in {"wr", "trywr"}
      BY <2>1, <2>3 DEF WriterIn, TypeOK, Calls
    <3> QED
      BY <2>1, <2>3, <3>1 DEF Moves, WriterIn
  <2>4. CASE WriterBack(t) \/ WriterOut(t)
    BY <2>1, <2>4 DEF Moves, WriterBack, WriterOut
  <2>5. CASE TriesAgain(t)
    BY <2>1, <2>5 DEF Moves, TriesAgain
  <2> QED
    BY <1>7, <2>2, <2>3, <2>4, <2>5, AttemptStep
<1>8. ASSUME NEW t \in Threads, Announce(t) PROVE GateHeld'
  BY <1>8, AnnounceStep DEF Moves
<1>9. ASSUME NEW t \in Threads, Wait(t) PROVE GateHeld'
  BY <1>9, WaitStep DEF Moves
<1>10. ASSUME NEW t \in Threads, GiveUp(t) PROVE GateHeld'
  BY <1>10, GiveUpStep DEF Moves, ReaderBack, WriterBack, WriterOut
<1>11. ASSUME NEW t \in Threads, Elapse(t) PROVE GateHeld'
  BY <1>11, ElapseStep DEF Moves
<1>12. ASSUME NEW t \in Threads, Ungate(t) PROVE GateHeld'
  BY <1>12, UngateStep DEF Moves
<1>13. ASSUME NEW t \in Threads, Decrement(t) PROVE GateHeld'
  BY <1>13, DecrementStep DEF Moves
<1>14. ASSUME NEW t \in Threads, Subtract(t) PROVE GateHeld'
  BY <1>14, SubtractStep DEF Moves
<1>15. ASSUME NEW t \in Threads, Clear(t) PROVE GateHeld'
  BY <1>15, ClearStep DEF Moves
<1>16. ASSUME NEW t \in Threads, Exchange(t) PROVE GateHeld'
  BY <1>16, ExchangeStep DEF Moves
<1>17. ASSUME NEW t \in Threads, UnlockGate(t) PROVE GateHeld'
  BY <1>17, UnlockGateStep DEF Moves, FetchedWait
<1>18. ASSUME NEW t \in Threads, Wake(t) PROVE GateHeld'
  BY <1>18, WakeStep
<1> QED
  BY <1>1, <1>2, <1>3, <1>4, <1>5, <1>6, <1>7, <1>8, <1>9, <1>10, <1>11,
     <1>12, <1>13, <1>14, <1>15, <1>16, <1>17, <1>18 DEF Next, Proceed, Begins

(* A step keeps the counter exact.                                         *)
LEMMA CountInductive ==
  ASSUME IInv, [Next]_vars
  PROVE  CounterExact'
<1>0. /\ wr \in SUBSET Threads /\ rd \in [Threads -> 0..MaxDepth]
      /\ counter \in Nat /\ TypeOK /\ gate \in BOOLEAN /\ abandoned \in BOOLEAN
  BY DEF IInv, TypeOK
<1> USE <1>0, ThreadsAssumption, DepthAssumption
    DEF IInv, CallPlace, CounterExact, Reading
<1>1. CASE UNCHANGED vars
  BY <1>1 DEF vars, locals, books, ReadLocks, Counted
<1>2. ASSUME NEW t \in Threads, Begins(t) PROVE CounterExact'
  <2>1. Counted' = Counted /\ ReadLocks' = ReadLocks
    BY <1>2, BeginStep DEF Counted, ReadLocks, Moves
  <2> QED
    BY <1>2, <2>1, BeginStep
<1>3. ASSUME NEW t \in Threads, Unlock(t) PROVE CounterExact'
  <2>1. CASE rd[t] > 0
    <3>1. t \notin Counted /\ Counted' = Counted \cup {t}
      BY <1>3, <2>1, UnlockStep DEF Counted, Moves, BitsOwned
    <3>2. Cardinality(Counted') = Cardinality(Counted) + 1
      BY <3>1, CountedChanges
    <3>3. Cardinality(ReadLocks') = Cardinality(ReadLocks) - rd[t]
      BY <1>3, UnlockStep, ReadLocksDropped
    <3>4. leaked' = leaked + rd[t] - 1 /\ counter' = counter
      BY <1>3, <2>1, UnlockStep DEF TypeOK
    <3> QED
      BY <3>2, <3>3, <3>4, CountsFinite DEF TypeOK
  <2>2. CASE ~(rd[t] > 0)
    <3>1. rd' = rd /\ leaked' = leaked /\ counter' = counter
      BY <1>3, <2>2, UnlockStep DEF TypeOK
    <3>2. Counted' = Counted /\ ReadLocks' = ReadLocks
      BY <1>3, <2>2, <3>1, UnlockStep
         DEF Counted, ReadLocks, Moves, BitsOwned
    <3> QED
      BY <3>1, <3>2
  <2> QED
    BY <2>1, <2>2
<1>4. ASSUME NEW t \in Threads, Gate(t) \/ GateWait(t) \/ GateGiveUp(t)
      PROVE  CounterExact'
  <2>1. Counted' = Counted /\ ReadLocks' = ReadLocks
    BY <1>4, GateStep DEF Counted, ReadLocks, Moves
  <2> QED
    BY <1>4, <2>1, GateStep
<1>5. ASSUME NEW t \in Threads, Gated(t) PROVE CounterExact'
  <2>1. Counted' = Counted /\ ReadLocks' = ReadLocks
    BY <1>5, GatedStep DEF Counted, ReadLocks, Moves
  <2> QED
    BY <1>5, <2>1, GatedStep
<1>6. ASSUME NEW t \in Threads, RdIncrement(t) PROVE CounterExact'
  <2>1. /\ t \notin Counted /\ Counted' = Counted \cup {t}
        /\ ReadLocks' = ReadLocks
    BY <1>6, IncrementStep DEF Counted, ReadLocks, Moves
  <2>2. Cardinality(Counted') = Cardinality(Counted) + 1
    BY <2>1, CountedChanges
  <2> QED
    BY <1>6, <2>1, <2>2, IncrementStep, CountsFinite DEF TypeOK
<1>7. ASSUME NEW t \in Threads, Cas(t) \/ Retry(t) PROVE CounterExact'
  <2>1. Moves(t) /\ pc[t] \in {"cas", "retry"} /\ counter' = counter
    BY <1>7, AttemptStep
  <2>2. CASE ReaderIn(t)
    <3>1. t \in Counted /\ Counted' = Counted \ {t} /\ leaked' = leaked
      BY <2>1, <2>2 DEF Counted, Moves, ReaderIn
    <3>2. Cardinality(Counted') = Cardinality(Counted) - 1
      BY <3>1, CountedChanges
    <3>3. Cardinality(ReadLocks') = Cardinality(ReadLocks) + 1
      BY <2>2, ReadLockAdded DEF ReaderIn
    <3> QED
      BY <2>1, <3>1, <3>2, <3>3, CountsFinite DEF TypeOK
  <2>3. CASE ~ReaderIn(t)
    <3>1. UNCHANGED <<rd, leaked>>
      BY <1>7, <2>3, AttemptStep
         DEF ReaderBack, WriterIn, WriterBack, WriterOut, TriesAgain
    <3>2. t \in Counted' <=> t \in Counted
      BY <1>7, <2>1, <2>3, AttemptStep
         DEF Counted, ReaderBack, WriterIn, WriterBack, WriterOut, TriesAgain
    <3>3. Counted' = Counted
      BY <2>1, <3>2 DEF Counted, Moves
    <3> QED
      BY <2>1, <3>1, <3>3 DEF ReadLocks
  <2> QED
    BY <2>2, <2>3
<1>8. ASSUME NEW t \in Threads, Announce(t) PROVE CounterExact'
  <2>1. Counted' = Counted /\ ReadLocks' = ReadLocks
    BY <1>8, AnnounceStep DEF Counted, ReadLocks, Moves
  <2> QED
    BY <1>8, <2>1, AnnounceStep
<1>9. ASSUME NEW t \in Threads, Wait(t) PROVE CounterExact'
  <2>1. Counted' = Counted /\ ReadLocks' = ReadLocks
    BY <1>9, WaitStep DEF Counted, ReadLocks, Moves
  <2> QED
    BY <1>9, <2>1, WaitStep
<1>10. ASSUME NEW t \in Threads, GiveUp(t) PROVE CounterExact'
  <2>1. Counted' = Counted /\ UNCHANGED <<rd, leaked>>
    BY <1>10, GiveUpStep DEF Counted, Moves, ReaderBack, WriterBack, WriterOut
  <2> QED
    BY <1>10, <2>1, GiveUpStep DEF ReadLocks
<1>11. ASSUME NEW t \in Threads, Elapse(t) PROVE CounterExact'
  <2>1. Counted' = Counted /\ ReadLocks' = ReadLocks
    BY <1>11, ElapseStep DEF Counted, ReadLocks, Moves
  <2> QED
    BY <1>11, <2>1, ElapseStep
<1>12. ASSUME NEW t \in Threads, Ungate(t) PROVE CounterExact'
  <2>1. Counted' = Counted /\ ReadLocks' = ReadLocks
    BY <1>12, UngateStep DEF Counted, ReadLocks, Moves
  <2> QED
    BY <1>12, <2>1, UngateStep
<1>13. ASSUME NEW t \in Threads, Decrement(t) PROVE CounterExact'
  <2>1. Counted' = Counted /\ ReadLocks' = ReadLocks
    BY <1>13, DecrementStep DEF Counted, ReadLocks, Moves
  <2> QED
    BY <1>13, <2>1, DecrementStep
<1>14. ASSUME NEW t \in Threads, Subtract(t) PROVE CounterExact'
  <2>1. t \in Counted /\ Counted' = Counted \ {t} /\ ReadLocks' = ReadLocks
    BY <1>14, SubtractStep DEF Counted, ReadLocks, Moves
  <2>2. Cardinality(Counted') = Cardinality(Counted) - 1
    BY <2>1, CountedChanges
  <2> QED
    BY <1>14, <2>1, <2>2, SubtractStep, CountsFinite DEF TypeOK
<1>15. ASSUME NEW t \in Threads, Clear(t) PROVE CounterExact'
  <2>1. Counted' = Counted /\ ReadLocks' = ReadLocks
    BY <1>15, ClearStep DEF Counted, ReadLocks, Moves
  <2> QED
    BY <1>15, <2>1, ClearStep
<1>16. ASSUME NEW t \in Threads, Exchange(t) PROVE CounterExact'
  <2>1. Counted' = Counted /\ ReadLocks' = ReadLocks
    BY <1>16, ExchangeStep DEF Counted, ReadLocks, Moves
  <2> QED
    BY <1>16, <2>1, ExchangeStep
<1>17. ASSUME NEW t \in Threads, UnlockGate(t) PROVE CounterExact'
  <2>1. Counted' = Counted /\ ReadLocks' = ReadLocks
    BY <1>17, UnlockGateStep DEF Counted, ReadLocks, Moves
  <2> QED
    BY <1>17, <2>1, UnlockGateStep
<1>18. ASSUME NEW t \in Threads, Wake(t) PROVE CounterExact'
  <2>1. Counted' = Counted /\ ReadLocks' = ReadLocks
    BY <1>18, WakeStep DEF Counted, ReadLocks
  <2> QED
    BY <1>18, <2>1, WakeStep
<1> QED
  BY <1>1, <1>2, <1>3, <1>4, <1>5, <1>6, <1>7, <1>8, <1>9, <1>10, <1>11,
     <1>12, <1>13, <1>14, <1>15, <1>16, <1>17, <1>18 DEF Next, Proceed, Begins

(* A step leaves no bit without its owner and no count without the bit.    *)
LEMMA BitsInductive ==
  ASSUME IInv, [Next]_vars
  PROVE  BitsOwned' /\ FetchedRead' /\ ReadBitOwned'
<1>0. /\ wr \in SUBSET Threads /\ rd \in [Threads -> 0..MaxDepth]
      /\ counter \in Nat /\ TypeOK /\ gate \in BOOLEAN /\ abandoned \in BOOLEAN
  BY DEF IInv, TypeOK
<1>c. /\ \A t \in Threads :
           /\ pc[t] \in {"dec", "sub"} => t \in Counted
           /\ Reading(t) /\ pc[t] \in {"cas", "retry"} => t \in Counted
      /\ \A t \in Counted : counter > 0
      /\ \A t, u \in Counted : t # u => counter > 1
      /\ \A t \in Threads : rd[t] > 0 => counter > 0
  BY CounterCovers DEF IInv, CallPlace, Counted
<1> USE <1>0, <1>c, ThreadsAssumption, DepthAssumption
    DEF IInv, CallPlace, CounterMutexHeld, BitsOwned, FetchedRead,
        ReadBitOwned, Reading, ReadLock, WriteLock, Waiters
<1>1. CASE UNCHANGED vars
  BY <1>1 DEF vars, locals, books
<1>2. ASSUME NEW t \in Threads, Begins(t)
      PROVE  BitsOwned' /\ FetchedRead' /\ ReadBitOwned'
  BY <1>2, BeginStep DEF Moves
<1>3. ASSUME NEW t \in Threads, Unlock(t)
      PROVE  BitsOwned' /\ FetchedRead' /\ ReadBitOwned'
  BY <1>3, UnlockStep DEF Moves
<1>4. ASSUME NEW t \in Threads, Gate(t) \/ GateWait(t) \/ GateGiveUp(t)
      PROVE  BitsOwned' /\ FetchedRead' /\ ReadBitOwned'
  BY <1>4, GateStep DEF Moves
<1>5. ASSUME NEW t \in Threads, Gated(t)
      PROVE  BitsOwned' /\ FetchedRead' /\ ReadBitOwned'
  BY <1>5, GatedStep DEF Moves
<1>6. ASSUME NEW t \in Threads, RdIncrement(t)
      PROVE  BitsOwned' /\ FetchedRead' /\ ReadBitOwned'
  BY <1>6, IncrementStep DEF Moves
<1>7. ASSUME NEW t \in Threads, Cas(t) \/ Retry(t)
      PROVE  BitsOwned' /\ FetchedRead' /\ ReadBitOwned'
  <2>1. /\ Moves(t) /\ pc[t] \in {"cas", "retry"}
        /\ UNCHANGED <<gate, cmtx, counter>>
    BY <1>7, AttemptStep
  <2>2. ASSUME ReaderIn(t) \/ ReaderBack(t),
               \/ UNCHANGED value
               \/ /\ WriteLock \notin value /\ WriteLock \notin value'
                  /\ ReadLock \in value',
               ReaderIn(t) => ReadLock \in value'
        PROVE  BitsOwned' /\ FetchedRead' /\ ReadBitOwned'
    <3>1. /\ UNCHANGED wr /\ pc'[t] \in {"idle", "dec"}
          /\ pc'[t] = "dec" => expected'[t] = {}
          /\ \A u \in Threads \ {t} : rd'[u] = rd[u]
          /\ rd'[t] > 0 => rd[t] > 0 \/ ReaderIn(t)
          /\ Reading(t)
      BY <2>2 DEF ReaderIn, ReaderBack
    <3>2. BitsOwned'
      BY <2>1, <2>2, <3>1 DEF Moves
    <3>3. FetchedRead'
      <4>1. \A u \in Threads \ {t} : pc[u] = "sub" => counter > 1
        BY <2>1, <3>1
      <4>2. ReadLock \in value => ReadLock \in value'
        BY <2>2
      <4> QED
        BY <2>1, <3>1, <4>1, <4>2 DEF Moves
    <3>4. ReadBitOwned'
      BY <2>1, <3>1 DEF Moves
    <3> QED
      BY <3>2, <3>3, <3>4
  <2>3. CASE /\ WriteLock \notin value /\ ReadLock \notin value
             /\ WriteLock \in value' /\ ReadLock \notin value'
             /\ WriterIn(t)
    BY <2>1, <2>3 DEF Moves, WriterIn
  <2>4. CASE /\ UNCHANGED value
             /\ WriterBack(t) \/ WriterOut(t) \/ TriesAgain(t)
    <3>1. UNCHANGED <<rd, wr>>
      BY <2>4 DEF WriterBack, WriterOut, TriesAgain
    <3>2. pc'[t] \in {"ungate", "idle", "retry", "wait", "announce"}
      BY <2>4 DEF WriterBack, WriterOut, TriesAgain
    <3> QED
      BY <2>1, <2>4, <3>1, <3>2 DEF Moves
  <2>5. ReaderBack(t) => ~ReaderIn(t)
    BY DEF ReaderIn, ReaderBack
  <2> QED
    BY <1>7, <2>2, <2>3, <2>4, <2>5, AttemptStep
<1>8. ASSUME NEW t \in Threads, Announce(t)
      PROVE  BitsOwned' /\ FetchedRead' /\ ReadBitOwned'
  BY <1>8, AnnounceStep DEF Moves
<1>9. ASSUME NEW t \in Threads, Wait(t)
      PROVE  BitsOwned' /\ FetchedRead' /\ ReadBitOwned'
  BY <1>9, WaitStep DEF Moves
<1>10. ASSUME NEW t \in Threads, GiveUp(t)
      PROVE  BitsOwned' /\ FetchedRead' /\ ReadBitOwned'
  BY <1>10, GiveUpStep DEF Moves, ReaderBack, WriterBack, WriterOut
<1>11. ASSUME NEW t \in Threads, Elapse(t)
      PROVE  BitsOwned' /\ FetchedRead' /\ ReadBitOwned'
  BY <1>11, ElapseStep DEF Moves
<1>12. ASSUME NEW t \in Threads, Ungate(t)
      PROVE  BitsOwned' /\ FetchedRead' /\ ReadBitOwned'
  BY <1>12, UngateStep DEF Moves
<1>13. ASSUME NEW t \in Threads, Decrement(t)
      PROVE  BitsOwned' /\ FetchedRead' /\ ReadBitOwned'
  BY <1>13, DecrementStep DEF Moves
<1>14. ASSUME NEW t \in Threads, Subtract(t)
      PROVE  BitsOwned' /\ FetchedRead' /\ ReadBitOwned'
  BY <1>14, SubtractStep DEF Moves
<1>15. ASSUME NEW t \in Threads, Clear(t)
      PROVE  BitsOwned' /\ FetchedRead' /\ ReadBitOwned'
  <2>1. /\ counter = 0 /\ ReadLock \in value /\ WriteLock \notin value
        /\ cmtx = t /\ UNCHANGED <<rd, wr>> /\ value' = {}
        /\ Moves(t) /\ pc'[t] \in {"wake", "idle"}
    BY <1>15, ClearStep
  <2>2. \A u \in Threads : ~(rd[u] > 0) /\ pc[u] \notin {"dec", "sub"}
    <3>1. ~(counter > 0)
      BY <2>1
    <3>2. \A u \in Threads : u \notin Counted /\ ~(rd[u] > 0)
      BY <3>1
    <3> QED
      BY <3>2
  <2>3. \A u \in Threads : u \notin wr /\ pc[u] # "exchange"
    BY <2>1
  <2>4. \A u \in Threads : pc[u] = "clear" => u = t
    BY <2>1
  <2> QED
    BY <2>1, <2>2, <2>3, <2>4 DEF Moves
<1>16. ASSUME NEW t \in Threads, Exchange(t)
      PROVE  BitsOwned' /\ FetchedRead' /\ ReadBitOwned'
  <2>1. \A u \in Threads : u \notin wr /\ (pc[u] = "exchange" => u = t)
    BY <1>16, ExchangeStep DEF GateHeld, Behind
  <2> QED
    BY <1>16, <2>1, ExchangeStep DEF Moves
<1>17. ASSUME NEW t \in Threads, UnlockGate(t)
      PROVE  BitsOwned' /\ FetchedRead' /\ ReadBitOwned'
  BY <1>17, UnlockGateStep DEF Moves
<1>18. ASSUME NEW t \in Threads, Wake(t)
      PROVE  BitsOwned' /\ FetchedRead' /\ ReadBitOwned'
  BY <1>18, WakeStep
<1> QED
  BY <1>1, <1>2, <1>3, <1>4, <1>5, <1>6, <1>7, <1>8, <1>9, <1>10, <1>11,
     <1>12, <1>13, <1>14, <1>15, <1>16, <1>17, <1>18 DEF Next, Proceed, Begins

(* A step keeps a sleeper announced to whoever holds the lock, or a wake   *)
(* on its way.                                                             *)
LEMMA WaitInductive ==
  ASSUME IInv, [Next]_vars
  PROVE  FetchedWait' /\ NoLostWakeup'
<1>0. /\ wr \in SUBSET Threads /\ rd \in [Threads -> 0..MaxDepth]
      /\ counter \in Nat /\ TypeOK /\ gate \in BOOLEAN /\ abandoned \in BOOLEAN
  BY DEF IInv, TypeOK
<1>s. /\ Sleepers(pc) # {} <=> \E t \in Threads : pc[t] = "asleep"
      /\ Sleepers(pc') # {} <=> \E t \in Threads : pc'[t] = "asleep"
  BY TypeInductive DEF IInv, TypeOK, Sleepers
<1> USE <1>0, <1>s, ThreadsAssumption, DepthAssumption
    DEF IInv, CallPlace, FetchedWait, NoLostWakeup, Reading
<1>1. CASE UNCHANGED vars
  BY <1>1 DEF vars, locals, books
<1>2. ASSUME NEW t \in Threads, Begins(t) PROVE FetchedWait' /\ NoLostWakeup'
  BY <1>2, BeginStep DEF Moves
<1>3. ASSUME NEW t \in Threads, Unlock(t) PROVE FetchedWait' /\ NoLostWakeup'
  BY <1>3, UnlockStep DEF Moves
<1>4. ASSUME NEW t \in Threads, Gate(t) \/ GateWait(t) \/ GateGiveUp(t)
      PROVE  FetchedWait' /\ NoLostWakeup'
  BY <1>4, GateStep DEF Moves
<1>5. ASSUME NEW t \in Threads, Gated(t) PROVE FetchedWait' /\ NoLostWakeup'
  BY <1>5, GatedStep DEF Moves
<1>6. ASSUME NEW t \in Threads, RdIncrement(t)
      PROVE  FetchedWait' /\ NoLostWakeup'
  BY <1>6, IncrementStep DEF Moves
<1>7. ASSUME NEW t \in Threads, Cas(t) \/ Retry(t)
      PROVE  FetchedWait' /\ NoLostWakeup'
  <2>1. /\ Moves(t) /\ pc[t] \in {"cas", "retry"}
        /\ \/ UNCHANGED value \/ value = {}
           \/ Waiters \in value' /\ value' \cap Modes # {}
    BY <1>7, AttemptStep
  <2>2. pc'[t] \in {"idle", "dec", "ungate"} \/ TriesAgain(t)
    BY <1>7, AttemptStep
       DEF ReaderIn, ReaderBack, WriterIn, WriterBack, WriterOut
  <2>3. FetchedWait'
    BY <2>1, <2>2 DEF Moves, TriesAgain
  <2>4. NoLostWakeup'
    BY <2>1, <2>2 DEF Moves, TriesAgain
  <2> QED
    BY <2>3, <2>4
<1>8. ASSUME NEW t \in Threads, Announce(t)
      PROVE  FetchedWait' /\ NoLostWakeup'
  BY <1>8, AnnounceStep DEF Moves, ReadLock, WriteLock, Waiters
<1>9. ASSUME NEW t \in Threads, Wait(t) PROVE FetchedWait' /\ NoLostWakeup'
  BY <1>9, WaitStep DEF Moves
<1>10. ASSUME NEW t \in Threads, GiveUp(t) PROVE FetchedWait' /\ NoLostWakeup'
  BY <1>10, GiveUpStep DEF Moves, ReaderBack, WriterBack, WriterOut
<1>11. ASSUME NEW t \in Threads, Elapse(t) PROVE FetchedWait' /\ NoLostWakeup'
  BY <1>11, ElapseStep DEF Moves
<1>12. ASSUME NEW t \in Threads, Ungate(t) PROVE FetchedWait' /\ NoLostWakeup'
  BY <1>12, UngateStep DEF Moves
<1>13. ASSUME NEW t \in Threads, Decrement(t)
      PROVE  FetchedWait' /\ NoLostWakeup'
  BY <1>13, DecrementStep DEF Moves
<1>14. ASSUME NEW t \in Threads, Subtract(t)
      PROVE  FetchedWait' /\ NoLostWakeup'
  BY <1>14, SubtractStep DEF Moves
<1>15. ASSUME NEW t \in Threads, Clear(t) PROVE FetchedWait' /\ NoLostWakeup'
  BY <1>15, ClearStep DEF Moves
<1>16. ASSUME NEW t \in Threads, Exchange(t)
      PROVE  FetchedWait' /\ NoLostWakeup'
  BY <1>16, ExchangeStep DEF Moves, BitsOwned
<1>17. ASSUME NEW t \in Threads, UnlockGate(t)
      PROVE  FetchedWait' /\ NoLostWakeup'
  BY <1>17, UnlockGateStep DEF Moves
<1>18. ASSUME NEW t \in Threads, Wake(t) PROVE FetchedWait' /\ NoLostWakeup'
  BY <1>18, WakeStep
<1> QED
  BY <1>1, <1>2, <1>3, <1>4, <1>5, <1>6, <1>7, <1>8, <1>9, <1>10, <1>11,
     <1>12, <1>13, <1>14, <1>15, <1>16, <1>17, <1>18 DEF Next, Proceed, Begins

-----------------------------------------------------------------------------
(* The invariant holds initially and is kept by every step.                *)
THEOREM Invariance == Spec => []IInv
<1>1. Init => IInv
  <2> SUFFICES ASSUME Init PROVE IInv
    OBVIOUS
  <2>1. /\ \A t \in Threads : pc[t] = "idle" /\ call[t] = "none" /\ rd[t] = 0
        /\ wr = {} /\ value = {} /\ cmtx = Nobody /\ counter = 0 /\ leaked = 0
        /\ ~gate /\ ~abandoned
    BY DEF Init
  <2>2. TypeOK
    <3>1. gate \in BOOLEAN /\ abandoned \in BOOLEAN
      BY DEF Init
    <3>2. /\ {} \in SUBSET (Modes \cup {Waiters}) /\ "idle" \in Locations
          /\ "none" \in Calls /\ "infinite" \in Timeouts
      BY DEF Locations, Calls, Timeouts
    <3> QED
      BY <3>1, <3>2, DepthAssumption DEF Init, TypeOK
  <2>3. ReadLocks = {} /\ Counted = {}
    <3>1. ASSUME NEW l \in Threads \X (1..MaxDepth) PROVE ~(l[2] <= rd[l[1]])
      <4>1. l[1] \in Threads /\ l[2] \in 1..MaxDepth
        OBVIOUS
      <4> QED
        BY <2>1, <4>1, DepthAssumption
    <3> QED
      BY <2>1, <3>1 DEF ReadLocks, Counted, Reading
  <2>4. CounterExact
    BY <2>1, <2>3, FS_EmptySet DEF CounterExact
  <2>5. CallPlace /\ CounterMutexHeld
    BY <2>1, ThreadsAssumption DEF CallPlace, CounterMutexHeld, Reading
  <2>6. GateHeld
    BY <2>1 DEF GateHeld, Behind
  <2>7. BitsOwned /\ FetchedRead /\ FetchedWait /\ ReadBitOwned
    BY <2>1 DEF BitsOwned, FetchedRead, FetchedWait, ReadBitOwned
  <2>8. NoLostWakeup
    BY <2>1, <2>2 DEF NoLostWakeup, Sleepers, TypeOK
  <2> QED
    BY <2>2, <2>4, <2>5, <2>6, <2>7, <2>8 DEF IInv
<1>2. IInv /\ [Next]_vars => IInv'
  BY TypeInductive, PlaceInductive, GateInductive, CountInductive,
     BitsInductive, WaitInductive DEF IInv
<1> QED
  BY <1>1, <1>2, PTL DEF Spec

(* The words and the locals of every thread keep their types.              *)
THEOREM TypeCorrect == Spec => []TypeOK
BY Invariance, PTL DEF IInv

(* The holder of the write lock is alone, the counter is exact, a set read *)
(* bit has somebody to clear it and a locked gatekeeper somebody behind it *)
(* or a call that gave up with it locked.                                  *)
THEOREM WordsExact == Spec => []StateExact
<1>1. IInv => StateExact
  <2> SUFFICES ASSUME IInv PROVE StateExact
    OBVIOUS
  <2> USE DEF IInv
  <2>1. wr \in SUBSET Threads /\ rd \in [Threads -> 0..MaxDepth]
    BY DEF TypeOK
  <2>2. Exclusion
    <3> SUFFICES ASSUME NEW t \in wr PROVE wr = {t} /\ Readers = {}
      BY DEF Exclusion
    <3>1. \A u \in wr : u = t
      BY <2>1 DEF GateHeld, Behind
    <3>2. WriteLock \in value
      BY <2>1 DEF BitsOwned
    <3>3. \A u \in Threads : ~(rd[u] > 0)
      BY <3>2 DEF BitsOwned
    <3> QED
      BY <3>1, <3>3 DEF Readers
  <2>3. GateHeldIffUsed
    BY <2>1 DEF GateHeld, Behind, GateHeldIffUsed
  <2> QED
    BY <2>2, <2>3 DEF StateExact
<1> QED
  BY Invariance, <1>1, PTL

(* Whoever clears the value or hands it over wakes the threads that        *)
(* announced themselves.                                                   *)
THEOREM WakeupNotLost == Spec => []NoLostWakeup
BY Invariance, PTL DEF IInv

(* A step is a step of a readers-writer lock, or no step of it.            *)
LEMMA StepRefines ==
  ASSUME IInv, [Next]_vars
  PROVE  [Abstract!Next]_<<Readers, wr>>
<1>0. /\ wr \in SUBSET Threads /\ rd \in [Threads -> 0..MaxDepth] /\ TypeOK
  BY DEF IInv, TypeOK
<1>1. CASE UNCHANGED <<rd, wr>>
  BY <1>1 DEF Readers
<1>2. ASSUME NEW t \in Threads, Unlock(t) PROVE Abstract!Leave(t)
  <2>1. /\ rd[t] > 0 \/ t \in wr
        /\ rd' = [rd EXCEPT ![t] = 0] /\ wr' = wr \ {t}
    BY <1>0, <1>2, UnlockStep
  <2>2. ~(rd[t] > 0 /\ t \in wr)
    BY DEF IInv, BitsOwned
  <2>3. CASE rd[t] > 0
    BY <1>0, <2>1, <2>2, <2>3 DEF Readers, Abstract!Leave
  <2>4. CASE t \in wr
    <3>1. rd[t] = 0
      BY <1>0, <2>2, <2>4
    <3>2. Readers' = Readers
      BY <1>0, <2>1, <3>1 DEF Readers
    <3> QED
      BY <2>1, <2>4, <3>2 DEF Abstract!Leave
  <2> QED
    BY <2>1, <2>3, <2>4
<1>3. ASSUME NEW t \in Threads, Cas(t) \/ Retry(t), ~UNCHANGED <<rd, wr>>
      PROVE  Abstract!Enter(t)
  <2>1. FetchedWait /\ BitsOwned
    BY DEF IInv
  <2>2. \/ /\ WriteLock \notin value
           /\ rd' = [rd EXCEPT ![t] = @ + 1] /\ UNCHANGED wr
        \/ /\ WriteLock \notin value /\ ReadLock \notin value
           /\ wr' = wr \cup {t} /\ UNCHANGED rd
    BY <1>0, <1>3, <2>1, AttemptStep
       DEF ReaderIn, ReaderBack, WriterIn, WriterBack, WriterOut, TriesAgain,
           BitsOwned
  <2>3. wr = {}
    BY <1>0, <2>1, <2>2 DEF BitsOwned
  <2>4. CASE rd' = [rd EXCEPT ![t] = @ + 1] /\ UNCHANGED wr
    <3>1. Readers' = Readers \cup {t}
      BY <1>0, <2>4, DepthAssumption DEF Readers
    <3> QED
      BY <2>3, <2>4, <3>1 DEF Abstract!Enter
  <2>5. CASE ReadLock \notin value /\ wr' = wr \cup {t} /\ UNCHANGED rd
    <3>1. Readers = {} /\ Readers' = {}
      BY <2>1, <2>5 DEF BitsOwned, Readers
    <3> QED
      BY <2>3, <2>5, <3>1 DEF Abstract!Enter
  <2> QED
    BY <2>2, <2>4, <2>5
<1>4. ASSUME NEW t \in Threads,
             \/ Begins(t) \/ Gate(t) \/ GateWait(t) \/ GateGiveUp(t)
             \/ Gated(t) \/ RdIncrement(t) \/ Announce(t) \/ Wait(t)
             \/ Elapse(t) \/ Ungate(t) \/ Decrement(t) \/ Subtract(t) \/ Clear(t)
             \/ Exchange(t) \/ UnlockGate(t) \/ Wake(t)
      PROVE  UNCHANGED <<rd, wr>>
  BY <1>4 DEF Begins, RdLock, TryRdLock, WrLock, TryWrLock, Begin, Gate,
     GateWait, GateGiveUp, Gated, RdIncrement, Announce, Wait, Elapse, Ungate,
     Decrement, Subtract, Clear, Exchange, UnlockGate, Wake, books
<1>5. ASSUME NEW t \in Threads, GiveUp(t) PROVE UNCHANGED <<rd, wr>>
  BY <1>0, <1>5, GiveUpStep DEF ReaderBack, WriterBack, WriterOut
<1>6. UNCHANGED vars => UNCHANGED <<rd, wr>>
  BY DEF vars, books
<1> QED
  BY <1>1, <1>2, <1>3, <1>4, <1>5, <1>6
     DEF Next, Proceed, Begins, Abstract!Next

(* qrwlock_base is a readers-writer lock.                                  *)
THEOREM Refinement == Spec => RefinesAbstractRwlock
<1>1. Init => Abstract!Init
  BY DEF Init, Abstract!Init, Readers
<1> QED
  BY <1>1, Invariance, StepRefines, PTL
     DEF Spec, RefinesAbstractRwlock, Abstract!Spec

=============================================================================
