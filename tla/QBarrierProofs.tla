--------------------------- MODULE QBarrierProofs ---------------------------
(***************************************************************************)
(* What holds of qbarrier_base::_wait for any finite set of threads, any   *)
(* size of a batch and any number of calls, waits that fail included: a    *)
(* thread passes only when a whole batch has come, and once per batch.     *)
(*                                                                         *)
(* The argument counts.  Every ticket taken is in nIn or in a batch that   *)
(* some golden ticket has taken out of it; every exit belongs to a batch   *)
(* whose golden ticket has cleared nOut, Count - 1 exits to a batch.       *)
(***************************************************************************)
EXTENDS QBarrier, FiniteSetTheorems, TLAPS

(* Threads with a ticket, and, among them, where a golden ticket is on its *)
(* way: before its fetchSub of nIn, after it, between Clear and            *)
(* NextGeneration; and the threads that are sure to return.                *)
InCall == {t \in Threads : pc[t] \notin {"idle", "ticket"}}
Reopening == {t \in Threads : pc[t] = "reopen"}
Opened == {t \in Threads : golden[t] /\ pc[t] \notin {"reopen", "wake"}}
Cleared == {t \in Threads : pc[t] = "next"}
Leaving == {t \in Threads : pc[t] \in {"drop", "wake"}}

Types ==
  /\ pass \in BOOLEAN
  /\ nIn \in Nat
  /\ nOut \in Nat
  /\ generations \in Nat
  /\ pc \in [Threads -> Locations]
  /\ gen \in [Threads -> Nat]
  /\ golden \in [Threads -> BOOLEAN]
  /\ calls \in [Threads -> 0 .. MaxCalls]
  /\ returns \in [Threads -> 0 .. MaxCalls]

(* A call counted and not returned is one in progress, and the branches of *)
(* _wait for the golden ticket and for the others are kept apart.          *)
CallPlace ==
  \A t \in Threads :
    /\ pc[t] = "ticket" => calls[t] < MaxCalls
    /\ calls[t] = returns[t] + (IF t \in InCall THEN 1 ELSE 0)
    /\ golden[t] => pc[t] \notin {"idle", "ticket", "spin", "exit", "drop"}
    /\ pc[t] \in {"reopen", "pass", "clear", "next"} => golden[t]

(* A thread has returned at most once per generation it has seen, and a    *)
(* thread that has passed the spin has seen a new one.                     *)
GenerationSeen ==
  \A t \in Threads :
    /\ returns[t] <= generations
    /\ pc[t] # "idle" => returns[t] <= gen[t] /\ gen[t] <= generations
    /\ pc[t] \in {"exit", "drop"} => returns[t] < gen[t]
    /\ pc[t] = "wake" => returns[t] < generations

(* PassFlag goes from a golden ticket, which clears nOut, to a black one,  *)
(* which drops the flag; in between nobody else does either.  Until nOut   *)
(* is cleared, the exit tickets of the batch before it are used up.        *)
PassAlone ==
  /\ \A t, u \in Threads :
       pc[t] \in {"clear", "drop"} /\ pc[u] \in {"clear", "drop"} => t = u
  /\ \A t \in Threads : pc[t] \in {"clear", "drop"} => pass
  /\ \A t \in Threads : pc[t] = "drop" => nOut >= Count - 1
  /\ (~pass \/ \E t \in Threads : pc[t] = "clear") =>
       nOut >= Count - 1 \/ (generations = 0 /\ \A t \in Threads : pc[t] # "next")

(* Every ticket is in nIn or in a batch taken out of it, and nIn holds     *)
(* whole batches only for golden tickets that are about to take one out.   *)
TicketsExact ==
  /\ Total(calls) = nIn + Count * (generations + Cardinality(Opened))
  /\ Count * Cardinality(Reopening) <= nIn
  /\ nIn < Count * Cardinality(Reopening) + Count

(* Exit tickets of the current batch that were worth something.            *)
Exits == IF nOut < Count - 1 THEN nOut ELSE Count - 1

(* The batches for which nOut was cleared.                                 *)
Batches == generations + Cardinality(Cleared)

(* A batch lets its golden ticket out and at most Count - 1 others.        *)
ExitsBounded ==
  /\ Batches = 0 => Total(returns) + Cardinality(Leaving) = 0
  /\ Batches > 0 => Total(returns) + Cardinality(Leaving)
                      <= generations + (Count - 1) * (Batches - 1) + Exits

(* The calls that have not returned are those of the threads in a call.    *)
CallsExact == Total(calls) = Total(returns) + Cardinality(InCall)

Placing == Types /\ CallPlace /\ GenerationSeen /\ PassAlone
Counting == TicketsExact /\ ExitsBounded /\ CallsExact
IInv == Placing /\ Counting

-----------------------------------------------------------------------------
(* Arithmetic of batches: products, quotients and remainders by Count.     *)

(* One batch more is Count calls more.                                     *)
LEMMA TimesNext ==
  ASSUME NEW m \in Nat, NEW n \in Nat
  PROVE  m * (n + 1) = m * n + m /\ m * n \in Nat
OBVIOUS

(* More batches are more calls.                                            *)
LEMMA TimesMonotone ==
  ASSUME NEW m \in Nat, NEW n \in Nat, NEW k \in Nat, n <= k
  PROVE  m * n <= m * k
OBVIOUS

(* A bound moves with what is bounded.                                     *)
LEMMA ShiftBound ==
  ASSUME NEW x \in Int, NEW y \in Int, NEW e \in Int, NEW f \in Int, NEW b \in Int,
         x <= b + e, y + e <= x + f
  PROVE  y <= b + f
OBVIOUS

(* Quotient and remainder make up the number.                              *)
LEMMA DivMod ==
  ASSUME NEW n \in Nat, NEW c \in Nat \ {0}
  PROVE  /\ n = c * (n \div c) + (n % c)
         /\ n \div c \in Nat
         /\ n % c \in 0 .. c - 1
OBVIOUS

(* Whole batches compare as their numbers do.                              *)
LEMMA CancelFactor ==
  ASSUME NEW c \in Nat \ {0}, NEW k \in Nat, NEW j \in Nat, c * k < c * j + c
  PROVE  k <= j
<1> SUFFICES ASSUME k >= j + 1 PROVE FALSE
  OBVIOUS
<1>1. c * (j + 1) <= c * k
  BY TimesMonotone
<1>2. c * (j + 1) = c * j + c
  BY TimesNext
<1> QED
  BY <1>1, <1>2

(* What is left of n after k whole batches is its remainder.               *)
LEMMA Remainder ==
  ASSUME NEW n \in Nat, NEW c \in Nat \ {0}, NEW k \in Nat,
         c * k <= n, n < c * k + c
  PROVE  n % c = n - c * k
<1> DEFINE q == n \div c
           r == n % c
<1>1. n = c * q + r /\ q \in Nat /\ r \in 0 .. c - 1
  BY DivMod
<1>2. c * q \in Nat /\ c * k \in Nat
  BY <1>1, TimesNext
<1> HIDE DEF q, r
<1>3. c * k < c * q + c /\ c * q < c * k + c
  BY <1>1, <1>2
<1>4. k <= q /\ q <= k
  BY <1>1, <1>3, CancelFactor
<1> QED
  BY <1>1, <1>2, <1>4 DEF r

(* k whole batches in n are at most its quotient.                          *)
LEMMA Quotient ==
  ASSUME NEW n \in Nat, NEW c \in Nat \ {0}, NEW k \in Nat, c * k <= n
  PROVE  k <= n \div c
<1> DEFINE q == n \div c
           r == n % c
<1>1. n = c * q + r /\ q \in Nat /\ r \in 0 .. c - 1
  BY DivMod
<1>2. c * q \in Nat /\ c * k \in Nat
  BY <1>1, TimesNext
<1> HIDE DEF q, r
<1>3. c * k < c * q + c
  BY <1>1, <1>2
<1>4. k <= q
  BY <1>1, <1>3, CancelFactor
<1> QED
  BY <1>4 DEF q

-----------------------------------------------------------------------------
(* A set of threads is finite, and no larger than that of all threads.     *)
LEMMA SetCount ==
  ASSUME NEW S \in SUBSET Threads
  PROVE  /\ Cardinality(S) \in Nat
         /\ Cardinality(S) <= Cardinality(Threads)
         /\ Cardinality(Threads) \in Nat
         /\ IsFiniteSet(S)
BY ThreadsAssumption, FS_Subset, FS_CardinalityType

(* A thread that comes to a set makes it larger by one.                    *)
LEMMA OneJoins ==
  ASSUME NEW S \in SUBSET Threads, NEW T \in SUBSET Threads, NEW t \in Threads,
         t \notin S, t \in T, \A u \in Threads \ {t} : u \in T <=> u \in S
  PROVE  Cardinality(T) = Cardinality(S) + 1
<1>1. T = S \cup {t}
  OBVIOUS
<1>2. IsFiniteSet(S)
  BY SetCount
<1> QED
  BY <1>1, <1>2, FS_AddElement

(* There are finitely many calls to count.                                 *)
LEMMA CountedFinite ==
  ASSUME NEW f
  PROVE  IsFiniteSet(Counted(f)) /\ Total(f) \in Nat
<1>1. IsFiniteSet(1 .. MaxCalls)
  BY CallsAssumption, FS_Interval
<1>2. IsFiniteSet(Threads \X (1 .. MaxCalls))
  BY <1>1, ThreadsAssumption, FS_Product
<1>3. Counted(f) \in SUBSET (Threads \X (1 .. MaxCalls))
  BY DEF Counted
<1> QED
  BY <1>2, <1>3, FS_Subset, FS_CardinalityType DEF Total

(* One more call of one thread is one more call.                           *)
LEMMA TotalNext ==
  ASSUME NEW f \in [Threads -> 0 .. MaxCalls], NEW t \in Threads, f[t] < MaxCalls
  PROVE  Total([f EXCEPT ![t] = @ + 1]) = Total(f) + 1
<1> DEFINE g == [f EXCEPT ![t] = @ + 1]
           c == <<t, f[t] + 1>>
<1>1. c \in Threads \X (1 .. MaxCalls) /\ c \notin Counted(f)
  BY CallsAssumption DEF Counted
<1>2. ASSUME NEW d \in Threads \X (1 .. MaxCalls)
      PROVE  d \in Counted(g) <=> d \in Counted(f) \/ d = c
  <2>1. PICK u \in Threads, n \in 1 .. MaxCalls : d = <<u, n>>
    OBVIOUS
  <2>2. d[1] = u /\ d[2] = n
    BY <2>1
  <2>3. CASE u = t
    <3>1. g[u] = f[t] + 1
      BY <2>3
    <3>2. n <= f[t] + 1 <=> n <= f[t] \/ n = f[t] + 1
      BY CallsAssumption
    <3> QED
      BY <2>1, <2>2, <2>3, <3>1, <3>2 DEF Counted
  <2>4. CASE u # t
    BY <2>1, <2>2, <2>4 DEF Counted
  <2> QED
    BY <2>3, <2>4
<1>3. Counted(g) = Counted(f) \cup {c}
  <2>1. Counted(g) \subseteq Threads \X (1 .. MaxCalls)
    BY DEF Counted
  <2>2. Counted(f) \subseteq Threads \X (1 .. MaxCalls)
    BY DEF Counted
  <2> HIDE DEF g, c
  <2> QED
    BY <1>1, <1>2, <2>1, <2>2
<1> QED
  BY <1>1, <1>3, CountedFinite, FS_AddElement DEF Total

-----------------------------------------------------------------------------
(* What a step of t does to the others: a sleeper may be woken.            *)
Elsewhere(t) ==
  \A u \in Threads \ {t} :
    /\ pc'[u] = pc[u] \/ (pc[u] = "asleep" /\ pc'[u] = "woken")
    /\ golden'[u] = golden[u] /\ gen'[u] = gen[u]
    /\ calls'[u] = calls[u] /\ returns'[u] = returns[u]

(* Every step leaves the others where they are.                            *)
LEMMA OthersStay ==
  ASSUME Types, NEW t \in Threads, Wait(t) \/ Step(t) \/ Failed(t)
  PROVE  Elsewhere(t)
<1> USE DEF Types, Goto, Return, Elsewhere, data, history
<1>1. CASE Wait(t)
  BY <1>1 DEF Wait
<1>2. CASE Failed(t)
  BY <1>2 DEF Failed
<1>3. CASE Ticket(t)
  BY <1>3 DEF Ticket
<1>4. CASE Reopen(t)
  BY <1>4 DEF Reopen
<1>5. CASE SetPass(t)
  BY <1>5 DEF SetPass
<1>6. CASE FutexWait(t)
  BY <1>6 DEF FutexWait, sprt_qlock_wait
<1>7. CASE Woken(t)
  BY <1>7 DEF Woken
<1>8. CASE Spin(t)
  BY <1>8 DEF Spin
<1>9. CASE Exit(t)
  BY <1>9 DEF Exit
<1>10. CASE Drop(t)
  BY <1>10 DEF Drop
<1>11. CASE Clear(t)
  BY <1>11 DEF Clear
<1>12. CASE NextGeneration(t)
  BY <1>12 DEF NextGeneration
<1>13. CASE Wake(t)
  BY <1>13 DEF Wake, sprt_qlock_wake_all
<1> QED
  BY <1>1, <1>2, <1>3, <1>4, <1>5, <1>6, <1>7, <1>8, <1>9, <1>10, <1>11, <1>12,
     <1>13 DEF Step

(* Every step keeps the types; no call and no return exceeds MaxCalls.     *)
LEMMA TypesInductive ==
  ASSUME Placing, NEW t \in Threads, Wait(t) \/ Step(t) \/ Failed(t),
         pc[t] = "reopen" => nIn >= Count
  PROVE  Types'
<1>0. Types /\ CallPlace
  BY DEF Placing
<1>a. /\ calls[t] \in Nat /\ returns[t] \in Nat
      /\ pc[t] = "ticket" => calls[t] + 1 \in 0 .. MaxCalls
      /\ pc[t] \in {"exit", "wake"} => returns[t] + 1 \in 0 .. MaxCalls
  BY <1>0, CallsAssumption DEF Types, CallPlace, InCall
<1> USE <1>0, CallsAssumption, CountAssumption DEF Types, Goto, Return, Locations, data, history
<1>1. CASE Wait(t)
  BY <1>1 DEF Wait
<1>2. CASE Failed(t)
  BY <1>2 DEF Failed
<1>3. CASE Ticket(t)
  BY <1>3, <1>a DEF Ticket
<1>4. CASE Reopen(t)
  BY <1>4 DEF Reopen
<1>5. CASE SetPass(t)
  BY <1>5 DEF SetPass
<1>6. CASE FutexWait(t)
  BY <1>6 DEF FutexWait, sprt_qlock_wait
<1>7. CASE Woken(t)
  BY <1>7 DEF Woken
<1>8. CASE Spin(t)
  BY <1>8 DEF Spin
<1>9. CASE Exit(t)
  <2>1. CASE Goto(t, "idle") /\ Return(t)
    BY <1>9, <1>a, <2>1 DEF Exit
  <2>2. CASE Goto(t, "drop") /\ UNCHANGED <<gen, golden, returns>>
    BY <1>9, <2>2 DEF Exit
  <2>3. CASE Goto(t, "wait") /\ UNCHANGED <<gen, golden, returns>>
    BY <1>9, <2>3 DEF Exit
  <2> QED
    BY <1>9, <2>1, <2>2, <2>3 DEF Exit
<1>10. CASE Drop(t)
  BY <1>10 DEF Drop
<1>11. CASE Clear(t)
  BY <1>11 DEF Clear
<1>12. CASE NextGeneration(t)
  BY <1>12 DEF NextGeneration
<1>13. CASE Wake(t)
  BY <1>13, <1>a DEF Wake, sprt_qlock_wake_all
<1> QED
  BY <1>1, <1>2, <1>3, <1>4, <1>5, <1>6, <1>7, <1>8, <1>9, <1>10, <1>11, <1>12,
     <1>13 DEF Step

(* Every step keeps calls and returns in step and golden tickets apart.    *)
LEMMA CallPlaceInductive ==
  ASSUME Placing, Types', NEW t \in Threads, Wait(t) \/ Step(t) \/ Failed(t)
  PROVE  CallPlace'
<1>0. Types /\ CallPlace
  BY DEF Placing
<1>o. Elsewhere(t)
  BY <1>0, OthersStay
<1>u. ASSUME NEW u \in Threads \ {t}
      PROVE  /\ pc'[u] = "ticket" => calls'[u] < MaxCalls
             /\ calls'[u] = returns'[u] + (IF pc'[u] \in {"idle", "ticket"} THEN 0 ELSE 1)
             /\ golden'[u] => pc'[u] \notin {"idle", "ticket", "spin", "exit", "drop"}
             /\ pc'[u] \in {"reopen", "pass", "clear", "next"} => golden'[u]
  BY <1>0, <1>o DEF CallPlace, InCall, Elsewhere
<1> SUFFICES /\ pc'[t] = "ticket" => calls'[t] < MaxCalls
             /\ calls'[t] = returns'[t] + (IF pc'[t] \in {"idle", "ticket"} THEN 0 ELSE 1)
             /\ golden'[t] => pc'[t] \notin {"idle", "ticket", "spin", "exit", "drop"}
             /\ pc'[t] \in {"reopen", "pass", "clear", "next"} => golden'[t]
  BY <1>u DEF CallPlace, InCall
<1>b. /\ pc[t] = "ticket" => calls[t] < MaxCalls
      /\ calls[t] = returns[t] + (IF pc[t] \in {"idle", "ticket"} THEN 0 ELSE 1)
      /\ golden[t] => pc[t] \notin {"idle", "ticket", "spin", "exit", "drop"}
      /\ pc[t] \in {"reopen", "pass", "clear", "next"} => golden[t]
  BY <1>0 DEF CallPlace, InCall
<1> USE <1>0, <1>b DEF Types, Goto, Return, data, history
<1>1. CASE Wait(t)
  BY <1>1 DEF Wait
<1>2. CASE Failed(t)
  BY <1>2 DEF Failed
<1>3. CASE Ticket(t)
  <2>1. /\ pc[t] = "ticket" /\ calls'[t] = calls[t] + 1 /\ returns'[t] = returns[t]
        /\ calls[t] \in Nat /\ returns[t] \in Nat
    BY <1>3 DEF Ticket
  <2>2. CASE nIn % Count = Count - 1
    <3>1. golden'[t] /\ pc'[t] = "reopen"
      BY <1>3, <2>2 DEF Ticket
    <3> QED
      BY <2>1, <3>1
  <2>3. CASE nIn % Count # Count - 1
    <3>1. ~golden'[t] /\ pc'[t] = "wait"
      BY <1>3, <2>3 DEF Ticket
    <3> QED
      BY <2>1, <3>1
  <2> QED
    BY <2>2, <2>3
<1>4. CASE Reopen(t)
  BY <1>4 DEF Reopen
<1>5. CASE SetPass(t)
  BY <1>5 DEF SetPass
<1>6. CASE FutexWait(t)
  BY <1>6 DEF FutexWait, sprt_qlock_wait
<1>7. CASE Woken(t)
  BY <1>7 DEF Woken
<1>8. CASE Spin(t)
  BY <1>8 DEF Spin
<1>9. CASE Exit(t)
  BY <1>9 DEF Exit
<1>10. CASE Drop(t)
  BY <1>10 DEF Drop
<1>11. CASE Clear(t)
  BY <1>11 DEF Clear
<1>12. CASE NextGeneration(t)
  BY <1>12 DEF NextGeneration
<1>13. CASE Wake(t)
  BY <1>13 DEF Wake, sprt_qlock_wake_all
<1> QED
  BY <1>1, <1>2, <1>3, <1>4, <1>5, <1>6, <1>7, <1>8, <1>9, <1>10, <1>11, <1>12,
     <1>13 DEF Step

(* Every step keeps a thread from returning twice in a generation.         *)
LEMMA GenerationInductive ==
  ASSUME Placing, Types', NEW t \in Threads, Wait(t) \/ Step(t) \/ Failed(t)
  PROVE  GenerationSeen'
<1>0. Types /\ GenerationSeen
  BY DEF Placing
<1>o. Elsewhere(t) /\ generations' \in {generations, generations + 1}
  BY <1>0, OthersStay DEF Wait, Failed, Step, Ticket, Reopen, SetPass, FutexWait,
     Woken, Spin, Exit, Drop, Clear, NextGeneration, Wake, data
<1> DEFINE Seen(u) ==
      /\ returns[u] <= generations
      /\ pc[u] # "idle" => returns[u] <= gen[u] /\ gen[u] <= generations
      /\ pc[u] \in {"exit", "drop"} => returns[u] < gen[u]
      /\ pc[u] = "wake" => returns[u] < generations
<1>u. ASSUME NEW u \in Threads \ {t}
      PROVE  Seen(u)'
  <2>1. /\ returns[u] \in Nat /\ gen[u] \in Nat /\ generations \in Nat
        /\ returns'[u] = returns[u] /\ gen'[u] = gen[u]
        /\ generations' \in {generations, generations + 1}
        /\ pc'[u] = pc[u] \/ (pc[u] = "asleep" /\ pc'[u] = "woken")
    BY <1>0, <1>o DEF Types, Elsewhere
  <2>2. Seen(u)
    BY <1>0 DEF GenerationSeen
  <2> QED
    BY <2>1, <2>2
<1> SUFFICES Seen(t)'
  BY <1>u DEF GenerationSeen
<1>b. /\ returns[t] \in Nat /\ gen[t] \in Nat /\ generations \in Nat
      /\ Seen(t)
  BY <1>0 DEF Types, GenerationSeen
<1> USE <1>0, <1>b DEF Types, Goto, Return, data, history
<1>1. CASE Wait(t)
  BY <1>1 DEF Wait
<1>2. CASE Failed(t)
  BY <1>2 DEF Failed
<1>3. CASE Ticket(t)
  BY <1>3 DEF Ticket
<1>4. CASE Reopen(t)
  BY <1>4 DEF Reopen
<1>5. CASE SetPass(t)
  BY <1>5 DEF SetPass
<1>6. CASE FutexWait(t)
  BY <1>6 DEF FutexWait, sprt_qlock_wait
<1>7. CASE Woken(t)
  BY <1>7 DEF Woken
<1>8. CASE Spin(t)
  BY <1>8 DEF Spin
<1>9. CASE Exit(t)
  BY <1>9 DEF Exit
<1>10. CASE Drop(t)
  BY <1>10 DEF Drop
<1>11. CASE Clear(t)
  BY <1>11 DEF Clear
<1>12. CASE NextGeneration(t)
  BY <1>12 DEF NextGeneration
<1>13. CASE Wake(t)
  BY <1>13 DEF Wake, sprt_qlock_wake_all
<1> QED
  BY <1>1, <1>2, <1>3, <1>4, <1>5, <1>6, <1>7, <1>8, <1>9, <1>10, <1>11, <1>12,
     <1>13 DEF Step

(* Every step keeps PassFlag in one pair of hands, and nOut used up until  *)
(* it is cleared.                                                          *)
LEMMA PassInductive ==
  ASSUME Placing, Types', NEW t \in Threads, Wait(t) \/ Step(t) \/ Failed(t)
  PROVE  PassAlone'
<1>0. Types /\ PassAlone /\ GenerationSeen
  BY DEF Placing
<1>o. \A u \in Threads \ {t} : pc'[u] \in {"clear", "drop", "next"} \/ pc[u] \in {"clear", "drop", "next"}
                                  => pc'[u] = pc[u]
  BY <1>0, OthersStay DEF Elsewhere
<1>n. pc \in [Threads -> Locations] /\ pc' \in [Threads -> Locations]
  BY <1>0 DEF Types
(* A step that neither enters nor leaves the hands of PassFlag.            *)
<1>s. ASSUME pc[t] \notin {"clear", "drop", "next"}, pc'[t] \notin {"clear", "drop", "next"},
             pass' = pass, generations' = generations, nOut' >= nOut
      PROVE  PassAlone'
  <2>1. \A u \in Threads : \A x \in {"clear", "drop", "next"} : pc'[u] = x <=> pc[u] = x
    BY <1>o, <1>s
  <2>2. nOut >= Count - 1 => nOut' >= Count - 1
    BY <1>0, <1>s, CountAssumption DEF Types
  <2> QED
    BY <1>0, <1>s, <2>1, <2>2 DEF PassAlone
<1> USE DEF Goto, data, history
<1>1. CASE Wait(t)
  BY <1>0, <1>1, <1>s DEF Wait, Types
<1>2. CASE Failed(t)
  BY <1>0, <1>2, <1>s DEF Failed, Types
<1>3. CASE Ticket(t)
  BY <1>0, <1>3, <1>s DEF Ticket, Types
<1>4. CASE Reopen(t)
  BY <1>0, <1>4, <1>s DEF Reopen, Types
<1>5. CASE SetPass(t)
  <2>1. CASE pass
    BY <1>0, <1>5, <1>s, <2>1 DEF SetPass, Types
  <2>2. CASE ~pass
    <3>1. /\ pc[t] = "pass" /\ pc'[t] = "clear" /\ pass'
          /\ nOut' = nOut /\ generations' = generations
      BY <1>0, <1>5, <2>2 DEF SetPass, Types
    <3>2. \A u \in Threads \ {t} : pc[u] \notin {"clear", "drop"} /\ pc'[u] \notin {"clear", "drop"}
      BY <1>0, <1>o, <2>2 DEF PassAlone
    <3>3. nOut >= Count - 1 \/ (generations = 0 /\ \A u \in Threads : pc[u] # "next")
      BY <1>0, <2>2 DEF PassAlone
    <3>4. (\A u \in Threads : pc[u] # "next") => \A u \in Threads : pc'[u] # "next"
      BY <1>o, <3>1
    <3> QED
      BY <3>1, <3>2, <3>3, <3>4 DEF PassAlone
  <2> QED
    BY <2>1, <2>2
<1>6. CASE FutexWait(t)
  BY <1>0, <1>6, <1>s DEF FutexWait, sprt_qlock_wait, Types
<1>7. CASE Woken(t)
  BY <1>0, <1>7, <1>s DEF Woken, Types
<1>8. CASE Spin(t)
  BY <1>0, <1>8, <1>s DEF Spin, Types
<1>9. CASE Exit(t)
  <2>1. /\ pc[t] = "exit" /\ nOut' = nOut + 1 /\ pass' = pass /\ generations' = generations
        /\ pc'[t] \in {"idle", "drop", "wait"}
        /\ pc'[t] = "drop" => nOut = Count - 2
    BY <1>0, <1>9 DEF Exit, Types
  <2>2. CASE pc'[t] # "drop"
    BY <1>0, <1>s, <2>1, <2>2 DEF Types
  <2>3. CASE pc'[t] = "drop"
    <3>1. generations > 0 /\ ~(nOut >= Count - 1) /\ nOut' >= Count - 1
      BY <1>0, <2>1, <2>3, CountAssumption DEF Types, GenerationSeen
    <3>2. pass /\ \A u \in Threads : pc[u] # "clear"
      BY <1>0, <3>1 DEF PassAlone, Types
    <3>3. \A u \in Threads : pc[u] # "drop"
      BY <1>0, <3>1 DEF PassAlone
    <3>4. \A u \in Threads \ {t} : pc'[u] \notin {"clear", "drop"}
      BY <1>o, <3>2, <3>3
    <3> QED
      BY <2>1, <2>3, <3>1, <3>2, <3>4 DEF PassAlone
  <2> QED
    BY <2>2, <2>3
<1>10. CASE Drop(t)
  <2>1. /\ pc[t] = "drop" /\ pc'[t] = "wake" /\ ~pass'
        /\ nOut' = nOut /\ generations' = generations
    BY <1>0, <1>10 DEF Drop, Types
  <2>2. nOut >= Count - 1
    BY <1>0, <2>1 DEF PassAlone
  <2>3. \A u \in Threads : pc'[u] \notin {"clear", "drop"}
    BY <1>0, <1>o, <2>1 DEF PassAlone
  <2> QED
    BY <2>1, <2>2, <2>3 DEF PassAlone
<1>11. CASE Clear(t)
  <2>1. pc[t] = "clear" /\ pc'[t] = "next" /\ pass' = pass
    BY <1>0, <1>11 DEF Clear, Types
  <2>2. pass /\ \A u \in Threads : pc'[u] \notin {"clear", "drop"}
    BY <1>0, <1>o, <2>1 DEF PassAlone
  <2> QED
    BY <2>1, <2>2 DEF PassAlone
<1>12. CASE NextGeneration(t)
  <2>1. pc[t] = "next" /\ pc'[t] = "wake" /\ pass' = pass /\ nOut' = nOut
    BY <1>0, <1>12 DEF NextGeneration, Types
  <2>2. \A u \in Threads : \A x \in {"clear", "drop"} : pc'[u] = x <=> pc[u] = x
    BY <1>o, <2>1
  <2>3. (~pass \/ \E u \in Threads : pc[u] = "clear") => nOut >= Count - 1
    BY <1>0, <2>1 DEF PassAlone
  <2> QED
    BY <1>0, <2>1, <2>2, <2>3 DEF PassAlone
<1>13. CASE Wake(t)
  BY <1>0, <1>13, <1>s DEF Wake, sprt_qlock_wake_all, Types
<1> QED
  BY <1>1, <1>2, <1>3, <1>4, <1>5, <1>6, <1>7, <1>8, <1>9, <1>10, <1>11, <1>12,
     <1>13 DEF Step

-----------------------------------------------------------------------------
Numbers == <<nIn, nOut, generations, calls, returns>>

(* A step that moves its thread between none of the counted sets, nor      *)
(* changes a number, leaves the counts alone.                              *)
LEMMA CountingStays ==
  ASSUME Counting, NEW t \in Threads, Elsewhere(t), UNCHANGED Numbers,
         t \in InCall' <=> t \in InCall, t \in Reopening' <=> t \in Reopening,
         t \in Opened' <=> t \in Opened, t \in Cleared' <=> t \in Cleared,
         t \in Leaving' <=> t \in Leaving
  PROVE  Counting'
<1>1. InCall' = InCall
  BY DEF Elsewhere, InCall
<1>2. Reopening' = Reopening
  BY DEF Elsewhere, Reopening
<1>3. Opened' = Opened
  BY DEF Elsewhere, Opened
<1>4. Cleared' = Cleared
  BY DEF Elsewhere, Cleared
<1>5. Leaving' = Leaving
  BY DEF Elsewhere, Leaving
<1>6. UNCHANGED <<nIn, nOut, generations>> /\ Total(calls)' = Total(calls)
      /\ Total(returns)' = Total(returns)
  BY DEF Numbers, Total, Counted
<1> QED
  BY <1>1, <1>2, <1>3, <1>4, <1>5, <1>6
     DEF Counting, TicketsExact, ExitsBounded, CallsExact, Batches, Exits

(* The size of a set before and after one thread may have come or gone.    *)
Tally(old, new, before, after) ==
  /\ old \in Nat /\ new \in Nat
  /\ before /\ ~after => old = new + 1 /\ old > 0
  /\ ~before /\ after => new = old + 1
  /\ (before <=> after) => new = old

(* The sizes of the counted sets, and how a step of t changes them.        *)
LEMMA Sizes ==
  ASSUME NEW t \in Threads, Elsewhere(t)
  PROVE  /\ Tally(Cardinality(InCall), Cardinality(InCall)', t \in InCall, t \in InCall')
         /\ Tally(Cardinality(Reopening), Cardinality(Reopening)', t \in Reopening, t \in Reopening')
         /\ Tally(Cardinality(Opened), Cardinality(Opened)', t \in Opened, t \in Opened')
         /\ Tally(Cardinality(Cleared), Cardinality(Cleared)', t \in Cleared, t \in Cleared')
         /\ Tally(Cardinality(Leaving), Cardinality(Leaving)', t \in Leaving, t \in Leaving')
<1>1. ASSUME NEW S \in SUBSET Threads, NEW T \in SUBSET Threads,
             \A u \in Threads \ {t} : u \in T <=> u \in S
      PROVE  Tally(Cardinality(S), Cardinality(T), t \in S, t \in T)
  <2>1. Cardinality(S) \in Nat /\ Cardinality(T) \in Nat
    BY SetCount
  <2>2. t \in S /\ t \notin T => Cardinality(S) = Cardinality(T) + 1
    BY <1>1, OneJoins
  <2>3. t \notin S /\ t \in T => Cardinality(T) = Cardinality(S) + 1
    BY <1>1, OneJoins
  <2>4. (t \in S <=> t \in T) => S = T
    BY <1>1
  <2> QED
    BY <2>1, <2>2, <2>3, <2>4 DEF Tally
<1>2. Tally(Cardinality(InCall), Cardinality(InCall)', t \in InCall, t \in InCall')
  <2>1. /\ InCall \in SUBSET Threads /\ InCall' \in SUBSET Threads
        /\ \A u \in Threads \ {t} : u \in InCall' <=> u \in InCall
    BY DEF Elsewhere, InCall
  <2> QED
    BY <1>1, <2>1
<1>3. Tally(Cardinality(Reopening), Cardinality(Reopening)', t \in Reopening, t \in Reopening')
  <2>1. /\ Reopening \in SUBSET Threads /\ Reopening' \in SUBSET Threads
        /\ \A u \in Threads \ {t} : u \in Reopening' <=> u \in Reopening
    BY DEF Elsewhere, Reopening
  <2> QED
    BY <1>1, <2>1
<1>4. Tally(Cardinality(Opened), Cardinality(Opened)', t \in Opened, t \in Opened')
  <2>1. /\ Opened \in SUBSET Threads /\ Opened' \in SUBSET Threads
        /\ \A u \in Threads \ {t} : u \in Opened' <=> u \in Opened
    BY DEF Elsewhere, Opened
  <2> QED
    BY <1>1, <2>1
<1>5. Tally(Cardinality(Cleared), Cardinality(Cleared)', t \in Cleared, t \in Cleared')
  <2>1. /\ Cleared \in SUBSET Threads /\ Cleared' \in SUBSET Threads
        /\ \A u \in Threads \ {t} : u \in Cleared' <=> u \in Cleared
    BY DEF Elsewhere, Cleared
  <2> QED
    BY <1>1, <2>1
<1>6. Tally(Cardinality(Leaving), Cardinality(Leaving)', t \in Leaving, t \in Leaving')
  <2>1. /\ Leaving \in SUBSET Threads /\ Leaving' \in SUBSET Threads
        /\ \A u \in Threads \ {t} : u \in Leaving' <=> u \in Leaving
    BY DEF Elsewhere, Leaving
  <2> QED
    BY <1>1, <2>1
<1> QED
  BY <1>2, <1>3, <1>4, <1>5, <1>6

(* A golden ticket at "reopen" finds its batch in nIn.                     *)
LEMMA BatchIsThere ==
  ASSUME IInv, NEW t \in Threads, pc[t] = "reopen"
  PROVE  nIn >= Count
<1>1. Reopening \in SUBSET Threads /\ t \in Reopening
  BY DEF Reopening
<1>2. Cardinality(Reopening) \in Nat /\ Cardinality(Reopening) # 0
  BY <1>1, SetCount, FS_EmptySet
<1>3. Count * 1 <= Count * Cardinality(Reopening)
  BY <1>2, TimesMonotone, CountAssumption
<1>4. Count * Cardinality(Reopening) \in Nat
  BY <1>2, TimesNext, CountAssumption
<1> QED
  BY <1>3, <1>4, CountAssumption DEF IInv, Placing, Counting, Types, TicketsExact

(* Every step keeps the counts.                                            *)
LEMMA CountingInductive ==
  ASSUME IInv, Types', NEW t \in Threads, Wait(t) \/ Step(t) \/ Failed(t)
  PROVE  Counting'
<1> DEFINE c == Cardinality(InCall)
           r == Cardinality(Reopening)
           o == Cardinality(Opened)
           n == Cardinality(Cleared)
           l == Cardinality(Leaving)
           A == Total(calls)
           L == Total(returns)
           D == (Count - 1) * ((generations + n) - 1)
<1>0. Types /\ CallPlace /\ GenerationSeen /\ PassAlone /\ Counting
  BY DEF IInv, Placing
<1>o. Elsewhere(t)
  BY <1>0, OthersStay
<1>d. /\ Tally(c, c', t \in InCall, t \in InCall')
      /\ Tally(r, r', t \in Reopening, t \in Reopening')
      /\ Tally(o, o', t \in Opened, t \in Opened')
      /\ Tally(n, n', t \in Cleared, t \in Cleared')
      /\ Tally(l, l', t \in Leaving, t \in Leaving')
  BY <1>o, Sizes
<1>s. /\ c \in Nat /\ r \in Nat /\ o \in Nat /\ n \in Nat /\ l \in Nat
      /\ c' \in Nat /\ r' \in Nat /\ o' \in Nat /\ n' \in Nat /\ l' \in Nat
  BY <1>d DEF Tally
<1>m. /\ t \in InCall <=> pc[t] \notin {"idle", "ticket"}
      /\ t \in InCall' <=> pc'[t] \notin {"idle", "ticket"}
      /\ t \in Reopening <=> pc[t] = "reopen"
      /\ t \in Reopening' <=> pc'[t] = "reopen"
      /\ t \in Opened <=> golden[t] /\ pc[t] \notin {"reopen", "wake"}
      /\ t \in Opened' <=> golden'[t] /\ pc'[t] \notin {"reopen", "wake"}
      /\ t \in Cleared <=> pc[t] = "next"
      /\ t \in Cleared' <=> pc'[t] = "next"
      /\ t \in Leaving <=> pc[t] \in {"drop", "wake"}
      /\ t \in Leaving' <=> pc'[t] \in {"drop", "wake"}
  BY DEF InCall, Reopening, Opened, Cleared, Leaving
<1>t. A \in Nat /\ L \in Nat /\ L' \in Nat /\ nIn \in Nat /\ nOut \in Nat /\ generations \in Nat
      /\ Count \in Nat \ {0}
  BY <1>0, CountedFinite, CountAssumption DEF Types
<1>e. A = nIn + Count * (generations + o) /\ A = L + c
  BY <1>0, Zenon DEF Counting, TicketsExact, CallsExact
<1>f. Count * r <= nIn /\ nIn < Count * r + Count
  BY <1>0, Zenon DEF Counting, TicketsExact
<1>h. /\ generations + n = 0 => L + l = 0
      /\ generations + n > 0 => L + l <= generations + D + Exits
  BY <1>0, Zenon DEF Counting, ExitsBounded, Batches
<1>g. ASSUME A' = nIn' + Count * (generations' + o'), A' = L' + c',
             Count * r' <= nIn', nIn' < Count * r' + Count,
             generations' + n' = 0 => L' + l' = 0,
             generations' + n' > 0 => L' + l' <= generations' + D' + Exits'
      PROVE  Counting'
  BY <1>g, Zenon DEF Counting, TicketsExact, ExitsBounded, CallsExact, Batches
<1>p. Count * (generations + o) \in Nat /\ Count * r \in Nat /\ D \in Int
  BY <1>s, <1>t, TimesNext
<1>x. ASSUME generations' + n' = generations + n PROVE D' = D
  BY <1>x
<1>c. ASSUME UNCHANGED calls PROVE A' = A
  BY <1>c DEF Total, Counted
<1>l. ASSUME UNCHANGED returns PROVE L' = L
  BY <1>l DEF Total, Counted
<1>r. ASSUME returns' = [returns EXCEPT ![t] = @ + 1], pc[t] \in {"exit", "wake"}
      PROVE  L' = L + 1
  <2>1. returns \in [Threads -> 0 .. MaxCalls] /\ returns[t] < MaxCalls
    BY <1>0, <1>r, CallsAssumption DEF Types, CallPlace, InCall
  <2>2. Total(returns') = Total(returns) + 1
    BY <1>r, <2>1, TotalNext
  <2> QED
    BY <2>2 DEF Total, Counted
<1> HIDE DEF c, r, o, n, l, A, L, D
<1>q. ASSUME UNCHANGED Numbers, t \in InCall' <=> t \in InCall,
             t \in Reopening' <=> t \in Reopening, t \in Opened' <=> t \in Opened,
             t \in Cleared' <=> t \in Cleared, t \in Leaving' <=> t \in Leaving
      PROVE  Counting'
  BY <1>0, <1>o, <1>q, CountingStays
<1> USE DEF Goto, data, history
<1>1. CASE Wait(t)
  BY <1>0, <1>1, <1>m, <1>q DEF Wait, Types, Numbers
<1>2. CASE Failed(t)
  BY <1>0, <1>2, <1>m, <1>q DEF Failed, Types, Numbers
<1>3. CASE Ticket(t)
  <2>1. /\ pc[t] = "ticket" /\ pc'[t] \in {"reopen", "wait"} /\ nIn' = nIn + 1
        /\ UNCHANGED <<nOut, generations, returns>>
        /\ calls' = [calls EXCEPT ![t] = @ + 1]
        /\ pc'[t] = "reopen" <=> nIn % Count = Count - 1
        /\ pc'[t] # "reopen" => ~golden'[t]
        /\ ~golden[t]
    BY <1>0, <1>3 DEF Ticket, Types, CallPlace
  <2>2. A' = A + 1
    <3>1. calls \in [Threads -> 0 .. MaxCalls] /\ calls[t] < MaxCalls
      BY <1>0, <2>1 DEF Types, CallPlace
    <3>2. Total(calls') = Total(calls) + 1
      BY <2>1, <3>1, TotalNext
    <3> QED
      BY <3>2 DEF A, Total, Counted
  <2>3. L' = L /\ c' = c + 1 /\ o' = o /\ n' = n /\ l' = l
    <3>1. /\ t \notin InCall /\ t \in InCall'
          /\ t \notin Opened /\ t \notin Opened'
          /\ t \notin Cleared /\ t \notin Cleared'
          /\ t \notin Leaving /\ t \notin Leaving'
      BY <1>m, <2>1
    <3> QED
      BY <1>d, <1>l, <2>1, <3>1 DEF Tally
  <2>4. nIn % Count = nIn - Count * r
    <3>1. nIn \in Nat /\ Count \in Nat \ {0} /\ r \in Nat
      BY <1>s, <1>t
    <3> QED
      BY <1>f, <3>1, Remainder
  <2>5. Count * r' <= nIn' /\ nIn' < Count * r' + Count
    <3>1. CASE pc'[t] = "reopen"
      <4>1. r' = r + 1
        <5>1. /\ t \notin Reopening /\ t \in Reopening'
          BY <1>m, <2>1, <3>1
        <5> QED
          BY <1>d, <5>1 DEF Tally
      <4>2. Count * r' = Count * r + Count
        BY <1>s, <1>t, <4>1, TimesNext
      <4> QED
        BY <1>p, <1>t, <2>1, <2>4, <3>1, <4>2
    <3>2. CASE pc'[t] # "reopen"
      <4>1. r' = r
        <5>1. /\ t \notin Reopening /\ t \notin Reopening'
          BY <1>m, <2>1, <3>2
        <5> QED
          BY <1>d, <5>1 DEF Tally
      <4>2. nIn - Count * r # Count - 1 /\ nIn' = nIn + 1
        BY <2>1, <2>4, <3>2
      <4>3. nIn + 1 < Count * r + Count
        BY <1>f, <1>p, <1>t, <4>2
      <4> QED
        BY <1>f, <1>p, <1>t, <4>1, <4>2, <4>3
    <3> QED
      BY <3>1, <3>2
  <2>6. A' = nIn' + Count * (generations' + o') /\ A' = L' + c'
    BY <1>e, <1>p, <1>s, <1>t, <2>1, <2>2, <2>3
  <2>7. Exits' = Exits /\ D' = D /\ generations' = generations
    BY <1>x, <2>1, <2>3 DEF Exits
  <2> QED
    BY <1>g, <1>h, <2>3, <2>5, <2>6, <2>7
<1>4. CASE Reopen(t)
  <2>1. /\ pc[t] = "reopen" /\ pc'[t] = "pass" /\ golden'[t] /\ nIn' = nIn - Count
        /\ UNCHANGED <<nOut, generations, returns, calls>>
    BY <1>0, <1>4 DEF Reopen, Types, CallPlace
  <2>2. A' = A /\ L' = L /\ c' = c /\ o' = o + 1 /\ n' = n /\ l' = l /\ r = r' + 1
    <3>1. /\ t \in InCall /\ t \in InCall'
          /\ t \notin Opened /\ t \in Opened'
          /\ t \notin Cleared /\ t \notin Cleared'
          /\ t \notin Leaving /\ t \notin Leaving'
          /\ t \in Reopening /\ t \notin Reopening'
      BY <1>m, <2>1
    <3> QED
      BY <1>d, <1>c, <1>l, <2>1, <3>1 DEF Tally
  <2>3. Count * r = Count * r' + Count /\ Count * r' \in Nat
    BY <1>s, <1>t, <2>2, TimesNext
  <2>4. Count * (generations' + o') = Count * (generations + o) + Count
    <3>1. generations' + o' = (generations + o) + 1
      BY <1>s, <1>t, <2>1, <2>2
    <3> QED
      BY <1>s, <1>t, <3>1, TimesNext
  <2>5. A' = nIn' + Count * (generations' + o')
    BY <1>e, <1>p, <1>t, <2>1, <2>2, <2>4
  <2>6. Count * r' <= nIn' /\ nIn' < Count * r' + Count
    BY <1>f, <1>p, <1>t, <2>1, <2>3
  <2>7. Exits' = Exits /\ D' = D /\ generations' = generations /\ A' = L' + c'
    BY <1>e, <1>x, <2>1, <2>2 DEF Exits
  <2> QED
    BY <1>g, <1>h, <2>2, <2>5, <2>6, <2>7
<1>5. CASE SetPass(t)
  BY <1>0, <1>5, <1>m, <1>q DEF SetPass, Types, Numbers, CallPlace
<1>6. CASE FutexWait(t)
  BY <1>0, <1>6, <1>m, <1>q DEF FutexWait, sprt_qlock_wait, Types, Numbers
<1>7. CASE Woken(t)
  BY <1>0, <1>7, <1>m, <1>q DEF Woken, Types, Numbers
<1>8. CASE Spin(t)
  BY <1>0, <1>8, <1>m, <1>q DEF Spin, Types, Numbers
<1>9. CASE Exit(t)
  <2>1. /\ pc[t] = "exit" /\ ~golden[t] /\ nOut' = nOut + 1
        /\ UNCHANGED <<nIn, generations, calls>>
        /\ generations > 0
    BY <1>0, <1>9, <1>t DEF Exit, Types, CallPlace, GenerationSeen
  <2>2. A' = A
    BY <1>c, <2>1
  (* It is enough to compare returns and exit tickets.                     *)
  <2>3. ASSUME r' = r, o' = o, n' = n, L' + c' = L + c,
               L' + l' + Exits <= L + l + Exits'
        PROVE  Counting'
    <3>1. generations' + n' = generations + n /\ generations + n > 0 /\ D' = D
      BY <1>s, <1>t, <1>x, <2>1, <2>3
    <3>2. Exits \in Int /\ Exits' \in Int
      BY <1>t, <2>1 DEF Exits
    <3>3. L' + l' <= generations' + D' + Exits'
      <4>1. L + l <= generations + D + Exits
        BY <1>h, <3>1
      <4>2. generations' = generations /\ D' = D
        BY <2>1, <3>1
      <4>3. D \in Int /\ L' \in Nat /\ l' \in Nat /\ L \in Nat /\ l \in Nat /\ generations \in Nat
        BY <1>p, <1>s, <1>t
      <4>4. L' + l' + Exits <= L + l + Exits'
        BY <2>3
      <4>5. L' + l' <= generations + D + Exits'
        <5>1. generations + D \in Int /\ L + l \in Int /\ L' + l' \in Int
          BY <4>3
        <5> QED
          BY <3>2, <4>1, <4>4, <5>1, ShiftBound
      <4> QED
        BY <4>2, <4>5
    <3>4. A' = nIn' + Count * (generations' + o') /\ A' = L' + c'
      BY <1>e, <2>1, <2>2, <2>3
    <3>5. Count * r' <= nIn' /\ nIn' < Count * r' + Count
      BY <1>f, <2>1, <2>3
    <3>6. ~(generations' + n' = 0)
      BY <1>s, <1>t, <3>1
    <3> QED
      BY <1>g, <3>3, <3>4, <3>5, <3>6
  <2>4. CASE nOut < Count - 2 /\ Return(t) /\ Goto(t, "idle")
    <3>1. pc'[t] = "idle" /\ ~golden'[t]
      BY <1>0, <2>4 DEF Return, Types
    <3>2. L' = L + 1
      BY <1>r, <2>1, <2>4 DEF Return
    <3>3. /\ t \in InCall /\ t \notin InCall'
          /\ t \notin Reopening /\ t \notin Reopening'
          /\ t \notin Opened /\ t \notin Opened'
          /\ t \notin Cleared /\ t \notin Cleared'
          /\ t \notin Leaving /\ t \notin Leaving'
      BY <1>m, <2>1, <3>1
    <3>4. c = c' + 1 /\ o' = o /\ n' = n /\ l' = l /\ r' = r
      BY <1>d, <3>3 DEF Tally
    <3>5. Exits' = Exits + 1 /\ Exits \in Nat
      BY <1>t, <2>1, <2>4 DEF Exits
    <3>6. L' + c' = L + c /\ L' + l' + Exits <= L + l + Exits'
      BY <1>s, <1>t, <3>2, <3>4, <3>5
    <3> QED
      BY <2>3, <3>4, <3>6
  <2>5. CASE nOut = Count - 2 /\ Goto(t, "drop") /\ UNCHANGED <<gen, golden, returns>>
    <3>1. pc'[t] = "drop" /\ ~golden'[t]
      BY <1>0, <2>1, <2>5 DEF Types
    <3>2. L' = L
      BY <1>l, <2>5
    <3>3. /\ t \in InCall /\ t \in InCall'
          /\ t \notin Reopening /\ t \notin Reopening'
          /\ t \notin Opened /\ t \notin Opened'
          /\ t \notin Cleared /\ t \notin Cleared'
          /\ t \notin Leaving /\ t \in Leaving'
      BY <1>m, <2>1, <3>1
    <3>4. c' = c /\ o' = o /\ n' = n /\ l' = l + 1 /\ r' = r
      BY <1>d, <3>3 DEF Tally
    <3>5. Exits' = Exits + 1 /\ Exits \in Nat
      BY <1>t, <2>1, <2>5 DEF Exits
    <3>6. L' + c' = L + c /\ L' + l' + Exits <= L + l + Exits'
      BY <1>s, <1>t, <3>2, <3>4, <3>5
    <3> QED
      BY <2>3, <3>4, <3>6
  <2>6. CASE nOut > Count - 2 /\ Goto(t, "wait") /\ UNCHANGED <<gen, golden, returns>>
    <3>1. pc'[t] = "wait" /\ ~golden'[t]
      BY <1>0, <2>1, <2>6 DEF Types
    <3>2. L' = L
      BY <1>l, <2>6
    <3>3. /\ t \in InCall /\ t \in InCall'
          /\ t \notin Reopening /\ t \notin Reopening'
          /\ t \notin Opened /\ t \notin Opened'
          /\ t \notin Cleared /\ t \notin Cleared'
          /\ t \notin Leaving /\ t \notin Leaving'
      BY <1>m, <2>1, <3>1
    <3>4. c' = c /\ o' = o /\ n' = n /\ l' = l /\ r' = r
      BY <1>d, <3>3 DEF Tally
    <3>5. Exits' = Exits /\ Exits \in Nat
      BY <1>t, <2>1, <2>6 DEF Exits
    <3>6. L' + c' = L + c /\ L' + l' + Exits <= L + l + Exits'
      BY <1>s, <1>t, <3>2, <3>4, <3>5
    <3> QED
      BY <2>3, <3>4, <3>6
  <2> QED
    BY <1>9, <2>4, <2>5, <2>6 DEF Exit
<1>10. CASE Drop(t)
  BY <1>0, <1>10, <1>m, <1>q DEF Drop, Types, Numbers, CallPlace
<1>11. CASE Clear(t)
  <2>1. /\ pc[t] = "clear" /\ pc'[t] = "next" /\ golden[t] /\ golden'[t] /\ nOut' = 0
        /\ UNCHANGED <<nIn, generations, returns, calls>>
    BY <1>0, <1>11 DEF Clear, Types, CallPlace
  <2>2. /\ t \in InCall /\ t \in InCall'
        /\ t \notin Reopening /\ t \notin Reopening'
        /\ t \in Opened /\ t \in Opened'
        /\ t \notin Cleared /\ t \in Cleared'
        /\ t \notin Leaving /\ t \notin Leaving'
    BY <1>m, <2>1
  <2>3. c' = c /\ o' = o /\ n' = n + 1 /\ l' = l /\ r' = r
    BY <1>d, <2>2 DEF Tally
  <2>4. A' = A /\ L' = L
    BY <1>c, <1>l, <2>1
  <2>5. nOut >= Count - 1 \/ (generations = 0 /\ n = 0)
    <3>1. nOut >= Count - 1 \/ (generations = 0 /\ \A u \in Threads : pc[u] # "next")
      BY <1>0, <2>1 DEF PassAlone
    <3>2. ASSUME \A u \in Threads : pc[u] # "next" PROVE n = 0
      <4>1. Cleared = {}
        BY <3>2 DEF Cleared
      <4> QED
        BY <4>1, FS_EmptySet DEF n
    <3> QED
      BY <3>1, <3>2
  <2>6. Exits' = 0
    BY <1>t, <2>1 DEF Exits
  <2>7. L' + l' <= generations' + D' + Exits'
    <3>1. CASE generations + n = 0
      <4>1. generations = 0 /\ n = 0
        BY <1>s, <1>t, <3>1
      <4>2. D' = 0
        BY <1>t, <2>1, <2>3, <4>1 DEF D
      <4> QED
        BY <1>h, <1>t, <2>1, <2>3, <2>4, <2>6, <3>1, <4>1, <4>2
    <3>2. CASE generations + n > 0
      <4>1. D' = D + (Count - 1)
        <5> DEFINE m == Count - 1
                   k == (generations + n) - 1
        <5>1. m \in Nat /\ k \in Nat /\ (generations' + n') - 1 = k + 1
          BY <1>s, <1>t, <2>1, <2>3, <3>2
        <5>2. D = m * k /\ D' = m * (k + 1)
          BY <5>1 DEF D
        <5> HIDE DEF m, k
        <5>3. m * (k + 1) = m * k + m
          BY <5>1, TimesNext
        <5> QED
          BY <5>2, <5>3 DEF m
      <4>2. Exits = Count - 1
        BY <1>s, <1>t, <2>5, <3>2 DEF Exits
      <4> QED
        BY <1>h, <1>p, <1>s, <1>t, <2>1, <2>3, <2>4, <2>6, <3>2, <4>1, <4>2
    <3> QED
      BY <1>s, <1>t, <3>1, <3>2
  <2>8. ~(generations' + n' = 0)
    BY <1>s, <1>t, <2>1, <2>3
  <2>9. /\ A' = nIn' + Count * (generations' + o') /\ A' = L' + c'
        /\ Count * r' <= nIn' /\ nIn' < Count * r' + Count
    BY <1>e, <1>f, <2>1, <2>3, <2>4
  <2> QED
    BY <1>g, <2>7, <2>8, <2>9
<1>12. CASE NextGeneration(t)
  <2>1. /\ pc[t] = "next" /\ pc'[t] = "wake" /\ golden[t] /\ generations' = generations + 1
        /\ UNCHANGED <<nIn, nOut, returns, calls>>
    BY <1>0, <1>12 DEF NextGeneration, Types, CallPlace
  <2>2. /\ t \in InCall /\ t \in InCall'
        /\ t \notin Reopening /\ t \notin Reopening'
        /\ t \in Opened /\ t \notin Opened'
        /\ t \in Cleared /\ t \notin Cleared'
        /\ t \notin Leaving /\ t \in Leaving'
    BY <1>m, <2>1
  <2>3. c' = c /\ o = o' + 1 /\ n = n' + 1 /\ n > 0 /\ l' = l + 1 /\ r' = r
    BY <1>d, <2>2 DEF Tally
  <2>4. A' = A /\ L' = L /\ Exits' = Exits
    BY <1>c, <1>l, <2>1 DEF Exits
  <2>5. /\ generations' + o' = generations + o /\ generations' + n' = generations + n
        /\ generations + n > 0
    <3>1. generations + n > 0
      <4>1. n > 0 /\ n \in Nat /\ generations \in Nat
        BY <1>s, <1>t, <2>3
      <4> QED
        BY <4>1
    <3>2. generations' + n' = generations + n
      BY <1>s, <1>t, <2>1, <2>3
    <3>3. generations' + o' = generations + o
      BY <1>s, <1>t, <2>1, <2>3
    <3> QED
      BY <3>1, <3>2, <3>3
  <2>6. D' = D
    BY <1>x, <2>5
  <2>7. Exits \in Int
    BY <1>t DEF Exits
  <2>8. L' + l' <= generations' + D' + Exits'
    BY <1>h, <1>p, <1>s, <1>t, <2>1, <2>3, <2>4, <2>5, <2>6, <2>7
  <2>9. /\ A' = nIn' + Count * (generations' + o') /\ A' = L' + c'
        /\ Count * r' <= nIn' /\ nIn' < Count * r' + Count
    BY <1>e, <1>f, <2>1, <2>3, <2>4, <2>5
  <2>10. ~(generations' + n' = 0)
    BY <1>s, <1>t, <2>5
  <2> QED
    BY <1>g, <2>8, <2>9, <2>10
<1>13. CASE Wake(t)
  <2>1. /\ pc[t] = "wake" /\ pc'[t] = "idle" /\ ~golden'[t]
        /\ UNCHANGED <<nIn, nOut, generations, calls>>
        /\ returns' = [returns EXCEPT ![t] = @ + 1]
    BY <1>0, <1>13 DEF Wake, Return, Types, sprt_qlock_wake_all
  <2>2. A' = A /\ L' = L + 1
    BY <1>c, <1>r, <2>1
  <2>3. /\ t \in InCall /\ t \notin InCall'
        /\ t \notin Reopening /\ t \notin Reopening'
        /\ t \notin Opened /\ t \notin Opened'
        /\ t \notin Cleared /\ t \notin Cleared'
        /\ t \in Leaving /\ t \notin Leaving'
    BY <1>m, <2>1
  <2>4. c = c' + 1 /\ o' = o /\ n' = n /\ l = l' + 1 /\ r' = r
    BY <1>d, <2>3 DEF Tally
  <2>5. L' + c' = L + c /\ L' + l' = L + l
    BY <1>s, <1>t, <2>2, <2>4
  <2>6. Exits' = Exits /\ D' = D /\ generations' = generations
    BY <1>x, <2>1, <2>4 DEF Exits
  <2>7. /\ A' = nIn' + Count * (generations' + o') /\ A' = L' + c'
        /\ Count * r' <= nIn' /\ nIn' < Count * r' + Count
    BY <1>e, <1>f, <2>1, <2>2, <2>4, <2>5
  <2> QED
    BY <1>g, <1>h, <2>4, <2>5, <2>6, <2>7
<1> QED
  BY <1>1, <1>2, <1>3, <1>4, <1>5, <1>6, <1>7, <1>8, <1>9, <1>10, <1>11, <1>12,
     <1>13 DEF Step

(* One step keeps the whole invariant.                                     *)
LEMMA Inductive ==
  ASSUME IInv, [Next]_vars
  PROVE  IInv'
<1>1. ASSUME NEW t \in Threads, Wait(t) \/ Step(t) \/ Failed(t) PROVE IInv'
  <2>1. Placing
    BY DEF IInv
  <2>2. Types'
    BY <1>1, <2>1, BatchIsThere, TypesInductive
  <2>3. CallPlace'
    BY <1>1, <2>1, <2>2, CallPlaceInductive
  <2>4. GenerationSeen'
    BY <1>1, <2>1, <2>2, GenerationInductive
  <2>5. PassAlone'
    BY <1>1, <2>1, <2>2, PassInductive
  <2>6. Counting'
    BY <1>1, <2>2, CountingInductive
  <2> QED
    BY <2>2, <2>3, <2>4, <2>5, <2>6 DEF IInv, Placing
<1>2. CASE UNCHANGED vars
  <2>1. Placing'
    BY <1>2 DEF vars, IInv, Placing, Types, CallPlace, GenerationSeen, PassAlone, InCall
  <2>2. Counting'
    BY <1>2 DEF vars, IInv, Counting, TicketsExact, ExitsBounded, CallsExact, Batches,
       Exits, Total, Counted, InCall, Reopening, Opened, Cleared, Leaving
  <2> QED
    BY <2>1, <2>2 DEF IInv
<1> QED
  BY <1>1, <1>2 DEF Next

(* A barrier nobody has come to satisfies the invariant.                   *)
LEMMA InitIInv == Init => IInv
<1> SUFFICES ASSUME Init PROVE IInv
  OBVIOUS
<1> USE CountAssumption, CallsAssumption DEF Init
<1>1. Placing
  <2>1. Types
    <3>1. 0 \in 0 .. MaxCalls /\ FALSE \in BOOLEAN /\ "idle" \in Locations
      BY DEF Locations
    <3> QED
      BY <3>1 DEF Types
  <2>2. CallPlace
    BY DEF CallPlace, InCall
  <2>3. GenerationSeen
    BY DEF GenerationSeen
  <2>4. PassAlone
    BY DEF PassAlone
  <2> QED
    BY <2>1, <2>2, <2>3, <2>4 DEF Placing
<1>2. Counted(calls) = {} /\ Counted(returns) = {}
  BY DEF Counted
<1>3. InCall = {} /\ Reopening = {} /\ Opened = {} /\ Cleared = {} /\ Leaving = {}
  BY DEF InCall, Reopening, Opened, Cleared, Leaving
<1>4. Total(calls) = 0 /\ Total(returns) = 0
  BY <1>2, FS_EmptySet DEF Total
<1>5. /\ Cardinality(InCall) = 0 /\ Cardinality(Reopening) = 0
      /\ Cardinality(Opened) = 0 /\ Cardinality(Cleared) = 0
      /\ Cardinality(Leaving) = 0
  BY <1>3, FS_EmptySet
<1>6. TicketsExact
  BY <1>4, <1>5 DEF TicketsExact
<1>7. ExitsBounded /\ CallsExact
  BY <1>4, <1>5 DEF ExitsBounded, CallsExact, Batches
<1> QED
  BY <1>1, <1>6, <1>7 DEF IInv, Counting

(* Returns are covered by the cleared batches, and those by the tickets.   *)
LEMMA BatchesPaid ==
  ASSUME IInv
  PROVE  /\ Total(returns) \in Nat /\ Total(calls) \in Nat /\ Batches \in Nat
         /\ generations <= Batches
         /\ Total(returns) <= Count * Batches
         /\ nIn + Count * Batches <= Total(calls)
<1>1. /\ Cardinality(Cleared) \in Nat /\ Cardinality(Opened) \in Nat
      /\ Cardinality(Leaving) \in Nat /\ Cardinality(Cleared) <= Cardinality(Opened)
  <2>1. /\ Cleared \in SUBSET Threads /\ Opened \in SUBSET Threads
        /\ Leaving \in SUBSET Threads
    BY DEF Cleared, Opened, Leaving
  <2>2. Cleared \in SUBSET Opened
    BY DEF IInv, Placing, CallPlace, Cleared, Opened
  <2> QED
    BY <2>1, <2>2, SetCount, FS_Subset
<1>2. /\ Total(returns) \in Nat /\ Total(calls) \in Nat /\ generations \in Nat
      /\ nIn \in Nat /\ nOut \in Nat /\ Count \in Nat \ {0}
  BY CountedFinite, CountAssumption DEF IInv, Placing, Types
<1>3. Batches \in Nat /\ generations <= Batches
  BY <1>1, <1>2 DEF Batches
<1>4. Total(returns) <= Count * Batches
  <2>1. CASE Batches = 0
    BY <1>1, <1>2, <2>1 DEF IInv, Counting, ExitsBounded
  <2>2. CASE Batches > 0
    <3> DEFINE m == Count - 1
               k == Batches - 1
    <3>1. m \in Nat /\ k \in Nat /\ Batches = k + 1 /\ Count = m + 1
      BY <1>2, <1>3, <2>2
    <3>2. Total(returns) <= generations + m * k + m
      <4>1. Exits <= m /\ Exits \in Int
        BY <1>2 DEF Exits
      <4>2. Total(returns) + Cardinality(Leaving) <= generations + m * k + Exits
        BY <2>2 DEF IInv, Counting, ExitsBounded
      <4>3. m * k \in Nat
        BY <3>1, TimesNext
      <4> HIDE DEF m, k
      <4> QED
        BY <1>1, <1>2, <3>1, <4>1, <4>2, <4>3
    <3> HIDE DEF m, k
    <3>3. m * (k + 1) = m * k + m /\ m * (k + 1) \in Nat
      BY <3>1, TimesNext
    <3>4. (k + 1) * (m + 1) = (k + 1) * m + (k + 1)
      BY <3>1, TimesNext
    <3>5. Count * Batches = m * (k + 1) + Batches
      BY <3>1, <3>4
    <3> QED
      BY <1>2, <1>3, <3>1, <3>2, <3>3, <3>5
  <2> QED
    BY <1>3, <2>1, <2>2
<1>5. nIn + Count * Batches <= Total(calls)
  <2>1. Total(calls) = nIn + Count * (generations + Cardinality(Opened))
    BY DEF IInv, Counting, TicketsExact
  <2>2. Batches <= generations + Cardinality(Opened)
    BY <1>1, <1>2 DEF Batches
  <2>3. Count * Batches <= Count * (generations + Cardinality(Opened))
    BY <1>1, <1>2, <1>3, <2>2, TimesMonotone
  <2>4. Count * Batches \in Nat /\ Count * (generations + Cardinality(Opened)) \in Nat
    BY <1>1, <1>2, <1>3, TimesNext
  <2> QED
    BY <1>2, <2>1, <2>3, <2>4
<1> QED
  BY <1>2, <1>3, <1>4, <1>5

(* The strengthened invariant holds in every reachable state.              *)
THEOREM Invariance == Spec => []IInv
BY InitIInv, Inductive, PTL DEF Spec

(* The words of barrier_data and the locals of _wait keep their types; in  *)
(* particular nIn never counts more than the threads there are, which      *)
(* needs the whole argument: it is what is left of the calls that have not *)
(* returned.                                                               *)
THEOREM TypeCorrect == Spec => []TypeOK
<1>1. IInv => TypeOK
  <2> SUFFICES ASSUME IInv PROVE TypeOK
    OBVIOUS
  <2>1. Types
    BY DEF IInv, Placing
  <2>2. Total(calls) = Total(returns) + Cardinality(InCall)
    BY DEF IInv, Counting, CallsExact
  <2>3. /\ Cardinality(InCall) \in Nat /\ Cardinality(Threads) \in Nat
        /\ Cardinality(InCall) <= Cardinality(Threads)
    <3>1. InCall \in SUBSET Threads
      BY DEF InCall
    <3> QED
      BY <3>1, SetCount
  <2>4. Count * Batches \in Nat
    BY BatchesPaid, TimesNext, CountAssumption
  <2>5. nIn \in 0 .. Cardinality(Threads)
    BY <2>1, <2>2, <2>3, <2>4, BatchesPaid DEF Types
  <2> QED
    BY <2>1, <2>5 DEF Types, TypeOK
<1> QED
  BY <1>1, Invariance, PTL

(* No call of _wait returns before its batch is complete: the calls that   *)
(* have returned never exceed the calls of complete batches.               *)
THEOREM NobodyEarly == Spec => []NoEarlyReturn
<1>1. IInv => NoEarlyReturn
  <2> SUFFICES ASSUME IInv PROVE NoEarlyReturn
    OBVIOUS
  <2>1. nIn \in Nat /\ Count \in Nat \ {0}
    BY CountAssumption DEF IInv, Placing, Types
  <2>2. Count * Batches \in Nat
    BY <2>1, BatchesPaid, TimesNext
  <2>3. Count * Batches <= Total(calls)
    BY <2>1, <2>2, BatchesPaid
  <2>4. Batches <= Total(calls) \div Count
    BY <2>1, <2>3, BatchesPaid, Quotient
  <2>5. Total(calls) \div Count \in Nat
    BY <2>1, BatchesPaid, DivMod
  <2>6. Count * Batches <= Count * (Total(calls) \div Count)
    BY <2>1, <2>4, <2>5, BatchesPaid, TimesMonotone
  <2>7. Count * (Total(calls) \div Count) \in Nat
    BY <2>1, <2>5, TimesNext
  <2> QED
    BY <2>2, <2>6, <2>7, BatchesPaid DEF NoEarlyReturn
<1> QED
  BY <1>1, Invariance, PTL

(* A complete batch lets a thread pass once, however quickly it comes back *)
(* and however old the generation is that it has read.                     *)
THEOREM PassesOnce == Spec => []OncePerBatch
<1>1. IInv => OncePerBatch
  <2> SUFFICES ASSUME IInv, NEW t \in Threads
               PROVE  returns[t] <= Total(calls) \div Count
    BY DEF OncePerBatch
  <2>1. /\ nIn \in Nat /\ Count \in Nat \ {0} /\ generations \in Nat
        /\ returns[t] \in Nat /\ returns[t] <= generations
    BY CountAssumption, CallsAssumption DEF IInv, Placing, Types, GenerationSeen
  <2>2. Count * Batches \in Nat
    BY <2>1, BatchesPaid, TimesNext
  <2>3. Count * Batches <= Total(calls)
    BY <2>1, <2>2, BatchesPaid
  <2>4. Batches <= Total(calls) \div Count
    BY <2>1, <2>3, BatchesPaid, Quotient
  <2>5. Total(calls) \div Count \in Nat
    BY <2>1, BatchesPaid, DivMod
  <2> QED
    BY <2>1, <2>4, <2>5, BatchesPaid
<1> QED
  BY <1>1, Invariance, PTL

=============================================================================
