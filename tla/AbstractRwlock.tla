--------------------------- MODULE AbstractRwlock ---------------------------
(***************************************************************************)
(* What a readers-writer lock promises: a writer enters only when nobody   *)
(* is inside, a reader only when no writer is.                             *)
(***************************************************************************)
CONSTANT Threads

VARIABLES readers, writers    \* the threads that hold the lock, by mode

Init == readers = {} /\ writers = {}

Enter(t) ==
  /\ writers = {}
  /\ \/ readers' = readers \cup {t} /\ UNCHANGED writers
     \/ readers = {} /\ writers' = {t} /\ UNCHANGED readers

Leave(t) ==
  \/ t \in readers /\ readers' = readers \ {t} /\ UNCHANGED writers
  \/ t \in writers /\ writers' = writers \ {t} /\ UNCHANGED readers

Next == \E t \in Threads : Enter(t) \/ Leave(t)

Spec == Init /\ [][Next]_<<readers, writers>>

=============================================================================
