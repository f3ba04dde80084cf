----------------------------- MODULE MCTaskQueue -----------------------------
(* Tasks and their makers for model checking TaskQueue.                    *)
EXTENDS TaskQueue

CONSTANTS p1, p2

(* Each thread makes one task, or one thread makes all.                    *)
OneEach == (p1 :> {1}) @@ (p2 :> {2})
AllByOne == p1 :> Tasks

(* The workers are interchangeable.                                        *)
WorkersAlike == Permutations(Workers)

Alike == [t \in Tasks |-> 1]
Distinct == [t \in Tasks |-> t]

=============================================================================
