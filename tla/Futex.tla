------------------------------- MODULE Futex -------------------------------
(***************************************************************************)
(* The wait queue behind the runtime's sprt_qlock_* wrappers.  The kernel  *)
(* itself is external; what is modelled is how the primitives of           *)
(* sprt/runtime/thread use it:                                             *)
(*                                                                         *)
(*   - a wait compares the word with the expected value and queues the     *)
(*     thread in one atomic step, or fails at once with EAGAIN;            *)
(*   - wake_one removes one queued thread, any of them, and does nothing   *)
(*     when none is queued; wake_all removes every one of them.            *)
(*                                                                         *)
(* A module that uses a futex word keeps a program counter per thread in   *)
(* which "asleep" means queued in the kernel and "woken" means that the    *)
(* wait call has returned, with 0 or with EAGAIN: every caller treats the  *)
(* two alike.                                                              *)
(***************************************************************************)

(* Threads queued on the word.                                             *)
Sleepers(pc) == {t \in DOMAIN pc : pc[t] = "asleep"}

(* The program counters after thread t waits for the word to change from   *)
(* `expected`.                                                             *)
sprt_qlock_wait(pc, t, word, expected) ==
  [pc EXCEPT ![t] = IF word = expected THEN "asleep" ELSE "woken"]

(* The possible program counters after waking at most one thread.          *)
sprt_qlock_wake_one(pc) ==
  IF Sleepers(pc) = {} THEN {pc}
                       ELSE {[pc EXCEPT ![t] = "woken"] : t \in Sleepers(pc)}

(* The program counters after waking every thread.                         *)
sprt_qlock_wake_all(pc) ==
  [t \in DOMAIN pc |-> IF pc[t] = "asleep" THEN "woken" ELSE pc[t]]

=============================================================================
