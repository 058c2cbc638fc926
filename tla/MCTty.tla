------------------------------- MODULE MCTty -------------------------------
(***************************************************************************)
(* Tty on a small instance.  Every history ends when MaxTyped characters   *)
(* have arrived; the task may still be reading then.                       *)
(***************************************************************************)
EXTENDS Tty, TLC

CONSTANTS a, b

Symmetric == Permutations({a, b})
=============================================================================
