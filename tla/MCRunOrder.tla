----------------------------- MODULE MCRunOrder -----------------------------
(* A small instance of RunOrder for TLC. *)
EXTENDS RunOrder

CONSTANTS k1, p1

(* One task with a thread of the pool to steal and to be handed workers, or *)
(* all tasks when no thread of the pool can be created.                     *)
MCPrograms ==
  {[tasks |-> {k1}, pool |-> {p1}], [tasks |-> Tasks, pool |-> {}]}
=============================================================================
