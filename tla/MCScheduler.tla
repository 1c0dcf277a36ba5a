----------------------------- MODULE MCScheduler -----------------------------
(* Small instances of Scheduler for TLC. *)
EXTENDS Scheduler, RandomIter, TLC

Symmetry ==
  Permutations(Users) \cup Permutations(Pool) \cup Permutations(Tasks)

(* The RandomIterSource that a new executor makes for its workers: the     *)
(* gen_iter by which a search goes through them leaves out no worker and   *)
(* visits none twice, for every number of workers up to a bound and from   *)
(* every start.                                                            *)
MaxRange == 16
VictimsVisitedOnce == Init => \A range \in 1 .. MaxRange : VisitsAll(range)
=============================================================================
