------------------------------ MODULE MCRuntime ------------------------------
(* Model values for the scheduler: tasks and workers are interchangeable.  *)
EXTENDS Runtime, TLC

Symmetry == Permutations(Task) \cup Permutations(Worker)
=============================================================================
