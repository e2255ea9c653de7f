-------------------------- MODULE MC_JobLifecycle --------------------------
(* JobLifecycle with small sets of workers, jobs and slots. *)
EXTENDS JobLifecycle, TLC

(* All jobs are of one kind; workers and job ids are interchangeable. *)
Symmetry == Permutations(Jobs) \cup Permutations(Workers)
============================================================================
