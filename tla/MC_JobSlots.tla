---------------------------- MODULE MC_JobSlots ----------------------------
(* JobSlots with small sets of threads, processes, jobs and slots. *)
EXTENDS JobSlots, TLC

(* Handler threads, pids of one kind and job ids are interchangeable. *)
Symmetry ==
    Permutations(Submitters) \cup Permutations(Jobs)
      \cup Permutations(FirstWorkers) \cup Permutations(Workers \ FirstWorkers)
============================================================================
