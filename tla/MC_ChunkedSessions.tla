------------------------ MODULE MC_ChunkedSessions ------------------------
(* ChunkedSessions with a few sessions and handler threads. *)
EXTENDS ChunkedSessions, TLC

Symmetry == Permutations(Uploads) \cup Permutations(Downloads) \cup Permutations(Handlers)
=============================================================================
