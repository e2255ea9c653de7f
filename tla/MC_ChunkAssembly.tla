-------------------------- MODULE MC_ChunkAssembly --------------------------
(* ChunkAssembly with short arrays and few chunks. *)
EXTENDS ChunkAssembly

(* An unknown array, and elements of one and of two bytes. *)
Sizes == {-1, 1, 2}
=============================================================================
