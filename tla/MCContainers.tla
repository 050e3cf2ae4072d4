---------------------------- MODULE MCContainers ----------------------------
(***************************************************************************)
(* Containers for TLC.  Two Containers with the same or with different     *)
(* ids, and three starts: two that overlap and one that reuses the id.     *)
(***************************************************************************)
EXTENDS Containers, TLC

Symmetric == Permutations(Ids) \cup Permutations(Conts) \cup Permutations(Starts)
=============================================================================
