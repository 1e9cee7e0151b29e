---------------------------- MODULE MCMemoryCache ----------------------------
(* Instances of MemoryCache for TLC. *)
EXTENDS MemoryCache, TLC

\* Keys and slots are interchangeable.
Symmetry == Permutations(Keys) \cup Permutations(Slots)
=============================================================================
