---------------------------- MODULE MCBatchCreate ----------------------------
(* Small instances of BatchCreate for TLC. *)
EXTENDS BatchCreate, TLC

Symmetry == Permutations(Requests) \cup Permutations(Ids)
=============================================================================
