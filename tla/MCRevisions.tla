----------------------------- MODULE MCRevisions -----------------------------
(* Small instances of Revisions for TLC. *)
EXTENDS Revisions, TLC

Symmetry == Permutations(Txns) \cup Permutations(Entities) \cup Permutations(Values)
=============================================================================
