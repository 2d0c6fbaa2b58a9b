------------------------------ MODULE MCShortIds ------------------------------
(* Small instances of ShortIds for TLC. *)
EXTENDS ShortIds, TLC

(* Every project and type hashes to a key of its own. *)
Keys == Projects \X Types
DistinctKeys == [s \in Keys |-> s]

Symmetry == Permutations(Txns) \cup Permutations(Entities) \cup Permutations(Projects)
=============================================================================
