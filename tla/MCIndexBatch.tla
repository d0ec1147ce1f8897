----------------------------- MODULE MCIndexBatch -----------------------------
(* Instances of IndexBatch for TLC. *)
EXTENDS IndexBatch, TLC

Symmetry == Permutations(Shard) \union Permutations(Task)
=============================================================================
