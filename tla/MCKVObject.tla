----------------------------- MODULE MCKVObject -----------------------------
(* TLC instances of KVObject. *)
EXTENDS KVObject, TLC

Symmetry == Permutations(Thread) \cup Permutations(Ref)
=============================================================================
