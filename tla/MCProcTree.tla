----------------------------- MODULE MCProcTree -----------------------------
(* TLC instances of ProcTree. *)
EXTENDS ProcTree, TLC

Symmetry == Permutations(Thread) \cup Permutations(Proc)
=============================================================================
