----------------------------- MODULE MCTaskPort -----------------------------
(* TaskPort for TLC: two threads of the child, two of its parent.            *)
EXTENDS TaskPort
=============================================================================
