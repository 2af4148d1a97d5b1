-------------------------- MODULE MCLaunchService --------------------------
(* LaunchService for TLC: the members of Inst and Svc are interchangeable,  *)
(* but OrphansDie is a liveness property, so no symmetry is declared.       *)
EXTENDS LaunchService
=============================================================================
