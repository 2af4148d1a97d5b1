------------------------------ MODULE MCWait4 ------------------------------
(* TLC instances of Wait4. *)
EXTENDS Wait4, TLC

\* a plain wait, a poll, and a wait that also asks for stops; WCONTINUED is
\* treated as WUNTRACED is
MCOptions == {{}, {"nohang"}, {"stopped"}}
=============================================================================
