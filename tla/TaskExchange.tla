---------------------------- MODULE TaskExchange ----------------------------
(***************************************************************************)
(* What guests and callers are promised about a process's task port, with  *)
(* every handoff, question and answer atomic: one attempt ever to hand it  *)
(* over, one answer to each question, and nobody waits at the end of the   *)
(* process.  TaskPort implements it; its workers, locks, references, traps *)
(* and timeouts are not seen here.                                         *)
(***************************************************************************)
CONSTANTS Guest, Caller, None

VARIABLES
  open,      \* no handoff has been begun
  giving,    \* the guest thread whose handoff is under way
  rights,    \* the send rights the host holds
  port,      \* the port that is stored
  asking,    \* callers with a question to which there is no answer yet
  waiting,   \* callers that are to be answered later
  told,      \* caller -> the last answer
  found,     \* the process can be found
  ended      \* and is over

exchange == <<open, giving, rights, port>>
life == <<found, ended>>
vars == <<exchange, asking, waiting, told, life>>

Init ==
  /\ open = TRUE /\ giving = {} /\ rights = {} /\ port = None
  /\ asking = {} /\ waiting = {} /\ told = [c \in Caller |-> "none"]
  /\ found = TRUE /\ ended = FALSE

\* A handoff begins; there is no second one, even if it fails.
Begin(g) ==
  /\ open /\ ~ended
  /\ open' = FALSE /\ giving' = {g}
  /\ UNCHANGED <<rights, port, asking, waiting, told, life>>

Take(g) ==
  /\ giving = {g} /\ rights = {}
  /\ rights' = {g}
  /\ UNCHANGED <<open, giving, port, asking, waiting, told, life>>

GiveUp(g) ==
  /\ giving = {g}
  /\ giving' = {} /\ rights' = {}
  /\ UNCHANGED <<open, port, asking, waiting, told, life>>

Deliver(g) ==
  /\ giving = {g} /\ rights = {g} /\ port = None
  /\ giving' = {} /\ port' = g
  /\ UNCHANGED <<open, rights, asking, waiting, told, life>>

\* everybody who waits is answered
AnswerAll ==
  /\ waiting' = {}
  /\ told' = [c \in Caller |-> IF c \in waiting THEN "ready" ELSE told[c]]

Announce ==
  /\ port # None /\ ~ended
  /\ AnswerAll
  /\ UNCHANGED <<exchange, asking, life>>

\* A caller asks about a process that can be found, ...
Ask(c) ==
  /\ found /\ c \notin asking \cup waiting
  /\ asking' = asking \cup {c} /\ told' = [told EXCEPT ![c] = "none"]
  /\ UNCHANGED <<exchange, waiting, life>>

\* ... and is refused ...
Refuse(c) ==
  /\ c \notin waiting /\ (found => c \in asking)
  /\ asking' = asking \ {c} /\ told' = [told EXCEPT ![c] = "error"]
  /\ UNCHANGED <<exchange, waiting, life>>

\* ... told that the port is there ...
Confirm(c) ==
  /\ c \in asking /\ port # None
  /\ asking' = asking \ {c} /\ told' = [told EXCEPT ![c] = "ready"]
  /\ UNCHANGED <<exchange, waiting, life>>

\* ... or made to wait.
Wait(c) ==
  /\ c \in asking /\ told[c] = "none"
  /\ asking' = asking \ {c} /\ waiting' = waiting \cup {c}
  /\ UNCHANGED <<exchange, told, life>>

Lose ==
  /\ found' = FALSE
  /\ UNCHANGED <<exchange, asking, waiting, told, ended>>

\* The end comes once, with no handoff and no question open; it answers those
\* who wait and lets the port go.
End ==
  /\ ~ended /\ giving = {} /\ asking = {}
  /\ found' = FALSE /\ ended' = TRUE
  /\ rights' = {} /\ AnswerAll
  /\ UNCHANGED <<open, giving, port, asking>>

Next ==
  \/ \E g \in Guest : Begin(g) \/ Take(g) \/ GiveUp(g) \/ Deliver(g)
  \/ \E c \in Caller : Ask(c) \/ Refuse(c) \/ Confirm(c) \/ Wait(c)
  \/ Announce \/ Lose \/ End

Spec == Init /\ [][Next]_vars
=============================================================================
