----------------------------- MODULE ExitReport -----------------------------
(***************************************************************************)
(* What a parent is promised about the exits of its children, with every   *)
(* death, claim and report atomic: the specification Wait4 implements.     *)
(* Locks, scans, events and reap threads are not seen here.                *)
(***************************************************************************)
EXTENDS Sequences

CONSTANTS Child, Waiter, None

VARIABLES
  fate,      \* child -> "none", or how it ended
  reports,   \* child -> the exit statuses its parent has been given
  claim,     \* waiter -> the dead child it is bound to report
  spoiled,   \* children whose exit status a late signal has overwritten
  gone       \* children the parent cannot find any more

vars == <<fate, reports, claim, spoiled, gone>>

\* an exit code, SIGKILL or another signal
Ends == {"exited", "killed", "signaled"}

Dead(c) == fate[c] \in Ends

Init ==
  /\ fate = [c \in Child |-> "none"]
  /\ reports = [c \in Child |-> <<>>]
  /\ claim = [w \in Waiter |-> None]
  /\ spoiled = {} /\ gone = {}

\* a child ends, once
Die(c) ==
  /\ fate[c] = "none"
  /\ \E k \in Ends : fate' = [fate EXCEPT ![c] = k]
  /\ UNCHANGED <<reports, claim, spoiled, gone>>

\* a stop or continue that was under way when the child ended
Spoil(c) ==
  /\ Dead(c)
  /\ spoiled' = spoiled \cup {c}
  /\ UNCHANGED <<fate, reports, claim, gone>>

\* a caller of wait4 undertakes to reap a dead child and to report it
Undertake(w, c) ==
  /\ claim[w] = None /\ Dead(c)
  /\ claim' = [claim EXCEPT ![w] = c]
  /\ UNCHANGED <<fate, reports, spoiled, gone>>

\* The first report tells an exit code from a death by a signal, but not which
\* signal; any further one finds the status cleared and reads as an exit with
\* code 0.
FirstWord(c) == IF fate[c] = "exited" THEN "exited" ELSE "killed"

Report(c) ==
  /\ Dead(c)
  /\ \E s \in {"exited", "killed", "zero"} :
       /\ c \notin spoiled => s = IF reports[c] = <<>> THEN FirstWord(c) ELSE "zero"
       /\ reports' = [reports EXCEPT ![c] = Append(@, s)]
  /\ UNCHANGED <<fate, spoiled, gone>>

\* to a caller that slept, by whoever delivers the exit
Notify(c) == Report(c) /\ UNCHANGED claim

\* by the caller that undertook it
Settle(w) ==
  /\ claim[w] # None
  /\ Report(claim[w])
  /\ claim' = [claim EXCEPT ![w] = None]

\* out of the parent's array, out of the process table
Forget(c) ==
  /\ reports[c] # <<>> \/ \E w \in Waiter : claim[w] = c
  /\ gone' = gone \cup {c}
  /\ UNCHANGED <<fate, reports, claim, spoiled>>

Next ==
  \/ \E c \in Child : Die(c) \/ Spoil(c) \/ Notify(c) \/ Forget(c)
  \/ \E w \in Waiter : Settle(w) \/ \E c \in Child : Undertake(w, c)

Spec == Init /\ [][Next]_vars
=============================================================================
