------------------------------ MODULE ProcLife ------------------------------
(***************************************************************************)
(* What posix_spawn, exit and wait4 rely on in ksurface, without locks,    *)
(* references, threads and hosts: a process is entered in the table once,  *)
(* gets one parent for good or is refused, leaves its parent before it     *)
(* leaves the table, and does not come back; it is a zombie only after its *)
(* contract, and with a status for every parent that can still ask.        *)
(* ProcTree implements it.                                                 *)
(***************************************************************************)
CONSTANTS
  Proc,     \* the processes
  Kernel,   \* kernel_proc_
  None      \* no process

VARIABLES
  stage,    \* how far a process has come
  parent,   \* its parent, while it is one's child
  status,   \* the processes whose exit status is recorded
  zombie    \* the zombies

vars == <<stage, parent, status, zombie>>

Stage == {"none", "loose", "child", "left", "gone"}

Init ==
  /\ stage = [p \in Proc |-> "none"]
  /\ parent = [p \in Proc |-> None]
  /\ status = {} /\ zombie = {}

Present(q) ==
  \/ q = Kernel
  \/ q \in Proc /\ stage[q] \in {"loose", "child", "left"}

Move(p, from, to) == stage[p] \in from /\ stage' = [stage EXCEPT ![p] = to]

\* proc_insert
Enter(p) ==
  /\ Move(p, {"none"}, "loose")
  /\ UNCHANGED <<parent, status, zombie>>

\* proc_insert or the contract is refused
Refuse(p) ==
  /\ Move(p, {"none", "loose"}, "gone")
  /\ UNCHANGED <<parent, status, zombie>>

\* the contract, with the kernel or a process whose own spawn is over; so
\* parents are older than their children
Adopt(p, q) ==
  /\ q # Kernel => stage[q] \in {"child", "left", "gone"}
  /\ Move(p, {"loose"}, "child")
  /\ parent' = [parent EXCEPT ![p] = q]
  /\ UNCHANGED <<status, zombie>>

\* proc_state_change
Record(p) ==
  /\ Present(parent[p])
  /\ status' = status \cup {p}
  /\ UNCHANGED <<stage, parent, zombie>>

\* proc_zombify
Zombify(p) ==
  /\ stage[p] \in {"child", "left", "gone"}
  /\ p \in status \/ ~Present(parent[p])
  /\ zombie' = zombie \cup {p}
  /\ UNCHANGED <<stage, parent, status>>

\* proc_reap ends the contract
Leave(p) ==
  /\ Move(p, {"child"}, "left")
  /\ parent' = [parent EXCEPT ![p] = None]
  /\ UNCHANGED <<status, zombie>>

\* and removes the process from the table
Vanish(p) ==
  /\ Move(p, {"left"}, "gone")
  /\ UNCHANGED <<parent, status, zombie>>

Next ==
  \E p \in Proc :
    \/ Enter(p) \/ Refuse(p) \/ \E q \in Proc \cup {Kernel} : Adopt(p, q)
    \/ Record(p) \/ Zombify(p) \/ Leave(p) \/ Vanish(p)

Spec == Init /\ [][Next]_vars
=============================================================================
