----------------------------- MODULE RefObject -----------------------------
(***************************************************************************)
(* What ksurface's reference-counted objects promise their users, with     *)
(* every operation atomic: the specification KVObject implements.          *)
(* Users see references, never the counter.                                *)
(***************************************************************************)
CONSTANTS Ref, Holder, Nobody

VARIABLES
  holder,   \* who holds each reference
  valid,    \* the object can still be retained
  alive     \* its memory is allocated

vars == <<holder, valid, alive>>

InUse == {r \in Ref : holder[r] # Nobody}

\* An object is born with one reference, the creator's.
Init ==
  /\ valid = TRUE /\ alive = TRUE
  /\ \E r \in Ref, h \in Holder :
       holder = [x \in Ref |-> IF x = r THEN h ELSE Nobody]

\* kvobject_retain: only from a valid object that somebody keeps alive
Acquire(r, h) ==
  /\ alive /\ valid /\ InUse # {}
  /\ holder[r] = Nobody
  /\ holder' = [holder EXCEPT ![r] = h]
  /\ UNCHANGED <<valid, alive>>

\* a reference changes hands (into the process table, out of it)
Give(r, h) ==
  /\ holder[r] # Nobody
  /\ holder' = [holder EXCEPT ![r] = h]
  /\ UNCHANGED <<valid, alive>>

\* kvobject_release
Drop(r) ==
  /\ holder[r] # Nobody
  /\ holder' = [holder EXCEPT ![r] = Nobody]
  /\ UNCHANGED <<valid, alive>>

\* kvobject_invalidate, by a holder
Invalidate ==
  /\ alive /\ InUse # {}
  /\ valid' = FALSE
  /\ UNCHANGED <<holder, alive>>

\* the memory goes away, once, after the last reference
Die ==
  /\ alive /\ InUse = {}
  /\ alive' = FALSE
  /\ UNCHANGED <<holder, valid>>

Next ==
  \/ \E r \in Ref, h \in Holder : Acquire(r, h) \/ Give(r, h)
  \/ \E r \in Ref : Drop(r)
  \/ Invalidate
  \/ Die

Spec == Init /\ [][Next]_vars
=============================================================================
