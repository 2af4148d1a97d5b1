--------------------------- MODULE KVObject_proofs ---------------------------
(***************************************************************************)
(* Proofs about KVObject, for any set of threads and any finite set of     *)
(* references.                                                             *)
(***************************************************************************)
EXTENDS KVObject, FiniteSetTheorems, TLAPS

(***************************************************************************)
(* The inductive invariant.  The operation a thread is in fixes the table  *)
(* lock it holds (Locks), the token of a retain or release is its own      *)
(* (Tokens), the slot is one reference of the table (Slot), every access   *)
(* happens under some reference that cannot go away meanwhile (Guards),    *)
(* and the thread that took the count to zero is alone (Death).            *)
(***************************************************************************)
Retaining == {"load", "check", "cas", "recheck"}

Points ==
  \A t \in Thread :
    /\ pc[t] \in {"idle", "write"} => op[t] = "none"
    /\ pc[t] \in {"insCheck", "insPut"} => op[t] = "insert"
    /\ pc[t] = "find" => op[t] = "lookup"
    /\ pc[t] \in {"take", "invTrigger", "invStore"} => op[t] = "remove"
    /\ pc[t] \in {"snapLock", "snapCopy", "strayUnlock"} => op[t] \in SnapOps
    /\ pc[t] \in Retaining => op[t] \in {"lookup", "dup", "insert"} \cup SnapOps
    /\ pc[t] = "tabUnlock" => op[t] \in {"lookup", "insert", "remove"}
    /\ pc[t] # "panic"

Locks ==
  /\ tabW # Nobody => tabR = {}
  /\ \A t \in Thread : op[t] \in {"insert", "remove"} <=> tabW = t
  /\ \A t \in Thread : op[t] = "lookup" <=> t \in tabR

Tokens ==
  \A t \in Thread :
    /\ pc[t] \in {"insCheck", "find", "load", "check", "cas"} =>
         tok[t] \in Ref /\ owner[tok[t]] = Nobody
    /\ pc[t] \in {"recheck", "sub", "insPut", "invTrigger", "invStore"} =>
         tok[t] \in Ref /\ owner[tok[t]] = t
    /\ tok[t] \in Ref => /\ owner[tok[t]] \in {Nobody, t}
                         /\ \A u \in Thread : u # t => tok[u] # tok[t]

Slot ==
  /\ slot <=> \E r \in Ref : owner[r] = Table
  /\ \A r, s \in Ref : owner[r] = Table /\ owner[s] = Table => r = s
  /\ \A t \in Thread :
       op[t] = "insert" /\ pc[t] \notin {"insCheck", "tabUnlock"} => ~slot

Guards ==
  \A t \in Thread :
    /\ op[t] \in {"dup", "insert"} \cup SnapOps =>
         \E r \in Ref : owner[r] = t /\ r # tok[t]
    /\ pc[t] = "write" => Holds(t)
    /\ op[t] = "lookup" /\ pc[t] \in Retaining \cup {"sub"} => slot

Death ==
  /\ \A t \in Thread : pc[t] \in {"deinit", "free"} =>
       /\ \A r \in Ref : owner[r] = Nobody
       /\ mem = "live"
       /\ \A u \in Thread : pc[u] \in {"deinit", "free"} => u = t
  /\ mem = "freed" => \A r \in Ref : owner[r] = Nobody

Shape == TypeOK /\ Points /\ Locks /\ Tokens /\ Slot /\ Guards /\ Death

IInv == Shape /\ RefcountExact

-----------------------------------------------------------------------------
(* Counting                                                                *)

\* Giving a free token an owner adds one to the number of held tokens.
LEMMA HeldGrows ==
  ASSUME TypeOK, NEW r \in Ref, owner[r] = Nobody,
         NEW h \in Thread \cup {Table}, owner' = [owner EXCEPT ![r] = h]
  PROVE  Cardinality(Held') = Cardinality(Held) + 1
<1>1. IsFiniteSet(Held)
  BY FS_Subset, KVObjectAssumption DEF Held
<1>2. Held' = Held \cup {r} /\ r \notin Held
  BY KVObjectAssumption DEF Held, TypeOK
<1> QED BY <1>1, <1>2, FS_AddElement

\* Taking the owner of a held token away subtracts one.
LEMMA HeldShrinks ==
  ASSUME TypeOK, NEW r \in Ref, owner[r] # Nobody,
         owner' = [owner EXCEPT ![r] = Nobody]
  PROVE  Cardinality(Held') = Cardinality(Held) - 1
<1>1. IsFiniteSet(Held)
  BY FS_Subset, KVObjectAssumption DEF Held
<1>2. Held' = Held \ {r} /\ r \in Held
  BY DEF Held, TypeOK
<1> QED BY <1>1, <1>2, FS_RemoveElement

\* The number of held tokens is a natural number, zero only if none is held.
LEMMA HeldCount ==
  ASSUME TypeOK
  PROVE  /\ Cardinality(Held) \in Nat
         /\ Cardinality(Held) = 0 <=> \A r \in Ref : owner[r] = Nobody
<1>1. IsFiniteSet(Held)
  BY FS_Subset, KVObjectAssumption DEF Held
<1> QED BY <1>1, FS_CardinalityType, FS_EmptySet DEF Held

\* The same in the next state.
LEMMA HeldCountNext ==
  ASSUME TypeOK'
  PROVE  /\ Cardinality(Held') \in Nat
         /\ Cardinality(Held') = 0 <=> \A r \in Ref : owner'[r] = Nobody
<1>1. IsFiniteSet(Held')
  BY FS_Subset, KVObjectAssumption DEF Held
<1> QED BY <1>1, FS_CardinalityType, FS_EmptySet DEF Held

\* A thread about to touch the object, other than the one tearing it down,
\* does so while some reference exists.
LEMMA TouchGuarded ==
  ASSUME Shape, NEW t \in Thread, pc[t] \in TouchPC \ {"deinit", "free"}
  PROVE  \E r \in Ref : owner[r] # Nobody
<1>1. CASE op[t] \in {"dup", "insert"} \cup SnapOps
  BY <1>1, KVObjectAssumption DEF Shape, Guards
<1>2. CASE op[t] \in {"lookup", "remove", "none"}
  <2>1. CASE pc[t] \in {"sub", "invTrigger", "invStore", "recheck"}
    BY <2>1, KVObjectAssumption DEF Shape, Tokens
  <2>2. CASE pc[t] = "write"
    BY <2>2, KVObjectAssumption DEF Shape, Guards, Holds
  <2>3. CASE pc[t] \in Retaining /\ op[t] = "lookup"
    BY <2>3, KVObjectAssumption DEF Shape, Guards, Slot
  <2> QED
    BY <1>2, <2>1, <2>2, <2>3
       DEF Shape, Points, TypeOK, PC, TouchPC, RetainPC, ReleasePC, Retaining, SnapOps
<1> QED BY <1>1, <1>2 DEF Shape, TypeOK, Ops

(* The steps                                                               *)

USE KVObjectAssumption

\* Every step preserves the structure of the invariant; three groups of
\* conjuncts per action, one proof each where counting matters.
LEMMA ShapeStep ==
  ASSUME IInv, Next
  PROVE  Shape'
<1> USE DEF IInv, Shape, TypeOK, Points, Locks, Tokens, Slot, Guards, Death,
            Holds, objVars, lockVars, locals, SnapOps, Retaining, Goto
<1>1. ASSUME NEW t \in Thread, Load(t) PROVE Shape'
  <2>1. TypeOK'
    BY <1>1 DEF Load, PC, RetainPC, ReleasePC, Ops
  <2>2. Points' /\ Locks' /\ Tokens'
    BY <1>1 DEF Load
  <2>3. Slot' /\ Guards' /\ Death'
    BY <1>1 DEF Load
  <2> QED BY <2>1, <2>2, <2>3
<1>2. ASSUME NEW t \in Thread, Check(t) PROVE Shape'
  <2>1. TypeOK'
    BY <1>2 DEF Check, Return, AfterRelease, PC, RetainPC, ReleasePC, Ops
  <2>2. Points' /\ Locks' /\ Tokens'
    BY <1>2 DEF Check, Return, AfterRelease
  <2>3. Slot' /\ Guards' /\ Death'
    BY <1>2 DEF Check, Return, AfterRelease
  <2> QED BY <2>1, <2>2, <2>3
<1>3. ASSUME NEW t \in Thread, Cas(t) PROVE Shape'
  <2>1. TypeOK'
    BY <1>3 DEF PC, RetainPC, ReleasePC, Ops, Cas, Goto
  <2>2. Points'
    BY <1>3 DEF Points, Cas, Goto
  <2>3. Locks'
    BY <1>3 DEF Locks, Cas, Goto
  <2>4. Tokens'
    BY <1>3 DEF Tokens, Cas, Goto
  <2>5. Slot'
    BY <1>3 DEF Slot, Cas, Goto, Tokens
  <2>6. Guards'
    BY <1>3 DEF Guards, Cas, Goto, Tokens
  <2>7. Death'
    <3>1. \E r \in Ref : owner[r] # Nobody
      BY <1>3, TouchGuarded DEF Cas, PC, TouchPC, RetainPC
    <3> QED BY <1>3, <3>1 DEF Death, Cas, Goto
  <2> QED BY <2>1, <2>2, <2>3, <2>4, <2>5, <2>6, <2>7 DEF Shape
<1>4. ASSUME NEW t \in Thread, Recheck(t) PROVE Shape'
  <2>1. TypeOK'
    BY <1>4 DEF Recheck, CallRelease, Return, AfterRetained, PC, RetainPC, ReleasePC, Ops
  <2>2. Points' /\ Locks' /\ Tokens'
    BY <1>4 DEF Recheck, CallRelease, Return, AfterRetained
  <2>3. Slot' /\ Guards' /\ Death'
    BY <1>4 DEF Recheck, CallRelease, Return, AfterRetained
  <2> QED BY <2>1, <2>2, <2>3
<1>5. ASSUME NEW t \in Thread, Sub(t) PROVE Shape'
  <2>1. tok[t] \in Ref /\ owner[tok[t]] = t
    BY <1>5 DEF Sub, Tokens
  <2>2. refcount \in Nat /\ refcount # 0
    BY <2>1, HeldCount DEF RefcountExact
  <2>3. TypeOK'
    BY <1>5, <2>1, <2>2 DEF Sub, Return, Goto, AfterRelease, PC, RetainPC, ReleasePC, Ops
  <2>4. refcount' = Cardinality(Held')
    <3>1. owner' = [owner EXCEPT ![tok[t]] = Nobody] /\ refcount' = refcount - 1
      BY <1>5 DEF Sub
    <3> HIDE DEF Points, Locks, Tokens, Slot, Guards, Death
    <3>2. Cardinality(Held') = Cardinality(Held) - 1
      BY <2>1, <3>1, HeldShrinks
    <3> QED BY <3>1, <3>2 DEF RefcountExact
  <2>5. refcount = 1 => \A r \in Ref : owner'[r] = Nobody
    <3>1. Cardinality(Held') = 0 <=> \A r \in Ref : owner'[r] = Nobody
      BY <2>3, HeldCountNext
    <3> QED BY <1>5, <2>2, <2>4, <3>1 DEF Sub
  <2>6. \A u \in Thread : pc[u] \notin {"deinit", "free"}
    BY <2>1 DEF Death
  <2>7. mem = "live"
    BY <2>1 DEF Death
  <2>8. Points'
    BY <1>5, <2>2 DEF Points, Sub, Return, Goto, AfterRelease
  <2>9. Locks'
    BY <1>5 DEF Locks, Points, Sub, Return, Goto, AfterRelease
  <2>10. Tokens'
    BY <1>5 DEF Tokens, Sub, Return, Goto, AfterRelease
  <2>11. Slot'
    BY <1>5, <2>1, <2>2 DEF Slot, Sub, Return, Goto, AfterRelease
  <2>12. Guards'
    BY <1>5, <2>1, <2>2 DEF Guards, Points, Tokens, Sub, Return, Goto, AfterRelease
  <2>13. Death'
    BY <1>5, <2>2, <2>5, <2>6, <2>7 DEF Death, Sub, Return, Goto, AfterRelease
  <2> QED BY <2>3, <2>8, <2>9, <2>10, <2>11, <2>12, <2>13
<1>6. ASSUME NEW t \in Thread, Deinit(t) PROVE Shape'
  <2>1. TypeOK'
    BY <1>6 DEF Deinit, PC, RetainPC, ReleasePC, Ops
  <2>2. Points' /\ Locks' /\ Tokens'
    BY <1>6 DEF Deinit
  <2>3. Slot' /\ Guards' /\ Death'
    BY <1>6 DEF Deinit
  <2> QED BY <2>1, <2>2, <2>3
<1>7. ASSUME NEW t \in Thread, Free(t) PROVE Shape'
  <2>1. TypeOK'
    BY <1>7 DEF Free, Return, AfterRelease, PC, RetainPC, ReleasePC, Ops
  <2>2. Points' /\ Locks' /\ Tokens'
    BY <1>7 DEF Free, Return, AfterRelease
  <2>3. Slot' /\ Guards' /\ Death'
    BY <1>7 DEF Free, Return, AfterRelease
  <2> QED BY <2>1, <2>2, <2>3
<1>8. ASSUME NEW t \in Thread, EndWrite(t) PROVE Shape'
  <2>1. TypeOK'
    BY <1>8 DEF EndWrite, RwUnlock, PC, RetainPC, ReleasePC, Ops
  <2>2. Points' /\ Locks' /\ Tokens'
    BY <1>8 DEF EndWrite, RwUnlock
  <2>3. Slot' /\ Guards' /\ Death'
    BY <1>8 DEF EndWrite, RwUnlock
  <2> QED BY <2>1, <2>2, <2>3
<1>9. ASSUME NEW t \in Thread, SnapLock(t) PROVE Shape'
  <2>1. TypeOK'
    BY <1>9 DEF SnapLock, PC, RetainPC, ReleasePC, Ops
  <2>2. Points' /\ Locks' /\ Tokens'
    BY <1>9 DEF SnapLock
  <2>3. Slot' /\ Guards' /\ Death'
    BY <1>9 DEF SnapLock
  <2> QED BY <2>1, <2>2, <2>3
<1>10. ASSUME NEW t \in Thread, SnapEnd(t) PROVE Shape'
  <2>1. TypeOK'
    BY <1>10 DEF SnapEnd, RwUnlock, Return, CallRelease, PC, RetainPC, ReleasePC, Ops
  <2>2. Points' /\ Locks' /\ Tokens'
    BY <1>10 DEF SnapEnd, RwUnlock, Return, CallRelease
  <2>3. Slot' /\ Guards' /\ Death'
    BY <1>10 DEF SnapEnd, RwUnlock, Return, CallRelease
  <2> QED BY <2>1, <2>2, <2>3
<1>11. ASSUME NEW t \in Thread, TabUnlock(t) PROVE Shape'
  <2>1. TypeOK'
    BY <1>11 DEF TabUnlock, Return, PC, RetainPC, ReleasePC, Ops
  <2>2. Points' /\ Locks' /\ Tokens'
    BY <1>11 DEF TabUnlock, Return
  <2>3. Slot' /\ Guards' /\ Death'
    BY <1>11 DEF TabUnlock, Return
  <2> QED BY <2>1, <2>2, <2>3
<1>12. ASSUME NEW t \in Thread, InsCheck(t) PROVE Shape'
  <2>1. TypeOK'
    BY <1>12 DEF InsCheck, PC, RetainPC, ReleasePC, Ops
  <2>2. Points' /\ Locks' /\ Tokens'
    BY <1>12 DEF InsCheck
  <2>3. Slot' /\ Guards' /\ Death'
    BY <1>12 DEF InsCheck
  <2> QED BY <2>1, <2>2, <2>3
<1>13. ASSUME NEW t \in Thread, InsPut(t) PROVE Shape'
  <2>1. TypeOK'
    <3>1. tok[t] \in Ref
      BY <1>13 DEF InsPut
    <3> HIDE DEF Points, Locks, Tokens, Slot, Guards, Death
    <3>2. owner' \in [Ref -> Thread \cup {Table, Nobody}] /\ slot' \in BOOLEAN
      BY <1>13, <3>1 DEF InsPut
    <3> QED BY <1>13, <3>1, <3>2 DEF InsPut, Return, CallRelease, PC, RetainPC, ReleasePC, Ops
  <2>2. Points' /\ Locks' /\ Tokens'
    BY <1>13 DEF InsPut, Return, CallRelease
  <2>3. Slot' /\ Guards' /\ Death'
    BY <1>13 DEF InsPut, Return, CallRelease
  <2> QED BY <2>1, <2>2, <2>3
<1>14. ASSUME NEW t \in Thread, Find(t) PROVE Shape'
  <2>1. TypeOK'
    BY <1>14 DEF Find, PC, RetainPC, ReleasePC, Ops
  <2>2. Points' /\ Locks' /\ Tokens'
    BY <1>14 DEF Find
  <2>3. Slot' /\ Guards' /\ Death'
    BY <1>14 DEF Find
  <2> QED BY <2>1, <2>2, <2>3
<1>15. ASSUME NEW t \in Thread, Take(t) PROVE Shape'
  <2>1. TypeOK'
    <3> HIDE DEF Points, Locks, Tokens, Slot, Guards, Death
    <3>1. CASE slot
      <4>1. PICK r \in Ref : owner' = [owner EXCEPT ![r] = t] /\ tok' = [tok EXCEPT ![t] = r]
        BY <1>15, <3>1 DEF Take
      <4>2. owner' \in [Ref -> Thread \cup {Table, Nobody}]
        BY <4>1
      <4> QED BY <1>15, <3>1, <4>1, <4>2 DEF Take, PC, RetainPC, ReleasePC, Ops
    <3> QED BY <1>15, <3>1 DEF Take, PC, RetainPC, ReleasePC, Ops
  <2>2. Points'
    BY <1>15 DEF Points, Take, Goto
  <2>3. Locks'
    BY <1>15 DEF Locks, Take, Goto
  <2>4. Tokens'
    BY <1>15 DEF Tokens, Take, Goto
  <2>5. Slot'
    BY <1>15 DEF Slot, Take, Goto
  <2>6. Guards'
    BY <1>15 DEF Guards, Take, Goto, Points, Locks
  <2>7. Death'
    BY <1>15 DEF Death, Take, Goto
  <2> QED BY <2>1, <2>2, <2>3, <2>4, <2>5, <2>6, <2>7 DEF Shape
<1>16. ASSUME NEW t \in Thread, InvTrigger(t) PROVE Shape'
  <2>1. TypeOK'
    BY <1>16 DEF InvTrigger, PC, RetainPC, ReleasePC, Ops
  <2>2. Points' /\ Locks' /\ Tokens'
    BY <1>16 DEF InvTrigger
  <2>3. Slot' /\ Guards' /\ Death'
    BY <1>16 DEF InvTrigger
  <2> QED BY <2>1, <2>2, <2>3
<1>17. ASSUME NEW t \in Thread, InvStore(t) PROVE Shape'
  <2>1. TypeOK'
    BY <1>17 DEF InvStore, CallRelease, PC, RetainPC, ReleasePC, Ops
  <2>2. Points' /\ Locks' /\ Tokens'
    BY <1>17 DEF InvStore, CallRelease
  <2>3. Slot' /\ Guards' /\ Death'
    BY <1>17 DEF InvStore, CallRelease
  <2> QED BY <2>1, <2>2, <2>3
<1>18. ASSUME NEW t \in Thread, Dup(t) PROVE Shape'
  <2>1. TypeOK'
    BY <1>18 DEF Dup, Begin, Spare, PC, RetainPC, ReleasePC, Ops
  <2>2. Points' /\ Locks' /\ Tokens'
    BY <1>18 DEF Dup, Begin, Spare
  <2>3. Slot' /\ Guards' /\ Death'
    BY <1>18 DEF Dup, Begin, Spare
  <2> QED BY <2>1, <2>2, <2>3
<1>19. ASSUME NEW t \in Thread, Drop(t) PROVE Shape'
  <2>1. TypeOK'
    BY <1>19 DEF Drop, CallRelease, PC, RetainPC, ReleasePC, Ops
  <2>2. Points' /\ Locks' /\ Tokens'
    BY <1>19 DEF Drop, CallRelease
  <2>3. Slot' /\ Guards' /\ Death'
    BY <1>19 DEF Drop, CallRelease
  <2> QED BY <2>1, <2>2, <2>3
<1>20. ASSUME NEW t \in Thread, BeginWrite(t) PROVE Shape'
  <2>1. TypeOK'
    BY <1>20 DEF BeginWrite, PC, RetainPC, ReleasePC, Ops
  <2>2. Points' /\ Locks' /\ Tokens'
    BY <1>20 DEF BeginWrite
  <2>3. Slot' /\ Guards' /\ Death'
    BY <1>20 DEF BeginWrite
  <2> QED BY <2>1, <2>2, <2>3
<1>21. ASSUME NEW t \in Thread, BeginSnapshot(t) PROVE Shape'
  <2>1. TypeOK'
    BY <1>21 DEF BeginSnapshot, Begin, Spare, PC, RetainPC, ReleasePC, Ops
  <2>2. Points' /\ Locks' /\ Tokens'
    BY <1>21 DEF BeginSnapshot, Begin, Spare
  <2>3. Slot' /\ Guards' /\ Death'
    BY <1>21 DEF BeginSnapshot, Begin, Spare
  <2> QED BY <2>1, <2>2, <2>3
<1>22. ASSUME NEW t \in Thread, BeginInsert(t) PROVE Shape'
  <2>1. TypeOK'
    BY <1>22 DEF BeginInsert, Begin, Spare, TabWrlock, PC, RetainPC, ReleasePC, Ops
  <2>2. Points' /\ Locks' /\ Tokens'
    BY <1>22 DEF BeginInsert, Begin, Spare, TabWrlock
  <2>3. Slot' /\ Guards' /\ Death'
    BY <1>22 DEF BeginInsert, Begin, Spare, TabWrlock
  <2> QED BY <2>1, <2>2, <2>3
<1>23. ASSUME NEW t \in Thread, BeginLookup(t) PROVE Shape'
  <2>1. TypeOK'
    BY <1>23 DEF BeginLookup, Begin, Spare, PC, RetainPC, ReleasePC, Ops
  <2>2. Points' /\ Locks' /\ Tokens'
    BY <1>23 DEF BeginLookup, Begin, Spare
  <2>3. Slot' /\ Guards' /\ Death'
    BY <1>23 DEF BeginLookup, Begin, Spare
  <2> QED BY <2>1, <2>2, <2>3
<1>24. ASSUME NEW t \in Thread, BeginRemove(t) PROVE Shape'
  <2>1. TypeOK'
    BY <1>24 DEF BeginRemove, TabWrlock, PC, RetainPC, ReleasePC, Ops
  <2>2. Points' /\ Locks' /\ Tokens'
    BY <1>24 DEF BeginRemove, TabWrlock
  <2>3. Slot' /\ Guards' /\ Death'
    BY <1>24 DEF BeginRemove, TabWrlock
  <2> QED BY <2>1, <2>2, <2>3
<1> QED BY <1>1, <1>2, <1>3, <1>4, <1>5, <1>6, <1>7, <1>8, <1>9, <1>10, <1>11, <1>12, <1>13, <1>14, <1>15, <1>16, <1>17, <1>18, <1>19, <1>20, <1>21, <1>22, <1>23, <1>24 DEF Next, Continue, Call

\* Only Cas and Sub change the counter, each together with one token; InsPut
\* and Take hand a held token over.
LEMMA CountStep ==
  ASSUME IInv, [Next]_vars
  PROVE  RefcountExact'
<1> USE DEF IInv, Shape
<1>1. ASSUME NEW t \in Thread, Cas(t) PROVE RefcountExact'
  <2>1. CASE UNCHANGED <<refcount, owner>>
    BY <2>1 DEF RefcountExact, Held
  <2>2. CASE refcount' = refcount + 1 /\ owner' = [owner EXCEPT ![tok[t]] = t]
    <3>1. tok[t] \in Ref /\ owner[tok[t]] = Nobody
      BY <1>1 DEF Cas, Tokens
    <3>2. Cardinality(Held') = Cardinality(Held) + 1
      BY <2>2, <3>1, HeldGrows
    <3> QED BY <2>2, <3>2 DEF RefcountExact
  <2> QED BY <1>1, <2>1, <2>2 DEF Cas
<1>2. ASSUME NEW t \in Thread, Sub(t) PROVE RefcountExact'
  <2>1. owner' = [owner EXCEPT ![tok[t]] = Nobody] /\ refcount' = refcount - 1
    BY <1>2 DEF Sub
  <2>2. tok[t] \in Ref /\ owner[tok[t]] # Nobody
    BY <1>2 DEF Sub, Tokens
  <2>3. Cardinality(Held') = Cardinality(Held) - 1
    BY <2>1, <2>2, HeldShrinks
  <2> QED BY <2>1, <2>3 DEF RefcountExact
<1>3. ASSUME NEW t \in Thread, InsPut(t) PROVE RefcountExact'
  <2>1. Held' = Held
    BY <1>3 DEF InsPut, Held, Tokens, TypeOK
  <2> QED BY <1>3, <2>1 DEF InsPut, RefcountExact
<1>4. ASSUME NEW t \in Thread, Take(t) PROVE RefcountExact'
  <2>1. Held' = Held
    BY <1>4 DEF Take, Held, TypeOK
  <2> QED BY <1>4, <2>1 DEF Take, RefcountExact
<1>5. CASE UNCHANGED <<refcount, owner>>
  BY <1>5 DEF RefcountExact, Held
<1>6. ASSUME NEW t \in Thread, Continue(t), ~Cas(t), ~Sub(t), ~InsPut(t), ~Take(t)
      PROVE  UNCHANGED <<refcount, owner>>
  BY <1>6 DEF Continue, objVars, Load, Check, Recheck, Deinit, Free, EndWrite,
      SnapLock, SnapEnd, TabUnlock, InsCheck, Find, InvTrigger, InvStore
<1>7. ASSUME NEW t \in Thread, Call(t)
      PROVE  UNCHANGED <<refcount, owner>>
  BY <1>7 DEF Call, objVars, Dup, Drop, BeginWrite, BeginSnapshot, BeginInsert,
      BeginLookup, BeginRemove, TabWrlock
<1>8. CASE UNCHANGED vars
  BY <1>5, <1>8 DEF vars
<1> QED BY <1>1, <1>2, <1>3, <1>4, <1>5, <1>6, <1>7, <1>8 DEF Next

LEMMA InitIInv == Init => IInv
<1> SUFFICES ASSUME Init PROVE IInv
  OBVIOUS
<1>1. PICK t \in Thread, r \in Ref : owner = [x \in Ref |-> IF x = r THEN t ELSE Nobody]
  BY DEF Init
<1>2. TypeOK
  BY <1>1 DEF Init, TypeOK, PC, Ops
<1>3. Held = {r}
  BY <1>1 DEF Held
<1>4. RefcountExact
  BY <1>3, FS_Singleton DEF Init, RefcountExact
<1>5. Points /\ Locks /\ Tokens
  BY DEF Init, Points, Locks, Tokens, SnapOps, Retaining
<1>6. Slot /\ Guards /\ Death
  BY <1>1 DEF Init, Slot, Guards, Death, SnapOps, Retaining
<1> QED BY <1>2, <1>4, <1>5, <1>6 DEF IInv, Shape

\* The strengthened invariant holds in every reachable state of kvobject.
THEOREM Invariance == Spec => []IInv
<1>1. IInv /\ [Next]_vars => IInv'
  <2> SUFFICES ASSUME IInv, [Next]_vars PROVE IInv'
    OBVIOUS
  <2>1. CASE Next
    BY <2>1, ShapeStep, CountStep DEF IInv
  <2>2. CASE UNCHANGED vars
    <3>1. Shape'
      BY <2>2 DEF vars, IInv, Shape, TypeOK, Points, Locks, Tokens, Slot, Guards,
                  Death, Holds
    <3> QED BY <3>1, CountStep DEF IInv
  <2> QED BY <2>1, <2>2
<1> QED BY <1>1, InitIInv, PTL DEF Spec

\* Type correctness.
THEOREM Typing == Spec => []TypeOK
<1>1. IInv => TypeOK
  BY DEF IInv, Shape
<1> QED BY <1>1, Invariance, PTL

\* kvo->refcount always equals the number of references handed out.
THEOREM CountIsExact == Spec => []RefcountExact
<1>1. IInv => RefcountExact
  BY DEF IInv
<1> QED BY <1>1, Invariance, PTL

\* No thread reaches an access to the object after free().
THEOREM MemorySafety == Spec => []NoUseAfterFree
<1>1. IInv => NoUseAfterFree
  <2> SUFFICES ASSUME IInv, mem = "freed"
               PROVE  ~slot /\ \A t \in Thread : pc[t] \notin TouchPC
    BY DEF NoUseAfterFree
  <2>1. \A r \in Ref : owner[r] = Nobody
    BY DEF IInv, Shape, Death
  <2>2. \A t \in Thread : pc[t] \notin {"deinit", "free"}
    BY DEF IInv, Shape, Death
  <2>3. ~slot
    BY <2>1, KVObjectAssumption DEF IInv, Shape, Slot
  <2> QED BY <2>1, <2>2, <2>3, TouchGuarded DEF IInv
<1> QED BY <1>1, Invariance, PTL

\* kvobject_release never finds the count at zero or below.
THEOREM NoUnderflow == Spec => []NoUnderflowPanic
<1>1. IInv => NoUnderflowPanic
  BY DEF IInv, Shape, Points, NoUnderflowPanic
<1> QED BY <1>1, Invariance, PTL

-----------------------------------------------------------------------------
(* KVObject implements RefObject                                           *)

\* What users see of "owner".
Seen == [r \in Ref |-> IF Pending(r) THEN Nobody ELSE owner[r]]

\* A held token that its owner's running retain is not about is no pending one.
LEMMA OwnedNotPending ==
  ASSUME Tokens, NEW r \in Ref, owner[r] # Nobody,
         \A t \in Thread : tok[t] = r =>
            pc[t] \notin {"recheck", "sub"} \/ op[t] \in {"none", "remove"}
  PROVE  ~Pending(r) /\ Seen[r] = owner[r]
BY DEF Pending, Seen

\* Steps that touch no token's owner and no retain's outcome are invisible.
LEMMA Invisible ==
  ASSUME IInv, NEW t \in Thread, UNCHANGED <<owner, mem, state>>,
         \A u \in Thread : u # t => pc'[u] = pc[u] /\ op'[u] = op[u] /\ tok'[u] = tok[u],
         \A r \in Ref : (/\ tok[t] = r /\ pc[t] \in {"recheck", "sub"}
                         /\ op[t] \notin {"none", "remove"})
                     <=> (/\ tok'[t] = r /\ pc'[t] \in {"recheck", "sub"}
                         /\ op'[t] \notin {"none", "remove"})
  PROVE  UNCHANGED <<Seen, state, mem>>
<1>1. \A r \in Ref : Pending(r)' <=> Pending(r)
  BY DEF Pending
<1> QED BY <1>1 DEF Seen

\* The program points that are not about a reference changing hands.
LEMMA QuietStep ==
  ASSUME IInv, NEW t \in Thread,
         \/ Load(t) \/ Check(t) \/ Deinit(t) \/ EndWrite(t) \/ SnapLock(t)
         \/ SnapEnd(t) \/ TabUnlock(t) \/ InsCheck(t) \/ Find(t) \/ InvTrigger(t)
         \/ Call(t)
  PROVE  UNCHANGED <<Seen, state, mem>>
<1> USE Invisible DEF IInv, Shape, TypeOK, objVars, lockVars, locals, Goto
<1>1. CASE Load(t)
  BY <1>1 DEF Load
<1>2. CASE Check(t)
  BY <1>2 DEF Check, Return, AfterRelease
<1>3. CASE Deinit(t)
  BY <1>3 DEF Deinit
<1>4. CASE EndWrite(t)
  BY <1>4 DEF EndWrite
<1>5. CASE SnapLock(t)
  BY <1>5 DEF SnapLock
<1>6. CASE SnapEnd(t)
  BY <1>6 DEF SnapEnd, Return, CallRelease
<1>7. CASE TabUnlock(t)
  BY <1>7 DEF TabUnlock, Return
<1>8. CASE InsCheck(t)
  BY <1>8 DEF InsCheck
<1>9. CASE Find(t)
  BY <1>9 DEF Find
<1>10. CASE InvTrigger(t)
  BY <1>10 DEF InvTrigger
<1>11. CASE Dup(t)
  BY <1>11 DEF Dup, Begin
<1>12. CASE Drop(t)
  BY <1>12 DEF Drop, CallRelease
<1>13. CASE BeginWrite(t)
  BY <1>13 DEF BeginWrite
<1>14. CASE BeginSnapshot(t)
  BY <1>14 DEF BeginSnapshot, Begin
<1>15. CASE BeginInsert(t)
  BY <1>15 DEF BeginInsert, Begin, TabWrlock
<1>16. CASE BeginLookup(t)
  BY <1>16 DEF BeginLookup, Begin
<1>17. CASE BeginRemove(t)
  BY <1>17 DEF BeginRemove, TabWrlock
<1> QED BY <1>1, <1>2, <1>3, <1>4, <1>5, <1>6, <1>7, <1>8, <1>9, <1>10, <1>11, <1>12, <1>13, <1>14, <1>15, <1>16, <1>17 DEF Call

\* Every step of KVObject is a step of RefObject or changes nothing it shows.
LEMMA StepSimulation ==
  ASSUME IInv, Next
  PROVE  [Promise!Next]_(Promise!vars)
<1> USE DEF IInv, Shape
<1>1. ASSUME UNCHANGED <<Seen, state, mem>>
      PROVE  UNCHANGED Promise!vars
  BY <1>1 DEF Promise!vars, Seen
\* the increment is not yet a reference
<1>2. ASSUME NEW t \in Thread, Cas(t) PROVE UNCHANGED <<Seen, state, mem>>
  <2>1. CASE pc' = [pc EXCEPT ![t] = "load"] /\ owner' = owner
    BY <1>2, <2>1, Invisible DEF Cas, TypeOK
  <2>2. CASE pc' = [pc EXCEPT ![t] = "recheck"] /\ owner' = [owner EXCEPT ![tok[t]] = t]
    <3>1. PICK r \in Ref : r = tok[t] /\ owner[r] = Nobody
      BY <1>2 DEF Cas, Tokens
    <3>2. op' = op /\ tok' = tok /\ op[t] \notin {"none", "remove"}
      BY <1>2 DEF Cas, Points, Retaining, SnapOps
    <3>3. Pending(r)'
      BY <2>2, <3>1, <3>2 DEF Pending, TypeOK
    <3>4. \A s \in Ref : s # r => (Pending(s)' <=> Pending(s)) /\ owner'[s] = owner[s]
      BY <2>2, <3>1, <3>2 DEF Pending, TypeOK
    <3>5. \A s \in Ref : (IF Pending(s) THEN Nobody ELSE owner[s])'
                          = (IF Pending(s) THEN Nobody ELSE owner[s])
      BY <3>1, <3>3, <3>4
    <3> QED BY <1>2, <3>5 DEF Seen, Cas
  <2> QED BY <1>2, <2>1, <2>2 DEF Cas, Goto
\* a confirmed retain is where the reference is acquired
<1>3. ASSUME NEW t \in Thread, Recheck(t) PROVE [Promise!Next]_(Promise!vars)
  <2>1. CASE state = "invalid"
    <3>1. UNCHANGED <<Seen, state, mem>>
      BY <1>3, <2>1, Invisible DEF Recheck, CallRelease, Goto, Points, Retaining,
         SnapOps, TypeOK, objVars, lockVars
    <3> QED BY <1>1, <3>1
  <2>2. CASE state = "normal"
    <3>0. PICK r \in Ref : r = tok[t]
      BY <1>3 DEF Recheck, Tokens
    <3>1. owner[r] = t /\ Pending(r)
      BY <1>3, <2>2, <3>0 DEF Recheck, Tokens, Points, Retaining, SnapOps, Pending
    <3>2. Seen[r] = Nobody
      BY <3>1 DEF Seen
    <3>3. \E s \in Ref : Seen[s] # Nobody
      <4>1. CASE op[t] \in {"dup", "insert"} \cup SnapOps
        <5>1. PICK s \in Ref : owner[s] = t /\ s # tok[t]
          BY <4>1 DEF Guards
        <5>2. Seen[s] = t
          BY <3>0, <5>1, OwnedNotPending DEF Tokens
        <5> QED BY <5>1, <5>2
      <4>2. CASE op[t] = "lookup"
        <5>1. PICK s \in Ref : owner[s] = Table
          BY <1>3, <4>2 DEF Recheck, Guards, Retaining, Slot
        <5>2. Seen[s] = Table
          BY <3>0, <5>1, OwnedNotPending DEF Tokens
        <5> QED BY <5>1, <5>2
      <4> QED BY <1>3, <4>1, <4>2 DEF Recheck, Points, Retaining
    <3>4. Seen' = [Seen EXCEPT ![r] = t]
      <4>1. owner' = owner
        BY <1>3 DEF Recheck, objVars
      <4>2. \A s \in Ref : s # r => (Pending(s)' <=> Pending(s))
        BY <1>3, <2>2, <3>0 DEF Recheck, Return, Goto, Pending, TypeOK, locals
      <4>3. ~Pending(r)'
        BY <1>3, <2>2, <3>0, <3>1 DEF Recheck, Return, Goto, AfterRetained, Pending, TypeOK, Tokens
      <4> QED BY <3>1, <4>1, <4>2, <4>3 DEF Seen
    <3>5. mem = "live" /\ mem' = "live" /\ state' = "normal"
      BY <1>3, <2>2, <3>1 DEF Recheck, objVars, Death, TypeOK
    <3>6. Promise!Acquire(r, t)
      BY <2>2, <3>1, <3>2, <3>3, <3>4, <3>5 DEF Promise!Acquire, Promise!InUse, Seen
    <3> QED BY <3>1, <3>6 DEF Promise!Next
  <2> QED BY <2>1, <2>2 DEF TypeOK
\* the last step of a release; a rollback gives up what was never shown
<1>4. ASSUME NEW t \in Thread, Sub(t) PROVE [Promise!Next]_(Promise!vars)
  <2>0. PICK r \in Ref : r = tok[t] /\ owner[r] = t
    BY <1>4 DEF Sub, Tokens
  <2>1. owner' = [owner EXCEPT ![r] = Nobody] /\ UNCHANGED <<mem, state>>
    BY <1>4, <2>0 DEF Sub
  <2>2. \A s \in Ref : s # r => (Pending(s)' <=> Pending(s)) /\ owner'[s] = owner[s]
    BY <1>4, <2>0, <2>1 DEF Sub, Return, Goto, Pending, TypeOK
  <2>3. \A s \in Ref : Seen'[s] = IF s = r THEN Nobody ELSE Seen[s]
    BY <2>1, <2>2 DEF Seen, TypeOK
  <2>4. CASE op[t] \in {"none", "remove"}
    <3>1. Seen[r] # Nobody
      BY <2>0, <2>4, OwnedNotPending DEF Tokens
    <3>2. Seen' = [Seen EXCEPT ![r] = Nobody]
      BY <2>3 DEF Seen
    <3>3. Promise!Drop(r)
      BY <2>1, <3>1, <3>2 DEF Promise!Drop, Seen
    <3> QED BY <3>3 DEF Promise!Next
  <2>5. CASE op[t] \notin {"none", "remove"}
    <3>1. Pending(r)
      BY <1>4, <2>0, <2>5 DEF Pending, Sub
    <3>2. Seen' = Seen
      BY <2>3, <3>1 DEF Seen
    <3> QED BY <1>1, <2>1, <3>2
  <2> QED BY <2>4, <2>5
<1>5. ASSUME NEW t \in Thread, InsPut(t) PROVE [Promise!Next]_(Promise!vars)
  <2>0. PICK r \in Ref : r = tok[t] /\ owner[r] = t
    BY <1>5 DEF InsPut, Tokens
  <2>1. Seen[r] = t
    BY <1>5, <2>0, OwnedNotPending DEF Tokens, InsPut
  <2>2. CASE owner' = [owner EXCEPT ![tok[t]] = Table] /\ Return(t, "tabUnlock")
    <3>1. \A s \in Ref : (Pending(s)' <=> Pending(s)) /\ (s # r => owner'[s] = owner[s])
      BY <1>5, <2>0, <2>2 DEF InsPut, Return, Goto, Pending, TypeOK, Tokens
    <3>2. \A s \in Ref : Seen'[s] = IF s = r THEN Table ELSE Seen[s]
      BY <2>0, <2>1, <2>2, <3>1 DEF Seen, TypeOK
    <3>3. Seen' = [Seen EXCEPT ![r] = Table]
      BY <3>2 DEF Seen
    <3>4. Promise!Give(r, Table)
      BY <1>5, <2>1, <3>3 DEF Promise!Give, Seen, InsPut
    <3> QED BY <3>4 DEF Promise!Next
  <2>3. CASE UNCHANGED owner /\ CallRelease(t, tok[t], "insert")
    <3>1. \A s \in Ref : s # r => (Pending(s)' <=> Pending(s))
      BY <1>5, <2>0, <2>3 DEF InsPut, CallRelease, Goto, Pending, TypeOK
    <3>2. Pending(r)'
      BY <2>0, <2>3 DEF CallRelease, Goto, Pending, TypeOK
    <3>3. \A s \in Ref : Seen'[s] = IF s = r THEN Nobody ELSE Seen[s]
      BY <2>3, <3>1, <3>2 DEF Seen
    <3>4. Seen' = [Seen EXCEPT ![r] = Nobody]
      BY <3>3 DEF Seen
    <3>5. Promise!Drop(r)
      BY <1>5, <2>1, <3>4 DEF Promise!Drop, Seen, InsPut
    <3> QED BY <3>5 DEF Promise!Next
  <2> QED BY <1>5, <2>2, <2>3 DEF InsPut
<1>6. ASSUME NEW t \in Thread, Take(t) PROVE [Promise!Next]_(Promise!vars)
  <2>1. CASE UNCHANGED <<slot, owner, tok>>
    <3>1. UNCHANGED <<Seen, state, mem>>
      BY <1>6, <2>1, Invisible DEF Take, Goto, TypeOK, Points
    <3> QED BY <1>1, <3>1
  <2>2. CASE \E r \in Ref : /\ owner[r] = Table
                            /\ owner' = [owner EXCEPT ![r] = t]
                            /\ tok' = [tok EXCEPT ![t] = r]
    <3>1. PICK r \in Ref : /\ owner[r] = Table
                           /\ owner' = [owner EXCEPT ![r] = t]
                           /\ tok' = [tok EXCEPT ![t] = r]
      BY <2>2
    <3>2. Seen[r] = Table
      BY <3>1, OwnedNotPending DEF Tokens
    <3>3. \A s \in Ref : (Pending(s)' <=> Pending(s)) /\ (s # r => owner'[s] = owner[s])
      BY <1>6, <3>1 DEF Take, Goto, Pending, TypeOK, Tokens, Points
    <3>4. \A s \in Ref : Seen'[s] = IF s = r THEN t ELSE Seen[s]
      BY <3>1, <3>2, <3>3 DEF Seen, TypeOK
    <3>5. Seen' = [Seen EXCEPT ![r] = t]
      BY <3>4 DEF Seen
    <3>6. Promise!Give(r, t)
      BY <1>6, <3>2, <3>5 DEF Promise!Give, Seen, Take
    <3> QED BY <3>1, <3>6 DEF Promise!Next
  <2> QED BY <1>6, <2>1, <2>2 DEF Take
<1>7. ASSUME NEW t \in Thread, InvStore(t) PROVE [Promise!Next]_(Promise!vars)
  <2>0. PICK r \in Ref : r = tok[t] /\ owner[r] = t
    BY <1>7 DEF InvStore, Tokens
  <2>1. Seen[r] = t /\ mem = "live"
    BY <1>7, <2>0, OwnedNotPending DEF Tokens, InvStore, Death, TypeOK
  <2>2. \A s \in Ref : Pending(s)' <=> Pending(s)
    BY <1>7, <2>0 DEF InvStore, CallRelease, Goto, Pending, TypeOK, Points
  <2>3. Seen' = Seen /\ mem' = mem /\ state' = "invalid"
    BY <1>7, <2>2 DEF InvStore, Seen
  <2>4. Promise!Invalidate
    BY <2>0, <2>1, <2>3 DEF Promise!Invalidate, Promise!InUse, Seen
  <2> QED BY <2>4 DEF Promise!Next
<1>8. ASSUME NEW t \in Thread, Free(t) PROVE [Promise!Next]_(Promise!vars)
  <2>1. mem = "live" /\ mem' = "freed" /\ state' = state /\ owner' = owner
    BY <1>8 DEF Free, Death
  <2>2. \A s \in Ref : owner[s] = Nobody
    BY <1>8 DEF Free, Death
  <2>3. Seen' = Seen
    BY <2>1, <2>2 DEF Seen
  <2>4. Promise!Die
    BY <2>1, <2>2, <2>3 DEF Promise!Die, Promise!InUse, Seen
  <2> QED BY <2>4 DEF Promise!Next
<1> QED
  BY <1>1, <1>2, <1>3, <1>4, <1>5, <1>6, <1>7, <1>8, QuietStep DEF Next, Continue

\* kvobject keeps its promise: every behaviour of the lock-free code is one of
\* an object whose operations are atomic.
THEOREM Refinement == Spec => ImplementsRefObject
<1>1. Init => Promise!Init
  <2> SUFFICES ASSUME Init PROVE Promise!Init
    OBVIOUS
  <2>1. PICK t \in Thread, r \in Ref : owner = [x \in Ref |-> IF x = r THEN t ELSE Nobody]
    BY DEF Init
  <2>2. \A x \in Ref : ~Pending(x)
    BY DEF Init, Pending
  <2> QED BY <2>1, <2>2 DEF Init, Promise!Init
<1>2. IInv /\ [Next]_vars => [Promise!Next]_(Promise!vars)
  <2>1. CASE UNCHANGED vars
    BY <2>1 DEF vars, Promise!vars, Pending
  <2> QED BY <2>1, StepSimulation
<1> QED BY <1>1, <1>2, Invariance, PTL DEF Spec, Promise!Spec, ImplementsRefObject
=============================================================================
