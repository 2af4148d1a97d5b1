------------------------------ MODULE KVObject ------------------------------
(***************************************************************************)
(* The reference-counted kernel object of Nyxian's ksurface ("kvobject",   *)
(* Surface/libkern/obj), one atomic access per step, together with the     *)
(* slot of the process table that publishes it (Surface/proc/insert.c,     *)
(* lookup.c, remove.c).  One object is modelled; every thread of the       *)
(* kernel may run any of the operations on it at any time.                 *)
(*                                                                         *)
(* A reference is a token of Ref.  The code has no tokens, it only counts: *)
(* "owner" is a history variable that says who is entitled to each count,  *)
(* and the properties compare the counter with it.                         *)
(***************************************************************************)
EXTENDS Integers, FiniteSets

CONSTANTS
  Thread,       \* threads of the kernel surface
  Ref,          \* reference tokens; bounds the references held at one time
  Table,        \* owner of the reference kept by the process table
  Nobody,       \* owner of a token not in use; also "no writer" of a lock
  NoRef,        \* "no token"
  SnapOptions   \* the kvObjSnap options callers pass

ASSUME KVObjectAssumption ==
  /\ IsFiniteSet(Ref)
  /\ Table \notin Thread
  /\ Nobody \notin Thread \cup {Table}
  /\ NoRef \notin Ref
  /\ SnapOptions \subseteq {"static", "referenced", "consume"}

VARIABLES
  mem,          \* "live" until free() of the object
  refcount,     \* kvo->refcount
  state,        \* kvo->state
  owner,        \* token -> thread, Table or Nobody
  slot,         \* the radix tree maps the object's pid to it
  tabR, tabW,   \* readers and writer of the process table's rwlock
  rwR, rwW,     \* readers and writer of kvo->rwlock
  pc,           \* what each thread executes next
  op,           \* the operation that called retain or release
  seen,         \* kvobject_retain's local "current"
  tok           \* the token the running retain or release is about

objVars == <<mem, refcount, state, owner>>
lockVars == <<tabR, tabW, rwR, rwW>>
locals == <<op, seen, tok>>
vars == <<mem, refcount, state, owner, slot, tabR, tabW, rwR, rwW,
          pc, op, seen, tok>>

SnapOps == {"static", "referenced", "consume"}
Ops == {"none", "lookup", "dup", "insert", "remove"} \cup SnapOps

RetainPC  == {"load", "check", "cas", "recheck"}
ReleasePC == {"sub", "deinit", "free"}
PC == {"idle", "insCheck", "insPut", "find", "take", "invTrigger", "invStore",
       "tabUnlock", "snapLock", "snapCopy", "strayUnlock", "write", "panic"}
        \cup RetainPC \cup ReleasePC

\* The program points whose next access touches the object's memory.
TouchPC == (PC \ {"idle", "insCheck", "find", "take", "tabUnlock", "panic"})

Held == {r \in Ref : owner[r] # Nobody}

\* Tokens no retain in flight has set aside.
Spare == {r \in Ref : owner[r] = Nobody /\ \A t \in Thread : tok[t] # r}

-----------------------------------------------------------------------------
\* __kvobject_init: "starting as retained for the caller".
Init ==
  /\ mem = "live" /\ refcount = 1 /\ state = "normal"
  /\ \E t \in Thread, r \in Ref :
       owner = [x \in Ref |-> IF x = r THEN t ELSE Nobody]
  /\ slot = FALSE
  /\ tabR = {} /\ tabW = Nobody /\ rwR = {} /\ rwW = Nobody
  /\ pc = [t \in Thread |-> "idle"]
  /\ op = [t \in Thread |-> "none"]
  /\ seen = [t \in Thread |-> 0]
  /\ tok = [t \in Thread |-> NoRef]

Goto(t, l) == pc' = [pc EXCEPT ![t] = l]

Holds(t) == \E r \in Ref : owner[r] = t

\* Thread t starts operation o at l, with a token set aside for its retain.
Begin(t, o, l) ==
  /\ pc[t] = "idle"
  /\ \E r \in Spare : tok' = [tok EXCEPT ![t] = r]
  /\ op' = [op EXCEPT ![t] = o]
  /\ Goto(t, l)

\* Enter kvobject_release of token r within operation o.
CallRelease(t, r, o) ==
  /\ tok' = [tok EXCEPT ![t] = r]
  /\ op' = [op EXCEPT ![t] = o]
  /\ Goto(t, "sub")

AfterRetained(o) == CASE o = "lookup" -> "tabUnlock"
                      [] o \in SnapOps -> "snapLock"
                      [] OTHER -> "idle"

\* Where a refused retain, and any release, continues.
AfterRelease(o) == CASE o \in {"lookup", "insert", "remove"} -> "tabUnlock"
                     [] o \in SnapOps -> "strayUnlock"
                     [] OTHER -> "idle"

\* Continue at l; a thread that returns to its caller forgets its locals.
Return(t, l) ==
  /\ Goto(t, l)
  /\ tok' = [tok EXCEPT ![t] = NoRef]
  /\ op' = [op EXCEPT ![t] = IF l = "idle" THEN "none" ELSE @]

-----------------------------------------------------------------------------
(* kvobject_retain                                                         *)

\* int current = atomic_load(&kvo->refcount)
Load(t) ==
  /\ pc[t] = "load"
  /\ seen' = [seen EXCEPT ![t] = refcount]
  /\ Goto(t, "check")
  /\ UNCHANGED <<objVars, slot, lockVars, op, tok>>

\* Mutant: a refused retain gives back a count it never took.
CheckReleases(t) ==
  /\ pc[t] = "check"
  /\ IF seen[t] <= 0 \/ state = "invalid" THEN Goto(t, "sub") ELSE Goto(t, "cas")
  /\ UNCHANGED <<objVars, slot, lockVars, locals>>

\* current <= 0 || state == kvObjStateInvalid: the retain is refused
Check(t) ==
  /\ pc[t] = "check"
  /\ \/ /\ seen[t] <= 0 \/ state = "invalid"
        /\ Return(t, AfterRelease(op[t]))
        /\ seen' = [seen EXCEPT ![t] = 0]
     \/ /\ seen[t] > 0 /\ state = "normal"
        /\ Goto(t, "cas")
        /\ UNCHANGED locals
  /\ UNCHANGED <<objVars, slot, lockVars>>

\* Mutant: load and store instead of a compare-and-exchange.
CasBlind(t) ==
  /\ pc[t] = "cas"
  /\ refcount' = seen[t] + 1
  /\ owner' = [owner EXCEPT ![tok[t]] = t]
  /\ Goto(t, "recheck")
  /\ seen' = [seen EXCEPT ![t] = 0]
  /\ UNCHANGED <<mem, state, slot, lockVars, op, tok>>

\* atomic_compare_exchange_weak: may also fail spuriously
Cas(t) ==
  /\ pc[t] = "cas"
  /\ \/ /\ refcount = seen[t]
        /\ refcount' = refcount + 1
        /\ owner' = [owner EXCEPT ![tok[t]] = t]
        /\ Goto(t, "recheck")
     \/ /\ Goto(t, "load")
        /\ UNCHANGED <<refcount, owner>>
  /\ seen' = [seen EXCEPT ![t] = 0]
  /\ UNCHANGED <<mem, state, slot, lockVars, op, tok>>

\* Mutant: no second look at the state.
RecheckSkipped(t) ==
  /\ pc[t] = "recheck"
  /\ IF op[t] = "insert"
       THEN Goto(t, "insPut") /\ UNCHANGED <<op, tok>>
       ELSE Return(t, AfterRetained(op[t]))
  /\ UNCHANGED <<objVars, slot, lockVars, seen>>

\* Mutant: the second look refuses without rolling the count back.
RecheckLeaks(t) ==
  /\ pc[t] = "recheck"
  /\ IF state = "invalid" THEN Return(t, AfterRelease(op[t]))
     ELSE IF op[t] = "insert" THEN Goto(t, "insPut") /\ UNCHANGED <<op, tok>>
     ELSE Return(t, AfterRetained(op[t]))
  /\ owner' = IF state = "invalid" THEN [owner EXCEPT ![tok[t]] = Nobody]
                                   ELSE owner
  /\ UNCHANGED <<mem, refcount, state, slot, lockVars, seen>>

\* the second look at the state: roll back through release, or succeed
Recheck(t) ==
  /\ pc[t] = "recheck"
  /\ \/ /\ state = "invalid"
        /\ CallRelease(t, tok[t], op[t])
     \/ /\ state = "normal"
        /\ IF op[t] = "insert"
             THEN Goto(t, "insPut") /\ UNCHANGED <<op, tok>>
             ELSE Return(t, AfterRetained(op[t]))
  /\ UNCHANGED <<objVars, slot, lockVars, seen>>

-----------------------------------------------------------------------------
(* kvobject_release                                                        *)

\* int old = atomic_fetch_sub(&kvo->refcount, 1)
Sub(t) ==
  /\ pc[t] = "sub"
  /\ refcount' = refcount - 1
  /\ owner' = [owner EXCEPT ![tok[t]] = Nobody]
  /\ Return(t, CASE refcount = 1 -> "deinit"
                 [] refcount <= 0 -> "panic"
                 [] OTHER -> AfterRelease(op[t]))
  /\ UNCHANGED <<mem, state, slot, lockVars, seen>>

\* the Deinit event, then the two rwlocks are destroyed
Deinit(t) ==
  /\ pc[t] = "deinit"
  /\ Goto(t, "free")
  /\ UNCHANGED <<objVars, slot, lockVars, locals>>

Free(t) ==
  /\ pc[t] = "free"
  /\ mem' = "freed"
  /\ Return(t, AfterRelease(op[t]))
  /\ UNCHANGED <<refcount, state, owner, slot, lockVars, seen>>

-----------------------------------------------------------------------------
(* kvo->rwlock                                                             *)

\* pthread_rwlock_unlock.  A caller that does not hold the lock either does
\* nothing (it is free, the error is ignored) or ends somebody else's hold.
RwUnlock(t) ==
  \/ /\ t \in rwR \/ rwW = t
     /\ rwR' = rwR \ {t}
     /\ rwW' = IF rwW = t THEN Nobody ELSE rwW
  \/ /\ t \notin rwR /\ rwW # t
     /\ \/ UNCHANGED <<rwR, rwW>>
        \/ \E u \in rwR : rwR' = rwR \ {u} /\ UNCHANGED rwW
        \/ rwW' = Nobody /\ UNCHANGED rwR

\* a user of the process structure: kvo_wrlock, assignments, kvo_unlock
BeginWrite(t) ==
  /\ pc[t] = "idle" /\ Holds(t)
  /\ rwR = {} /\ rwW = Nobody
  /\ rwW' = t
  /\ Goto(t, "write")
  /\ UNCHANGED <<objVars, slot, tabR, tabW, rwR, locals>>

EndWrite(t) ==
  /\ pc[t] = "write"
  /\ RwUnlock(t)
  /\ Goto(t, "idle")
  /\ UNCHANGED <<objVars, slot, tabR, tabW, locals>>

-----------------------------------------------------------------------------
(* kvobject_snapshot_into_mem: the caller holds a reference                *)

BeginSnapshot(t) ==
  /\ Holds(t)
  /\ \E o \in SnapOptions : Begin(t, o, "load")
  /\ UNCHANGED <<objVars, slot, lockVars, seen>>

SnapLock(t) ==
  /\ pc[t] = "snapLock"
  /\ rwW = Nobody
  /\ rwR' = rwR \cup {t}
  /\ Goto(t, "snapCopy")
  /\ UNCHANGED <<objVars, slot, tabR, tabW, rwW, locals>>

\* out_unlock: kvo_unlock; then kvo_release for Static and ConsumeReference.
\* A refused retain jumps here too, before kvo_rdlock ("strayUnlock").
SnapEnd(t) ==
  /\ pc[t] \in {"snapCopy", "strayUnlock"}
  /\ RwUnlock(t)
  /\ \/ /\ op[t] = "referenced"
        /\ Return(t, "idle")
     \/ /\ op[t] \in {"static", "consume"}
        /\ \E r \in Ref : owner[r] = t /\ CallRelease(t, r, "none")
  /\ UNCHANGED <<objVars, slot, tabR, tabW, seen>>

-----------------------------------------------------------------------------
(* Callers of retain and release that already hold a reference             *)

Dup(t) ==
  /\ Holds(t)
  /\ Begin(t, "dup", "load")
  /\ UNCHANGED <<objVars, slot, lockVars, seen>>

Drop(t) ==
  /\ pc[t] = "idle"
  /\ \E r \in Ref : owner[r] = t /\ CallRelease(t, r, "none")
  /\ UNCHANGED <<objVars, slot, lockVars, seen>>

-----------------------------------------------------------------------------
(* The process table                                                       *)

TabUnlock(t) ==
  /\ pc[t] = "tabUnlock"
  /\ tabR' = tabR \ {t}
  /\ tabW' = IF tabW = t THEN Nobody ELSE tabW
  /\ Return(t, "idle")
  /\ UNCHANGED <<objVars, slot, rwR, rwW, seen>>

TabWrlock(t) ==
  /\ tabR = {} /\ tabW = Nobody
  /\ tabW' = t
  /\ UNCHANGED <<objVars, slot, tabR, rwR, rwW>>

\* proc_insert: the caller holds a reference
BeginInsert(t) ==
  /\ Holds(t)
  /\ Begin(t, "insert", "insCheck")
  /\ TabWrlock(t)
  /\ UNCHANGED seen

\* KERN_NO_SPACE, KERN_FAILURE for a duplicate, or retain for the tree
InsCheck(t) ==
  /\ pc[t] = "insCheck"
  /\ \/ Goto(t, "tabUnlock")
     \/ ~slot /\ Goto(t, "load")
  /\ UNCHANGED <<objVars, slot, lockVars, locals>>

\* radix_insert; when it fails the new reference is released again
InsPut(t) ==
  /\ pc[t] = "insPut"
  /\ \/ /\ slot' = TRUE
        /\ owner' = [owner EXCEPT ![tok[t]] = Table]
        /\ Return(t, "tabUnlock")
     \/ /\ CallRelease(t, tok[t], "insert")
        /\ UNCHANGED <<slot, owner>>
  /\ UNCHANGED <<mem, refcount, state, lockVars, seen>>

\* proc_for_pid
BeginLookup(t) ==
  /\ Begin(t, "lookup", "find")
  /\ tabW = Nobody
  /\ tabR' = tabR \cup {t}
  /\ UNCHANGED <<objVars, slot, tabW, rwR, rwW, seen>>

\* Mutant: the table lock is dropped before the object found is retained.
FindUnlocked(t) ==
  /\ pc[t] = "find"
  /\ Goto(t, IF slot THEN "load" ELSE "tabUnlock")
  /\ tabR' = tabR \ {t}
  /\ UNCHANGED <<objVars, slot, tabW, rwR, rwW, locals>>

Find(t) ==
  /\ pc[t] = "find"
  /\ Goto(t, IF slot THEN "load" ELSE "tabUnlock")
  /\ UNCHANGED <<objVars, slot, lockVars, locals>>

\* proc_remove_by_pid: the caller needs no reference
BeginRemove(t) ==
  /\ pc[t] = "idle"
  /\ TabWrlock(t)
  /\ op' = [op EXCEPT ![t] = "remove"]
  /\ Goto(t, "take")
  /\ UNCHANGED <<seen, tok>>

\* radix_remove; the table's reference is now the remover's to release
Take(t) ==
  /\ pc[t] = "take"
  /\ \/ /\ ~slot
        /\ Goto(t, "tabUnlock")
        /\ UNCHANGED <<slot, owner, tok>>
     \/ /\ slot
        /\ slot' = FALSE
        /\ \E r \in Ref : /\ owner[r] = Table
                          /\ owner' = [owner EXCEPT ![r] = t]
                          /\ tok' = [tok EXCEPT ![t] = r]
        /\ Goto(t, "invTrigger")
  /\ UNCHANGED <<mem, refcount, state, lockVars, op, seen>>

\* kvobject_invalidate: first the Invalidate event ...
InvTrigger(t) ==
  /\ pc[t] = "invTrigger"
  /\ Goto(t, "invStore")
  /\ UNCHANGED <<objVars, slot, lockVars, locals>>

\* ... then the store, and kvo_release of the table's reference
InvStore(t) ==
  /\ pc[t] = "invStore"
  /\ state' = "invalid"
  /\ CallRelease(t, tok[t], "remove")
  /\ UNCHANGED <<mem, refcount, owner, slot, lockVars, seen>>

-----------------------------------------------------------------------------
\* A step inside an operation, once the thread has called it.
Continue(t) ==
  \/ Load(t) \/ Check(t) \/ Cas(t) \/ Recheck(t)
  \/ Sub(t) \/ Deinit(t) \/ Free(t)
  \/ EndWrite(t) \/ SnapLock(t) \/ SnapEnd(t)
  \/ TabUnlock(t) \/ InsCheck(t) \/ InsPut(t) \/ Find(t)
  \/ Take(t) \/ InvTrigger(t) \/ InvStore(t)

Call(t) ==
  \/ Dup(t) \/ Drop(t) \/ BeginWrite(t) \/ BeginSnapshot(t)
  \/ BeginInsert(t) \/ BeginLookup(t) \/ BeginRemove(t)

Next == \E t \in Thread : Continue(t) \/ Call(t)

Spec == Init /\ [][Next]_vars

\* Threads finish the operations they are in, and whoever holds references
\* keeps coming back to release one (every caller of retain does).
FairSpec ==
  /\ Spec
  /\ \A t \in Thread : WF_vars(Continue(t)) /\ SF_vars(Drop(t))

-----------------------------------------------------------------------------
(* Properties                                                              *)

TypeOK ==
  /\ mem \in {"live", "freed"}
  /\ refcount \in Nat
  /\ state \in {"normal", "invalid"}
  /\ owner \in [Ref -> Thread \cup {Table, Nobody}]
  /\ slot \in BOOLEAN
  /\ tabR \in SUBSET Thread /\ tabW \in Thread \cup {Nobody}
  /\ rwR \in SUBSET Thread /\ rwW \in Thread \cup {Nobody}
  /\ pc \in [Thread -> PC]
  /\ op \in [Thread -> Ops]
  /\ seen \in [Thread -> Nat]
  /\ tok \in [Thread -> Ref \cup {NoRef}]

\* The counter is exactly the number of references anybody is entitled to,
\* whatever retains, rollbacks, removals and snapshots are in flight.
RefcountExact == refcount = Cardinality(Held)

\* Once the memory is freed no thread is at an access to it, and the process
\* table no longer maps the pid to it.
NoUseAfterFree ==
  mem = "freed" => ~slot /\ \A t \in Thread : pc[t] \notin TouchPC

\* kvobject_release's kpanic("reference underflow ...") "never happens
\* legitimately" (reference.c): no interleaving of the operations reaches it.
NoUnderflowPanic == \A t \in Thread : pc[t] # "panic"

\* defs.h calls kvo->rwlock the "main read-write lock of this structure,
\* mainly used when modifying kcproc": while a thread is between kvo_wrlock
\* and kvo_unlock no snapshot copies the structure, and no other writes it.
RwExclusion ==
  \A t, u \in Thread :
    t # u /\ pc[t] = "write" => pc[u] \notin {"write", "snapCopy"}

\* An invalidated object ("effectively useless", defs.h) is reclaimed once its
\* holders let go: no refused retain keeps a count alive for ever.
Reclaimed == state = "invalid" ~> mem = "freed"

\* A count taken by a retain that has not made its second look at the state,
\* or is being rolled back, is not a reference yet: retain promises the one
\* thing RefObject says, that nobody obtains a reference after invalidation.
Pending(r) ==
  \E t \in Thread : /\ tok[t] = r
                     /\ pc[t] \in {"recheck", "sub"}
                     /\ op[t] \notin {"none", "remove"}

Promise == INSTANCE RefObject
  WITH holder <- [r \in Ref |-> IF Pending(r) THEN Nobody ELSE owner[r]],
       valid  <- state = "normal",
       alive  <- mem = "live",
       Holder <- Thread \cup {Table}

ImplementsRefObject == Promise!Spec
=============================================================================
