------------------------------ MODULE ProcTree ------------------------------
(***************************************************************************)
(* The life cycle of a process in ksurface: posix_spawn (PEProcess,        *)
(* proc_spawn), exit (processDidExit, proc_state_change, proc_zombify),    *)
(* reaping (proc_reap, called by exit, by wait4 and by itself) and the     *)
(* bookkeeping they share: the process table, the parent/child contracts,  *)
(* the references, the zombie state and the host's processes.              *)
(*                                                                         *)
(* A member of Proc is one process from spawn to the end; pids are not     *)
(* recycled.  kernel_proc_ is immortal and its references are not counted. *)
(* retain, release and invalidate are the atomic operations of RefObject,  *)
(* which KVObject implements.  The process table's lock is held across     *)
(* calls and is a variable; its errors panic, as in the DEBUG build        *)
(* (lock.h).  A section on children mutexes, a trigger and a use of a      *)
(* process's rwlock are one step each, taken when the locks are free.      *)
(* wait4, its event handler and a walk of the table block inside theirs:   *)
(* module Wait4 has those threads one by one, and the cycles in which they *)
(* hold their locks for ever.  Here such locks are jammed, and a step that *)
(* needs one is not taken any more.                                        *)
(***************************************************************************)
EXTENDS Integers, Sequences, FiniteSets

CONSTANTS
  Thread,    \* threads of the host that run kernel code
  Proc,      \* the processes that may be spawned
  Kernel,    \* kernel_proc_
  None,      \* no process, no thread
  ChildMax,  \* CHILD_PROC_MAX
  JamMax     \* bound: how many things Wait4's cycles catch

ASSUME ProcTreeAssumption ==
  /\ IsFiniteSet(Proc) /\ IsFiniteSet(Thread)
  /\ Kernel \notin Proc
  /\ None \notin Proc \cup Thread \cup {Kernel}
  /\ ChildMax \in Nat /\ JamMax \in Nat

VARIABLES
  refs,      \* refcount of each process object
  valid,     \* its state is kvObjStateNormal
  table,     \* the processes in the radix tree
  parent,    \* children.parent
  idx,       \* children.parent_cld_idx
  kids,      \* children.children[0 .. children_cnt - 1]
  zombie,    \* p_stat = SZOMB
  status,    \* p_status holds the exit status
  host,      \* the FBProcess behind it
  held,      \* PEProcess.proc is set
  managed,   \* PEProcessManager's dictionary has it
  session,   \* its ServerSession holds a reference (ServerSession._proc)
  tab,       \* who holds the process table for writing
  proctil,   \* who holds the proctil lock
  stack,     \* per thread: the operations in progress, innermost first
  leaked,    \* history: references given up without a release
  panic,     \* the kernel has panicked
  jam        \* caught in a cycle of Wait4: "table" for the process table, a
             \* process for its children.mutex, its event_rwlock and the
             \* rwlocks of its children

objVars  == <<refs, valid, leaked>>
treeVars == <<parent, idx, kids>>
hostVars == <<host, held, managed>>
lockVars == <<tab, proctil>>
\* what a step that only counts references leaves alone
quietVars == <<valid, leaked, table, treeVars, zombie, status, session>>
notRefs == <<quietVars, hostVars, lockVars, panic>>
kernVars == <<refs, valid, table, parent, idx, kids, zombie, status, host, held,
              managed, session, tab, proctil, stack, leaked, panic>>
vars == <<kernVars, jam>>

AnyProc == Proc \cup {Kernel}

Init ==
  /\ refs = [p \in Proc |-> 0]
  /\ valid = {Kernel}
  /\ table = {}
  /\ parent = [p \in Proc |-> None]
  /\ idx = [p \in Proc |-> 0]
  /\ kids = [p \in AnyProc |-> <<>>]
  /\ zombie = {} /\ status = {}
  /\ host = [p \in Proc |-> "none"]
  /\ held = {} /\ managed = {} /\ session = {}
  /\ tab = None /\ proctil = None
  /\ stack = [t \in Thread |-> <<>>]
  /\ leaked = [p \in Proc |-> 0]
  /\ panic = FALSE
  /\ jam = {}

-----------------------------------------------------------------------------
(* Frames.  p is the process the operation is about, q its parent or the   *)
(* child it is busy with.                                                  *)

Frame(o, l, p, q) == [op |-> o, at |-> l, p |-> p, q |-> q]
Top(t) == Head(stack[t])
Idle(t) == stack[t] = <<>>
At(t, o, l) == ~Idle(t) /\ Top(t).op = o /\ Top(t).at = l

Start(t, f) == Idle(t) /\ stack' = [stack EXCEPT ![t] = <<f>>]
Goto(t, l, q) ==
  stack' = [stack EXCEPT ![t] =
              <<Frame(Top(t).op, l, Top(t).p, q)>> \o Tail(@)]
\* call proc_reap(c), to continue at l
CallReap(t, l, q, c) ==
  stack' = [stack EXCEPT ![t] =
              <<Frame("reap", "begin", c, None),
                Frame(Top(t).op, l, Top(t).p, q)>> \o Tail(@)]
Return(t) == stack' = [stack EXCEPT ![t] = Tail(@)]

\* The locks of these are to be had.
Free(S) == S \cap jam = {}

\* Locks are caught where a process may wait for a child, and with them what a
\* thread holds that waits for one: an over-approximation of Wait4's cycles.
Jam(x) ==
  /\ x \notin jam /\ Cardinality(jam) < JamMax
  /\ \E q \in Proc : kids[q] # <<>>
  /\ jam' = jam \cup {x}
  /\ UNCHANGED kernVars

\* r with n more references to p
Count(r, p, n) == IF p \in Proc THEN [r EXCEPT ![p] = @ + n] ELSE r

-----------------------------------------------------------------------------
(* posix_spawn                                                             *)

\* ServerSession.proc: looked up once, kept until the session goes away
OpenSession(q) ==
  /\ q \in table \cap valid /\ q \notin session
  /\ host[q] # "done"
  /\ tab = None /\ Free({"table"})
  /\ session' = session \cup {q}
  /\ refs' = Count(refs, q, 1)
  /\ UNCHANGED <<valid, leaked, table, treeVars, zombie, status, hostVars,
                 lockVars, stack, panic>>

\* Mutant: the session goes although a spawn block still uses its process.
CloseSessionEarly(q) ==
  /\ q \in session
  /\ host[q] \in {"dead", "done"}
  /\ session' = session \ {q}
  /\ refs' = Count(refs, q, -1)
  /\ UNCHANGED <<valid, leaked, table, treeVars, zombie, status, hostVars,
                 lockVars, stack, panic>>

\* the connection ended and no spawn block holds the session any more
CloseSession(q) ==
  /\ q \in session
  /\ host[q] \in {"dead", "done"}
  /\ \A t \in Thread : ~Idle(t) => ~(Top(t).op = "spawn" /\ Top(t).q = q)
  /\ session' = session \ {q}
  /\ refs' = Count(refs, q, -1)
  /\ UNCHANGED <<valid, leaked, table, treeVars, zombie, status, hostVars,
                 lockVars, stack, panic>>

\* Mutant: the parent is any pid, not the process of the caller's session.
SpawnLaunchUnchecked(t, q, p) ==
  /\ host[p] = "none"
  /\ proctil = None /\ proctil' = t
  /\ host' = [host EXCEPT ![p] = "running"]
  /\ Start(t, Frame("spawn", "insert", p, q))
  /\ UNCHANGED <<objVars, table, treeVars, zombie, status, held, managed,
                 session, tab, panic>>

\* initWithItems: take the proctil lock, launch the host process, observe it;
\* it is running when checked
SpawnLaunch(t, q, p) ==
  /\ q \in session \cup {Kernel}
  /\ host[p] = "none"
  /\ proctil = None /\ proctil' = t
  /\ host' = [host EXCEPT ![p] = "running"]
  /\ Start(t, Frame("spawn", "insert", p, q))
  /\ UNCHANGED <<objVars, table, treeVars, zombie, status, held, managed,
                 session, tab, panic>>

\* Mutant: the failure path of initWithItems forgets the proctil lock.
SpawnFailedKeepsProctil(t, p) ==
  /\ host' = [host EXCEPT ![p] = IF @ = "running" THEN "killed" ELSE @]
  /\ UNCHANGED proctil
  /\ Return(t)

\* back in initWithItems after a failed proc_spawn: [self terminate]
SpawnFailed(t, p) ==
  /\ host' = [host EXCEPT ![p] = IF @ = "running" THEN "killed" ELSE @]
  /\ proctil' = None
  /\ Return(t)

\* kvo_copy, which reads the parent, and proc_insert; proc_insert may refuse,
\* the copy is then freed
SpawnInsert(t) ==
  /\ At(t, "spawn", "insert")
  /\ tab = None /\ Free({"table"} \cup {parent[q] : q \in {Top(t).q} \cap Proc})
  /\ LET p == Top(t).p IN
     \/ /\ table' = table \cup {p}
        /\ valid' = valid \cup {p}
        /\ refs' = Count(refs, p, 2)
        /\ Goto(t, "adopt", Top(t).q)
        /\ UNCHANGED <<host, proctil>>
     \/ /\ SpawnFailed(t, p)
        /\ UNCHANGED <<table, valid, refs>>
  /\ UNCHANGED <<leaked, treeVars, zombie, status, held, managed, session,
                 tab, panic>>

\* the parent's reference for the contract; a refusal skips the release of
\* the child's first reference
SpawnAdopt(t) ==
  /\ At(t, "spawn", "adopt")
  /\ LET p == Top(t).p  q == Top(t).q IN
     \/ /\ q \in valid
        /\ refs' = Count(refs, q, 1)
        /\ Goto(t, "contract", q)
        /\ UNCHANGED leaked
     \/ /\ q \notin valid
        /\ leaked' = Count(leaked, p, 1)
        /\ Goto(t, "undo", q)
        /\ UNCHANGED refs
  /\ UNCHANGED <<valid, table, treeVars, zombie, status, hostVars, session,
                 lockVars, panic>>

\* under both children mutexes; at the limit the parent's reference stays
SpawnContract(t) ==
  /\ At(t, "spawn", "contract") /\ Free({Top(t).p, Top(t).q})
  /\ LET p == Top(t).p  q == Top(t).q IN
     \/ /\ Len(kids[q]) < ChildMax /\ p \in valid
        /\ refs' = Count(refs, p, 1)
        /\ parent' = [parent EXCEPT ![p] = q]
        /\ idx' = [idx EXCEPT ![p] = Len(kids[q])]
        /\ kids' = [kids EXCEPT ![q] = Append(@, p)]
        /\ Goto(t, "ready", q)
        /\ UNCHANGED leaked
     \/ /\ Len(kids[q]) >= ChildMax \/ p \notin valid
        /\ refs' = Count(refs, p, -1)
        /\ leaked' = Count(leaked, q, 1)
        /\ Goto(t, "undo", q)
        /\ UNCHANGED treeVars
  /\ UNCHANGED <<valid, table, zombie, status, hostVars, session, lockVars,
                 panic>>

\* radix_remove, invalidate, release of the table's reference
Remove(p, r) ==
  /\ table' = table \ {p}
  /\ valid' = IF p \in table THEN valid \ {p} ELSE valid
  /\ refs' = IF p \in table THEN Count(r, p, -1) ELSE r

SpawnUndo(t) ==
  /\ At(t, "spawn", "undo")
  /\ tab = None /\ Free({"table"})
  /\ Remove(Top(t).p, refs)
  /\ SpawnFailed(t, Top(t).p)
  /\ UNCHANGED <<leaked, treeVars, zombie, status, held, managed, session,
                 tab, panic>>

\* self.proc = child takes over the first reference; proctil is unlocked
SpawnReady(t) ==
  /\ At(t, "spawn", "ready")
  /\ held' = held \cup {Top(t).p}
  /\ proctil' = None
  /\ Goto(t, "register", Top(t).q)
  /\ UNCHANGED <<objVars, table, treeVars, zombie, status, host, managed,
                 session, tab, panic>>

\* PEProcessManager observes the process and enters it in its dictionary
SpawnRegister(t) ==
  /\ At(t, "spawn", "register")
  /\ managed' = managed \cup {Top(t).p}
  /\ Return(t)
  /\ UNCHANGED <<objVars, table, treeVars, zombie, status, host, held,
                 session, lockVars, panic>>

-----------------------------------------------------------------------------
(* proc_reap                                                               *)

LastKid(q) == kids[q][Len(kids[q])]

\* Mutant: the early return for a refused retain keeps the table locked.
ReapBeginKeepsLock(t) ==
  /\ At(t, "reap", "begin") /\ Free({"table"})
  /\ tab = None /\ tab' = t
  /\ IF Top(t).p \in valid
       THEN refs' = Count(refs, Top(t).p, 1) /\ Goto(t, "kids", None)
       ELSE Return(t) /\ UNCHANGED refs
  /\ UNCHANGED <<quietVars, hostVars, proctil, panic>>

\* take the table for writing (a second time on one thread is an error of
\* the lock) and retain; an object already invalid is refused
ReapBegin(t) ==
  /\ At(t, "reap", "begin") /\ Free({"table"})
  /\ LET p == Top(t).p IN
     \/ /\ tab = t
        /\ panic' = TRUE
        /\ UNCHANGED <<tab, refs, stack>>
     \/ /\ tab = None /\ p \in valid
        /\ tab' = t
        /\ refs' = Count(refs, p, 1)
        /\ Goto(t, "kids", None)
        /\ UNCHANGED panic
     \/ /\ tab = None /\ p \notin valid
        /\ Return(t)
        /\ UNCHANGED <<tab, refs, panic>>
  /\ UNCHANGED <<quietVars, hostVars, proctil>>

\* The loop over the children, the same in proc_reap and proc_zombify: retain
\* the last one and reap it without the mutex; one that cannot be retained is
\* tried again for ever, under the mutex.
KillChild(t) ==
  /\ At(t, "reap", "kids") \/ At(t, "exit", "kids")
  /\ kids[Top(t).p] # <<>> /\ Free({Top(t).p})
  /\ LET c == LastKid(Top(t).p) IN
     \/ /\ c \in valid
        /\ refs' = Count(refs, c, 1)
        /\ CallReap(t, "drop", c, c)
     \/ /\ c \notin valid
        /\ Goto(t, "spin", c)
        /\ UNCHANGED refs
  /\ UNCHANGED notRefs

\* Mutant: the child is released both by the loop and by the callee.
DropChildTwice(t) ==
  /\ At(t, "reap", "drop") \/ At(t, "exit", "drop")
  /\ Free({Top(t).p})
  /\ refs' = Count(refs, Top(t).q, -2)
  /\ Goto(t, "kids", None)
  /\ UNCHANGED notRefs

DropChild(t) ==
  /\ At(t, "reap", "drop") \/ At(t, "exit", "drop")
  /\ Free({Top(t).p})
  /\ refs' = Count(refs, Top(t).q, -1)
  /\ Goto(t, "kids", None)
  /\ UNCHANGED notRefs

\* Mutant: the process leaves the table without leaving its parent.
ReapParentSkips(t) ==
  /\ At(t, "reap", "kids") /\ Free({Top(t).p})
  /\ kids[Top(t).p] = <<>>
  /\ Goto(t, "remove", None)
  /\ UNCHANGED <<refs, notRefs>>

\* no children left: read and retain the parent
ReapParent(t) ==
  /\ At(t, "reap", "kids") /\ Free({Top(t).p})
  /\ LET p == Top(t).p  q == parent[p] IN
     /\ kids[p] = <<>>
     /\ \/ /\ q = None
           /\ Goto(t, "remove", None)
           /\ UNCHANGED <<refs, tab>>
        \/ /\ q \in valid
           /\ refs' = Count(refs, q, 1)
           /\ Goto(t, "unlink", q)
           /\ UNCHANGED tab
        \/ /\ q # None /\ q \notin valid
           /\ refs' = Count(refs, p, -1)
           /\ tab' = None
           /\ Return(t)
  /\ UNCHANGED <<quietVars, hostVars, proctil, panic>>

\* Mutant: the child that is swapped into p's slot keeps its old index.
MovedIdxStale(p, q) == [idx EXCEPT ![p] = 0]

\* parent_cld_idx once q's last child has taken p's slot
MovedIdx(p, q) == [idx EXCEPT ![LastKid(q)] = idx[p], ![p] = 0]

\* Mutant: the child's reference to its parent is not released.
EndContractLeaks(p, q) == Count(Count(refs, p, -1), q, -1)

\* both contract references and the working reference of the parent
EndContract(p, q) == Count(Count(refs, p, -1), q, -2)

\* swap with the last child, clear the slot, end the contract
ReapUnlink(t) ==
  /\ At(t, "reap", "unlink") /\ Free({Top(t).p, Top(t).q, LastKid(Top(t).q)})
  /\ LET p == Top(t).p  q == Top(t).q  n == Len(kids[q]) IN
     /\ kids' = [kids EXCEPT ![q] =
                   SubSeq([@ EXCEPT ![idx[p] + 1] = LastKid(q)], 1, n - 1)]
     /\ idx' = MovedIdx(p, q)
     /\ parent' = [parent EXCEPT ![p] = None]
     /\ refs' = EndContract(p, q)
  /\ Goto(t, "remove", None)
  /\ UNCHANGED <<valid, leaked, table, zombie, status, hostVars, session,
                 lockVars, panic>>

\* out of the table, release the working reference, forceTerminate the
\* process if the manager knows it, unlock
ReapRemove(t) ==
  /\ At(t, "reap", "remove")
  /\ LET p == Top(t).p IN
     /\ Remove(p, Count(refs, p, -1))
     /\ host' = [host EXCEPT ![p] =
                   IF p \in managed /\ @ = "running" THEN "killed" ELSE @]
  /\ tab' = None
  /\ Return(t)
  /\ UNCHANGED <<leaked, treeVars, zombie, status, held, managed, session,
                 proctil, panic>>

-----------------------------------------------------------------------------
(* Exit                                                                    *)

\* the host process ends, by itself or by a signal
HostDies(p) ==
  /\ host[p] \in {"running", "killed"}
  /\ host' = [host EXCEPT ![p] = "dead"]
  /\ UNCHANGED <<objVars, table, treeVars, zombie, status, held, managed,
                 session, lockVars, stack, panic>>

\* Mutant: the process is zombified without proc_state_change.
ExitBeginUnreported(t, p) ==
  /\ host[p] = "dead" /\ p \in held
  /\ host' = [host EXCEPT ![p] = "done"]
  /\ held' = held \ {p}
  /\ Start(t, Frame("exit", "retain", p, None))
  /\ UNCHANGED <<objVars, table, treeVars, zombie, status, managed, session,
                 lockVars, panic>>

\* processDidExit; without self.proc only the observers are told
ExitBegin(t, p) ==
  /\ host[p] = "dead"
  /\ host' = [host EXCEPT ![p] = "done"]
  /\ \/ /\ p \in held
        /\ held' = held \ {p}
        /\ Start(t, Frame("exit", "status", p, None))
        /\ UNCHANGED managed
     \/ /\ p \notin held /\ Idle(t)
        /\ managed' = managed \ {p}
        /\ UNCHANGED <<held, stack>>
  /\ UNCHANGED <<objVars, table, treeVars, zombie, status, session, lockVars,
                 panic>>

\* proc_state_change: only a process whose parent can be retained gets its
\* exit status, under the parent's mutex; the trigger that follows waits for
\* the parent's events and, in wait4's handler, for its mutex and the child
ExitStatus(t) ==
  /\ At(t, "exit", "status") /\ Free({Top(t).p, parent[Top(t).p]})
  /\ status' = status \cup {p \in {Top(t).p} : parent[p] \in valid}
  /\ Goto(t, "retain", None)
  /\ UNCHANGED <<objVars, table, treeVars, zombie, hostVars, session,
                 lockVars, panic>>

\* proc_zombify, which a process already removed refuses
ExitRetain(t) ==
  /\ At(t, "exit", "retain")
  /\ LET p == Top(t).p IN
     \/ p \in valid /\ refs' = Count(refs, p, 1) /\ Goto(t, "kids", None)
     \/ p \notin valid /\ Goto(t, "leave", None) /\ UNCHANGED refs
  /\ UNCHANGED notRefs

\* Mutant: a child of the kernel becomes a zombie like any other.
ExitKidsZombify(t) ==
  /\ At(t, "exit", "kids") /\ Free({Top(t).p})
  /\ kids[Top(t).p] = <<>>
  /\ Goto(t, "mark", None)
  /\ UNCHANGED <<refs, notRefs>>

\* a child of the kernel is reaped at once, any other becomes a zombie
ExitKids(t) ==
  /\ At(t, "exit", "kids") /\ Free({Top(t).p})
  /\ LET p == Top(t).p IN
     /\ kids[p] = <<>>
     /\ \/ /\ parent[p] = Kernel
           /\ refs' = Count(refs, p, -1)
           /\ CallReap(t, "leave", None, p)
        \/ /\ parent[p] # Kernel
           /\ Goto(t, "mark", None)
           /\ UNCHANGED refs
  /\ UNCHANGED notRefs

\* under the process's own rwlock, which a wait4 of the parent may have
ExitMark(t) ==
  /\ At(t, "exit", "mark") /\ Free({parent[Top(t).p]})
  /\ zombie' = zombie \cup {Top(t).p}
  /\ Goto(t, "notify", None)
  /\ UNCHANGED <<objVars, table, treeVars, status, hostVars, session,
                 lockVars, panic>>

\* the trigger of the parent's Wait4 event, with the locks of ExitStatus,
\* SIGCHLD, and the release in proc_zombify
ExitNotify(t) ==
  /\ At(t, "exit", "notify") /\ Free({Top(t).p, parent[Top(t).p]})
  /\ refs' = Count(refs, Top(t).p, -1)
  /\ Goto(t, "leave", None)
  /\ UNCHANGED notRefs

\* processDidExit releases PEProcess's reference and tells the observers
ExitLeave(t) ==
  /\ At(t, "exit", "leave")
  /\ refs' = Count(refs, Top(t).p, -1)
  /\ managed' = managed \ {Top(t).p}
  /\ Return(t)
  /\ UNCHANGED <<valid, leaked, table, treeVars, zombie, status, host, held,
                 session, lockVars, panic>>

-----------------------------------------------------------------------------
(* wait4: a zombie child is retained under its parent's mutex and reaped   *)
(* without it, by the caller's thread or by the thread the Wait4 event     *)
(* starts.  The caller holds the parent through its snapshot, has the      *)
(* child's rwlock while it reaps (which is how the locks of the parent get *)
(* caught) and takes the mutex again; the event's thread does none of it.  *)

WaitReap(t, q, c) ==
  /\ Idle(t) /\ Free({q})
  /\ c \in {kids[q][i] : i \in 1 .. Len(kids[q])} \cap zombie \cap valid
  /\ \/ /\ q \in table \cap valid
        /\ refs' = Count(Count(refs, c, 1), q, 1)
        /\ stack' = [stack EXCEPT ![t] = <<Frame("reap", "begin", c, None),
                                           Frame("wait", "drop", c, q)>>]
     \/ /\ refs' = Count(refs, c, 1)
        /\ stack' = [stack EXCEPT ![t] = <<Frame("reap", "begin", c, None),
                                           Frame("wait", "drop", c, None)>>]
  /\ UNCHANGED notRefs

WaitDone(t) ==
  /\ At(t, "wait", "drop") /\ Free({Top(t).q})
  /\ refs' = Count(Count(refs, Top(t).p, -1), Top(t).q, -1)
  /\ Return(t)
  /\ UNCHANGED notRefs

-----------------------------------------------------------------------------
\* A thread inside an operation takes its next step.
Continue(t) ==
  /\ \/ SpawnInsert(t) \/ SpawnAdopt(t) \/ SpawnContract(t) \/ SpawnUndo(t)
     \/ SpawnReady(t) \/ SpawnRegister(t)
     \/ ReapBegin(t) \/ KillChild(t) \/ DropChild(t)
     \/ ReapParent(t) \/ ReapUnlink(t) \/ ReapRemove(t)
     \/ ExitStatus(t) \/ ExitRetain(t) \/ ExitKids(t) \/ ExitMark(t)
     \/ ExitNotify(t) \/ ExitLeave(t)
     \/ WaitDone(t)
  /\ UNCHANGED jam

Call(t) ==
  \/ \E q \in AnyProc, p \in Proc : SpawnLaunch(t, q, p)
  \/ \E q, c \in Proc : WaitReap(t, q, c)

\* Nothing is in progress, or the kernel, or what waits for a jam, has stopped.
Quiet == \A t \in Thread : Idle(t)
Rest == (Quiet \/ panic \/ jam # {}) /\ UNCHANGED vars

Next ==
  \/ /\ ~panic
     /\ \/ \E t \in Thread : Continue(t) \/ Call(t)
        \/ \E t \in Thread, p \in Proc : ExitBegin(t, p)
        \/ \E p \in Proc : HostDies(p) \/ OpenSession(p) \/ CloseSession(p)
     /\ UNCHANGED jam
  \/ ~panic /\ \E x \in AnyProc \cup {"table"} : Jam(x)
  \/ Rest

Spec == Init /\ [][Next]_vars

\* Threads run, unless a jam stops them; pthread rwlocks and proctil queue
\* their waiters, so a thread that waits for a lock again and again released
\* gets it; exits of host processes are delivered.
FairSpec ==
  /\ Spec
  /\ \A t \in Thread : SF_vars(~panic /\ Continue(t))
  /\ \A p \in Proc :
       WF_vars(~panic /\ UNCHANGED jam /\ \E t \in Thread : ExitBegin(t, p))

-----------------------------------------------------------------------------
(* Properties                                                              *)

HostState == {"none", "running", "killed", "dead", "done"}
FrameType ==
  [op : {"spawn", "reap", "exit", "wait"},
   at : {"insert", "adopt", "contract", "undo", "ready", "register",
         "begin", "kids", "drop", "spin", "unlink", "remove",
         "status", "retain", "mark", "notify", "leave"},
   p : Proc, q : AnyProc \cup {None}]

TypeOK ==
  /\ refs \in [Proc -> Nat]
  /\ leaked \in [Proc -> Nat]
  /\ valid \subseteq AnyProc
  /\ table \subseteq Proc
  /\ parent \in [Proc -> AnyProc \cup {None}]
  /\ idx \in [Proc -> Nat]
  /\ kids \in [AnyProc -> Seq(Proc)]
  /\ zombie \subseteq Proc /\ status \subseteq Proc
  /\ host \in [Proc -> HostState]
  /\ held \subseteq Proc /\ managed \subseteq Proc /\ session \subseteq Proc
  /\ tab \in Thread \cup {None} /\ proctil \in Thread \cup {None}
  /\ stack \in [Thread -> Seq(FrameType)]
  /\ panic \in BOOLEAN
  /\ jam \subseteq AnyProc \cup {"table"}

\* The frame of t at a level: 1 is the outermost operation.
Levels(t) == 1 .. Len(stack[t])
FrameAt(t, n) == stack[t][Len(stack[t]) + 1 - n]

\* Frame f owns a reference to x, for the reason r.
Holds(f, r, x) ==
  CASE r = "p" ->
         /\ f.p = x
         /\ \/ f.op \in {"exit", "wait"}
            \/ f.op = "spawn" /\ f.at \in {"adopt", "contract", "ready"}
            \/ f.op = "reap" /\ f.at # "begin"
    [] r = "p2" ->
         /\ f.p = x /\ f.op = "exit"
         /\ f.at \in {"kids", "drop", "spin", "mark", "notify"}
    [] r = "q" ->
         /\ f.q = x
         /\ f.at \in {"contract", "drop", "unlink"}

\* The frames that own a reference to x, each tagged with the reason.
FramesHolding(x) ==
  {e \in UNION {{t} \X Levels(t) \X {"p", "p2", "q"} : t \in Thread} :
     Holds(FrameAt(e[1], e[2]), e[3], x)}

\* Who is entitled to a reference to p: the table, PEProcess, the session,
\* both sides of its contracts, and the operations in progress.
Entitled(p) ==
  Cardinality({s \in {"table", "held", "session", "child"} :
                 \/ s = "table" /\ p \in table
                 \/ s = "held" /\ p \in held
                 \/ s = "session" /\ p \in session
                 \/ s = "child" /\ parent[p] # None})
  + Len(kids[p])
  + Cardinality(FramesHolding(p))

\* The counter of every process is what its holders are entitled to, plus what
\* proc_spawn's failure paths (spawn.m:124-143) give up without a release:
\* nothing is freed under a holder and nothing else leaks.
CountExact == \A p \in Proc : refs[p] = Entitled(p) + leaked[p]

\* The two sides of a contract agree: parent and parent_cld_idx of a child
\* name the slot of the parent's array that holds it, in every order of
\* spawns, exits and reaps that swap slots.
ContractSymmetric ==
  /\ \A q \in AnyProc : \A i \in 1 .. Len(kids[q]) :
       parent[kids[q][i]] = q /\ idx[kids[q][i]] = i - 1
  /\ \A p \in Proc : parent[p] # None =>
       \E i \in 1 .. Len(kids[parent[p]]) : kids[parent[p]][i] = p

\* proc_reap and proc_zombify "skip the child" they cannot retain, which is a
\* loop for ever under the mutex (spawn.m:231-235): no thread ever meets a
\* child in that state, because contracts end before objects are invalidated.
NoSpin == \A t \in Thread : ~At(t, "reap", "spin") /\ ~At(t, "exit", "spin")

\* wait4 reports p_status of a zombie: it was recorded before the zombie could
\* be seen by a parent that is still there.
ZombieHasStatus == \A p \in zombie : parent[p] \in valid => p \in status

\* While no lock is jammed nobody waits for ever: a thread inside an operation
\* takes its next step, or waits for the process table, whose owner takes its
\* own.  The order is proctil, the table, the children mutexes, and every early
\* return of proc_reap and proc_spawn gives its locks back.
WaitsForTable(t) ==
  \/ At(t, "spawn", "insert") \/ At(t, "spawn", "undo")
  \/ At(t, "reap", "begin") /\ tab # t
Goes(t) ==
  /\ ~Idle(t) /\ Top(t).at # "spin"
  /\ WaitsForTable(t) => tab = None
WaitsEnd ==
  panic \/ jam # {} \/ \A t \in Thread :
    /\ ~Idle(t) => Goes(t) \/ Goes(tab)
    /\ proctil = t => ~Idle(t)

\* The contracts form a forest under the kernel and under processes that
\* have left it: every set of processes has one whose parent is outside, so
\* no process is its own ancestor and the recursion of proc_reap over the
\* children comes to an end.
Forest ==
  \A S \in SUBSET Proc : S # {} => \E p \in S : parent[p] \notin S

\* A process is not freed while an operation is busy with it, also where the
\* operation has no reference of its own: a reap lives on its caller's until
\* it retains, a spawn on its parent's session, a failed spawn on the table.
NothingFreedInUse ==
  \A t \in Thread : \A n \in Levels(t) : LET f == FrameAt(t, n) IN
    /\ f.at \notin {"insert", "register"} => refs[f.p] > 0
    /\ f.q \in Proc => refs[f.q] > 0

\* How far the spawn, or the life, of p has come.
InSpawn(p, places) ==
  \E t \in Thread : \E l \in places : At(t, "spawn", l) /\ Top(t).p = p
StageOf(p) ==
  CASE p \in table /\ parent[p] # None -> "child"
    [] p \in table /\ parent[p] = None ->
         IF InSpawn(p, {"adopt", "contract", "undo"}) THEN "loose" ELSE "left"
    [] OTHER ->
         IF host[p] = "none" \/ InSpawn(p, {"insert"}) THEN "none" ELSE "gone"

\* Behind locks, references and retries the processes live as ProcLife says:
\* entered once, adopted once by an older process, out of the table only after
\* their parent let go of them, and zombies with a status.
Life == INSTANCE ProcLife WITH stage <- [p \in Proc |-> StageOf(p)]
ImplementsProcLife == Life!Spec

Exiting(p) ==
  \E t \in Thread : \E i \in 1 .. Len(stack[t]) :
    stack[t][i].op = "exit" /\ stack[t][i].p = p

\* An exit that reached processDidExit ends with the process out of the table
\* or a zombie waiting for its parent; a child of the kernel, for which nobody
\* calls wait4, does not stay a zombie.  Only a panic or a jam stops it: an
\* exit whose trigger meets a cycle of Wait4 never comes to proc_zombify.
ExitCompletes ==
  \A p \in Proc :
    Exiting(p) ~> \/ panic \/ jam # {} \/ p \notin table
                  \/ p \in zombie /\ parent[p] # Kernel

\* Every spawn, exit, reap and wait returns: the table lock, the proctil lock
\* and the loops over children let everybody through, as long as no cycle of
\* Wait4 jams a lock on the way.
OperationsReturn ==
  \A t \in Thread : ~Idle(t) ~> Idle(t) \/ panic \/ jam # {}

\* lock.h panics when taking the process table's lock fails; the recursion of
\* proc_reap means to "claim the lock on the recurse" (spawn.m:349).
NoLockPanic == ~panic

\* "killing all children of the exiting process" (spawn.m:223, 334): when
\* nothing is in progress, a running process is in the table under a parent
\* that is there too.
ExitKillsChildren ==
  Quiet => \A p \in Proc : host[p] = "running" =>
             p \in table /\ parent[p] \in table \cup {Kernel}

\* "when we add a observer and it already died then we shall handle the exit"
\* (PEProcess.m:194): no process whose exit was delivered stays in the table
\* as if it were running, nor in PEProcessManager.
ExitIsHandled ==
  Quiet => \A p \in Proc : host[p] = "done" =>
             p \notin table \ zombie /\ p \notin managed
=============================================================================
