------------------------------- MODULE Wait4 -------------------------------
(***************************************************************************)
(* wait4 of one parent (S/sys/proc/wait4.c) against the exits, stops and   *)
(* continues of its children (proc_state_change and proc_zombify) and the  *)
(* event list of the parent's kvobject (S/libkern/obj/event.c), and        *)
(* against the other syscalls that lock a child or walk the process table. *)
(*                                                                         *)
(* The locks are the subject: the parent's children mutex, its             *)
(* event_rwlock, each child's rwlock and the process table's lock.  The    *)
(* children have no children of their own and the parent stays; spawns and *)
(* the rest of the life cycle are in ProcTree.  A stretch of code that     *)
(* holds all the locks it needs is one step.                               *)
(***************************************************************************)
EXTENDS Integers, Sequences, FiniteSets
LOCAL INSTANCE Functions

CONSTANTS
  Child,      \* the children; also the threads that deliver their exits
  Sender,     \* threads in sendSignal or setpgid
  Lister,     \* threads that walk the process table
  Waiter,     \* the parent's threads that call wait4
  None,       \* no thread
  Options,    \* the sets of options wait4 is called with
  SignalMax   \* bound on the calls of each sender

ASSUME Wait4Assumption ==
  /\ IsFiniteSet(Child)
  /\ None \notin Child \cup Sender \cup Waiter
  /\ Child \cap Waiter = {} /\ Sender \cap (Child \cup Waiter) = {}
  /\ Options \subseteq SUBSET {"nohang", "stopped", "continued"}
  /\ SignalMax \in Nat

Actor == Child \cup Sender

VARIABLES
  mtx,       \* owner of the parent's children.mutex
  ev,        \* owner of the parent's event_rwlock
  tab,       \* owner of the process table's lock, for writing
  walker,    \* lister -> the child whose rwlock it needs, the table locked
  readers,   \* child -> the waiters that hold its rwlock over proc_reap
  linked,    \* the parent's children array
  valid,     \* children whose object can be retained
  held,      \* children with PEProcess.proc
  zombie,    \* children with p_stat = SZOMB
  status,    \* child -> p_status
  events,    \* the waiters whose events are registered, first to last
  wpc, sel, opts, todo, busy,      \* wait4: per waiter
  cpc, subj, cause, walk,          \* an exit or a call: per actor
  signals,   \* sender -> calls so far
  reapers,   \* child -> detached reap threads that have not started
  rpc,       \* child -> the step of its running detached reap thread
  told,      \* history: child -> the statuses its death was reported with
  overtaken, \* history: children whose exit status a signal has overwritten
  panic

lockVars  == <<mtx, ev, tab, walker, readers>>
childVars == <<linked, valid, held, zombie, status>>
waitVars  == <<wpc, sel, opts, todo, busy>>
actorVars == <<cpc, subj, cause, walk, signals>>
reapVars  == <<reapers, rpc>>
hist      == <<told, overtaken>>
vars == <<lockVars, childVars, events, waitVars, actorVars, reapVars, hist,
          panic>>

\* -1 selects all, a pid selects one; waits for a process group, which setpgid
\* changes, are left out
Selectors == {Child} \cup {{c} : c \in Child}

Init ==
  /\ mtx = None /\ ev = None /\ tab = None
  /\ walker = [l \in Lister |-> None] /\ readers = [c \in Child |-> {}]
  /\ linked = Child /\ valid = Child /\ held = Child /\ zombie = {}
  /\ status = [c \in Child |-> "killed"]   \* W_EXITCODE(0, SIGKILL), proc.c
  /\ events = <<>>
  /\ wpc = [w \in Waiter |-> "user"]
  /\ sel = [w \in Waiter |-> {}] /\ opts = [w \in Waiter |-> {}]
  /\ todo = [w \in Waiter |-> {}] /\ busy = [w \in Waiter |-> None]
  /\ cpc = [a \in Actor |-> "idle"] /\ cause = [a \in Actor |-> "none"]
  /\ subj = [a \in Actor |-> IF a \in Child THEN a ELSE None]
  /\ walk = [a \in Actor |-> <<>>] /\ signals = [a \in Sender |-> 0]
  /\ reapers = [c \in Child |-> 0] /\ rpc = [c \in Child |-> "none"]
  /\ told = [c \in Child |-> <<>>] /\ overtaken = {}
  /\ panic = FALSE

\* WIFSTOPPED and WIFCONTINUED against WSTOPPED and WCONTINUED
Changed(o, c) == status[c] \in o \cap {"stopped", "continued"}

\* A zombie is reported with its exit code, or as killed by SIGKILL whatever
\* signal it died of; the cleared status counts as an exit with code 0.
Death(c) == IF status[c] \in {"exited", "zero"} THEN status[c] ELSE "killed"

WGoto(w, l) == wpc' = [wpc EXCEPT ![w] = l]
CGoto(a, l) == cpc' = [cpc EXCEPT ![a] = l]

\* the syscall is over for w, whether it returns or a reply is sent
Answer(w) ==
  /\ wpc' = [wpc EXCEPT ![w] = "user"]
  /\ sel' = [sel EXCEPT ![w] = {}] /\ opts' = [opts EXCEPT ![w] = {}]
  /\ todo' = [todo EXCEPT ![w] = {}] /\ busy' = [busy EXCEPT ![w] = None]

\* copy the status out and clear p_status; a death is remembered
ReportChange(c) ==
  /\ status' = [status EXCEPT ![c] = "zero"]
  /\ UNCHANGED told

\* Mutant: p_status is cleared before it is copied out.
ReportDeathCleared(c) ==
  /\ status' = [status EXCEPT ![c] = "zero"]
  /\ told' = [told EXCEPT ![c] = Append(@, "zero")]

\* Mutant: p_status is not cleared, so that the next reader sees it again.
ReportDeathKept(c) ==
  /\ told' = [told EXCEPT ![c] = Append(@, Death(c))]
  /\ UNCHANGED status

ReportDeath(c) ==
  /\ status' = [status EXCEPT ![c] = "zero"]
  /\ told' = [told EXCEPT ![c] = Append(@, Death(c))]

-----------------------------------------------------------------------------
(* The syscall                                                             *)

\* wait4 up to its lock of the mutex; until then it has read nothing
Call(w) ==
  /\ wpc[w] = "user"
  /\ mtx = None /\ mtx' = w
  /\ \E s \in Selectors, o \in Options :
       /\ sel' = [sel EXCEPT ![w] = s] /\ opts' = [opts EXCEPT ![w] = o]
       /\ todo' = [todo EXCEPT ![w] = linked \cap s]
  /\ WGoto(w, "scan")
  /\ UNCHANGED <<ev, tab, walker, readers, childVars, events, busy, actorVars,
                 reapVars, hist, panic>>

\* the loop comes to a child that matches and asks for its rwlock
ScanNext(w) ==
  /\ wpc[w] = "scan"
  /\ \E c \in todo[w] :
       /\ busy' = [busy EXCEPT ![w] = c]
       /\ todo' = [todo EXCEPT ![w] = @ \ {c}]
  /\ WGoto(w, "look")
  /\ UNCHANGED <<lockVars, childVars, events, sel, opts, actorVars, reapVars,
                 hist, panic>>

\* A writer waits until nobody reads c any more, and no reader overtakes it.
Queued(c) ==
  readers[c] # {} /\ \E a \in Actor : subj[a] = c /\ cpc[a] \in {"queue", "handle"}

\* The child under its rwlock: nothing to say or it cannot be retained; a stop
\* or continue to report; or a zombie, for which the mutex is unlocked while
\* the rwlock stays held.
ScanChild(w) ==
  /\ wpc[w] = "look"
  /\ LET c == busy[w] IN
     /\ ~Queued(c)
     /\ \/ /\ c \notin valid \/ (~Changed(opts[w], c) /\ c \notin zombie)
           /\ WGoto(w, "scan")
           /\ busy' = [busy EXCEPT ![w] = None]
           /\ UNCHANGED <<mtx, readers, status, told, sel, opts, todo>>
        \/ /\ c \in valid /\ Changed(opts[w], c)
           /\ ReportChange(c)
           /\ mtx' = None
           /\ Answer(w)
           /\ UNCHANGED readers
        \/ /\ c \in valid \cap zombie /\ ~Changed(opts[w], c)
           /\ readers' = [readers EXCEPT ![c] = @ \cup {w}]
           /\ mtx' = None
           /\ WGoto(w, "reap")
           /\ UNCHANGED <<status, told, sel, opts, todo, busy>>
  /\ UNCHANGED <<ev, tab, walker, linked, valid, held, zombie, events, actorVars,
                 reapVars, overtaken, panic>>

\* ECHILD, 0 for WNOHANG, or no memory and no right for the payload: any call
\* may end here, and none needs a second lock for it
ScanEnd(w) ==
  /\ wpc[w] = "scan" /\ todo[w] = {}
  /\ mtx' = None
  /\ Answer(w)
  /\ UNCHANGED <<ev, tab, walker, readers, childVars, events, actorVars, reapVars,
                 hist, panic>>

\* there is a child to wait for and the payload is ready
Prepare(w) ==
  /\ wpc[w] = "scan" /\ todo[w] = {}
  /\ linked \cap sel[w] # {} /\ "nohang" \notin opts[w]
  /\ WGoto(w, "register")
  /\ UNCHANGED <<lockVars, childVars, events, sel, opts, todo, busy, actorVars,
                 reapVars, hist, panic>>

\* kvo_event_register, with the mutex held; then the thread goes back to the
\* pool and the caller blocks until the reply.  Or EAGAIN: too many events.
Register(w) ==
  /\ wpc[w] = "register"
  /\ ev = None
  /\ \/ /\ events' = <<w>> \o events
        /\ WGoto(w, "blocked")
        /\ UNCHANGED <<sel, opts, todo, busy>>
     \/ Answer(w) /\ UNCHANGED events
  /\ mtx' = None
  /\ UNCHANGED <<ev, tab, walker, readers, childVars, actorVars, reapVars, hist,
                 panic>>

\* Mutant: the death is reported without the mutex.
ReapReportUnlocked(w) ==
  /\ wpc[w] = "relock"
  /\ ReportDeath(busy[w])
  /\ readers' = [readers EXCEPT ![busy[w]] = @ \ {w}]
  /\ Answer(w)
  /\ UNCHANGED <<mtx, ev, tab, walker, linked, valid, held, zombie, events, actorVars,
                 reapVars, overtaken, panic>>

\* after proc_reap: relock, report the death, unlock both
ReapReport(w) ==
  /\ wpc[w] = "relock"
  /\ mtx = None
  /\ ReportDeath(busy[w])
  /\ readers' = [readers EXCEPT ![busy[w]] = @ \ {w}]
  /\ Answer(w)
  /\ UNCHANGED <<mtx, ev, tab, walker, linked, valid, held, zombie, events, actorVars,
                 reapVars, overtaken, panic>>

-----------------------------------------------------------------------------
(* proc_reap of a child without children, on a waiter's thread or on a     *)
(* detached one: begin under the table's lock, unlink under the parent's   *)
(* mutex, remove and unlock.                                               *)

\* nobody writes the table or walks it
TableFree == tab = None /\ \A l \in Lister : walker[l] = None

ReapBegin(x, c) == TableFree /\ c \in valid /\ tab' = x

\* the child cannot be retained
ReapRefused(c) == TableFree /\ c \notin valid /\ UNCHANGED tab

ReapUnlink(c) == mtx = None /\ linked' = linked \ {c}

\* Mutant: the table stays locked.
ReapRemoveKeepsLock(c) == valid' = valid \ {c} /\ UNCHANGED tab

ReapRemove(c) == valid' = valid \ {c} /\ tab' = None

WaiterReaps(w) ==
  /\ \/ /\ wpc[w] = "reap"
        /\ \/ ReapBegin(w, busy[w]) /\ WGoto(w, "unlink")
           \/ ReapRefused(busy[w]) /\ WGoto(w, "relock")
        /\ UNCHANGED <<linked, valid>>
     \/ /\ wpc[w] = "unlink"
        /\ ReapUnlink(busy[w])
        /\ WGoto(w, "remove")
        /\ UNCHANGED <<tab, valid>>
     \/ /\ wpc[w] = "remove"
        /\ ReapRemove(busy[w])
        /\ WGoto(w, "relock")
        /\ UNCHANGED linked
  /\ UNCHANGED <<mtx, ev, walker, readers, held, zombie, status, events, sel, opts,
                 todo, busy, actorVars, reapVars, hist, panic>>

\* Mutant: a reap thread is created for every zombie, told of or not.
ReaperStartsUnasked(c) ==
  /\ rpc[c] = "none" /\ c \in zombie
  /\ reapers' = [reapers EXCEPT ![c] = @ - 1]

\* proc_reap_thread
ReaperStarts(c) ==
  /\ rpc[c] = "none" /\ reapers[c] > 0
  /\ reapers' = [reapers EXCEPT ![c] = @ - 1]

ReaperReaps(c) ==
  /\ \/ /\ ReaperStarts(c)
        /\ \/ ReapBegin(c, c) /\ rpc' = [rpc EXCEPT ![c] = "unlink"]
           \/ ReapRefused(c) /\ UNCHANGED rpc
        /\ UNCHANGED <<linked, valid>>
     \/ /\ rpc[c] = "unlink"
        /\ ReapUnlink(c)
        /\ rpc' = [rpc EXCEPT ![c] = "remove"]
        /\ UNCHANGED <<tab, valid, reapers>>
     \/ /\ rpc[c] = "remove"
        /\ ReapRemove(c)
        /\ rpc' = [rpc EXCEPT ![c] = "none"]
        /\ UNCHANGED <<linked, reapers>>
  /\ UNCHANGED <<mtx, ev, walker, readers, held, zombie, status, events, waitVars,
                 actorVars, hist, panic>>

-----------------------------------------------------------------------------
(* A child stops, continues or exits                                       *)

\* processDidExit takes over PEProcess.proc, with an exit code, SIGKILL or
\* another signal in legacyCode
Exit(c) ==
  /\ cpc[c] = "idle"
  /\ held' = held \ {c}
  /\ \E k \in {"exited", "killed", "signaled"} :
       cause' = [cause EXCEPT ![c] = k]
  /\ CGoto(c, "state")
  /\ UNCHANGED <<lockVars, linked, valid, zombie, status, events, waitVars,
                 subj, walk, signals, reapVars, hist, panic>>

\* a sender makes its next call, k, about child c
Calls(a, c, k) ==
  /\ cpc[a] = "idle" /\ signals[a] < SignalMax
  /\ signals' = [signals EXCEPT ![a] = @ + 1]
  /\ subj' = [subj EXCEPT ![a] = c] /\ cause' = [cause EXCEPT ![a] = k]
  /\ UNCHANGED <<lockVars, childVars, events, waitVars, walk, reapVars, hist,
                 panic>>

\* A SIGSTOP or SIGCONT for a child whose PEProcess the sender has got; it also
\* has a reference to the child, which lasts until it is done.
Signal(a) ==
  /\ \E c \in Child, k \in {"stopped", "continued"} : Calls(a, c, k)
  /\ CGoto(a, "send")

\* setpgid of the parent for a child, up to its wrlock
Setpgid(a) ==
  /\ tab = None
  /\ \E c \in Child : c \in linked /\ Calls(a, c, "pgid")
  /\ CGoto(a, "lock")

\* sendSignal reads _proc each time it uses it, and processDidExit may have
\* cleared it
ReadsProc(a, l) ==
  \/ subj[a] \in held /\ CGoto(a, l) /\ UNCHANGED panic
  \/ subj[a] \notin held /\ panic' = TRUE /\ UNCHANGED cpc

Send(a) ==
  /\ cpc[a] = "send"
  /\ ReadsProc(a, "lock")
  /\ UNCHANGED <<lockVars, childVars, events, waitVars, subj, cause, walk,
                 signals, reapVars, hist>>

\* the child's rwlock is asked for while somebody reads
Enqueue(a) ==
  /\ cpc[a] = "lock" /\ readers[subj[a]] # {}
  /\ CGoto(a, "queue")
  /\ UNCHANGED <<lockVars, childVars, events, waitVars, subj, cause, walk,
                 signals, reapVars, hist, panic>>

\* p_stat or the process group is written under it
Write(a) ==
  /\ cpc[a] \in {"lock", "queue"} /\ readers[subj[a]] = {}
  /\ IF cause[a] = "pgid" THEN CGoto(a, "idle") /\ UNCHANGED panic
                          ELSE ReadsProc(a, "state")
  /\ UNCHANGED <<lockVars, childVars, events, waitVars, subj, cause, walk,
                 signals, reapVars, hist>>

Exiting(c) == cause[c] \in {"exited", "killed", "signaled"}

\* Mutant: the parent's events are not triggered after SZOMB.
FindParentUntold(a) ==
  /\ subj[a] \in linked
  /\ \/ cpc[a] = "state" /\ CGoto(a, "write")
     \/ cpc[a] = "parent" /\ CGoto(a, "done")
  /\ UNCHANGED <<lockVars, childVars, events, waitVars, subj, cause, walk,
                 signals, reapVars, hist, panic>>

\* proc_parent_for_proc, in proc_state_change and in proc_zombify
FindParent(a) ==
  /\ subj[a] \in linked
  /\ \/ cpc[a] = "state" /\ CGoto(a, "write")
     \/ cpc[a] = "parent" /\ CGoto(a, "trigger")
  /\ UNCHANGED <<lockVars, childVars, events, waitVars, subj, cause, walk,
                 signals, reapVars, hist, panic>>

\* proc_state_change: p_status is written under the parent's mutex
StateChange(a) ==
  /\ cpc[a] = "write"
  /\ mtx = None
  /\ status' = [status EXCEPT ![subj[a]] = cause[a]]
  /\ overtaken' = IF a \in Sender /\ Exiting(subj[a])
                    THEN overtaken \cup {subj[a]} ELSE overtaken
  /\ CGoto(a, "trigger")
  /\ UNCHANGED <<lockVars, linked, valid, held, zombie, events, waitVars, subj,
                 cause, walk, signals, reapVars, told, panic>>

\* A child already unlinked has no parent to tell: the object is there as long
\* as the exit or the sender has its reference.
NoParent(a) ==
  /\ \/ cpc[a] = "state" /\ subj[a] \notin linked /\ CGoto(a, "idle")
     \/ cpc[a] = "parent" /\ subj[a] \notin linked /\ CGoto(a, "done")
  /\ UNCHANGED <<lockVars, childVars, events, waitVars, subj, cause, walk,
                 signals, reapVars, hist, panic>>

\* kvobject_event_trigger on the parent
Trigger(a) ==
  /\ cpc[a] = "trigger"
  /\ ev = None /\ ev' = a
  /\ walk' = [walk EXCEPT ![a] = events]
  /\ CGoto(a, "walk")
  /\ UNCHANGED <<mtx, tab, walker, readers, childVars, events, waitVars, subj, cause,
                 signals, reapVars, hist, panic>>

\* the handler of the next event takes the parent's mutex ...
HandlerLock(a) ==
  /\ cpc[a] = "walk" /\ walk[a] # <<>>
  /\ mtx = None /\ mtx' = a
  /\ CGoto(a, "handle")
  /\ UNCHANGED <<ev, tab, walker, readers, childVars, events, waitVars, subj, cause,
                 walk, signals, reapVars, hist, panic>>

\* Mutant: the handler answers and does not ask to be unregistered.
FireKeeps(w) == Answer(w) /\ UNCHANGED events

\* the event of waiter w is answered and unlinked from the list
Fire(w) ==
  /\ Answer(w)
  /\ \E i \in {j \in DOMAIN events : events[j] = w} :
       events' = SubSeq(events, 1, i - 1) \o SubSeq(events, i + 1, Len(events))

\* ... and the child's rwlock for writing: no match or nothing to report; a
\* stop or continue; a zombie that is retained for a new reap thread; or the
\* kpanic because it cannot be retained.
Handle(a) ==
  /\ cpc[a] = "handle" /\ readers[subj[a]] = {}
  /\ mtx' = None
  /\ walk' = [walk EXCEPT ![a] = Tail(@)]
  /\ CGoto(a, "walk")
  /\ LET c == subj[a]  w == Head(walk[a]) IN
     \/ /\ c \notin sel[w] \/ (~Changed(opts[w], c) /\ c \notin zombie)
        /\ UNCHANGED <<status, told, reapers, events, waitVars, panic>>
     \/ /\ c \in sel[w] /\ Changed(opts[w], c)
        /\ ReportChange(c)
        /\ Fire(w)
        /\ UNCHANGED <<reapers, panic>>
     \/ /\ c \in sel[w] \cap zombie \cap valid /\ ~Changed(opts[w], c)
        /\ ReportDeath(c)
        /\ reapers' = [reapers EXCEPT ![c] = @ + 1]
        /\ Fire(w)
        /\ UNCHANGED panic
     \/ /\ c \in (sel[w] \cap zombie) \ valid /\ ~Changed(opts[w], c)
        /\ panic' = TRUE
        /\ UNCHANGED <<status, told, reapers, events, waitVars>>
  /\ UNCHANGED <<ev, tab, walker, readers, linked, valid, held, zombie, subj, cause,
                 signals, rpc, overtaken>>

\* the list is done: a signal is sent, an exit goes on to proc_zombify, or the
\* zombie has been announced
TriggerEnd(a) ==
  /\ cpc[a] = "walk" /\ walk[a] = <<>>
  /\ ev' = None
  /\ CGoto(a, CASE a \in Sender -> "idle"
                [] a \in Child \ zombie -> "mark"
                [] a \in zombie -> "done")
  /\ UNCHANGED <<mtx, tab, walker, readers, childVars, events, waitVars, subj, cause,
                 walk, signals, reapVars, hist, panic>>

\* proc_zombify: SZOMB under the child's rwlock
Mark(c) ==
  /\ cpc[c] = "mark" /\ readers[c] = {}
  /\ zombie' = zombie \cup {c}
  /\ CGoto(c, "parent")
  /\ UNCHANGED <<lockVars, linked, valid, held, status, events, waitVars, subj,
                 cause, walk, signals, reapVars, hist, panic>>

-----------------------------------------------------------------------------
(* proc_list and the search for a process group                            *)

\* a walk has come to child c and retained it
List(l) ==
  /\ walker[l] = None /\ tab = None
  /\ \E c \in valid : walker' = [walker EXCEPT ![l] = c]
  /\ UNCHANGED <<mtx, ev, tab, readers, childVars, events, waitVars, actorVars,
                 reapVars, hist, panic>>

\* ... and gets its rwlock, copies or compares, and goes on
ListEnd(l) ==
  /\ walker[l] # None /\ ~Queued(walker[l])
  /\ walker' = [walker EXCEPT ![l] = None]
  /\ UNCHANGED <<mtx, ev, tab, readers, childVars, events, waitVars, actorVars,
                 reapVars, hist, panic>>

-----------------------------------------------------------------------------
WaiterStep(w) ==
  \/ ScanNext(w) \/ ScanChild(w) \/ ScanEnd(w) \/ Prepare(w) \/ Register(w)
  \/ WaiterReaps(w) \/ ReapReport(w)

\* A call or an exit in progress; when one begins is nobody's duty.
ActorStep(a) ==
  \/ FindParent(a) \/ NoParent(a) \/ StateChange(a)
  \/ Trigger(a) \/ HandlerLock(a) \/ Handle(a) \/ TriggerEnd(a)
  \/ a \in Sender /\ (Send(a) \/ Enqueue(a) \/ Write(a))
  \/ a \in Child /\ Mark(a)

\* wait4 registers under the mutex while a trigger that holds event_rwlock is
\* about to run a handler, which takes the mutex
RegisterCycle ==
  /\ mtx \in Waiter /\ wpc[mtx] = "register"
  /\ \E a \in Actor : cpc[a] = "walk" /\ walk[a] # <<>>

\* a handler waits under the mutex for a child whose reader has yet to relock
HandlerCycle == \E a \in Actor : cpc[a] = "handle" /\ readers[subj[a]] # {}

\* a scan waits under the mutex behind a writer that waits for such a reader
ScanCycle == mtx \in Waiter /\ wpc[mtx] = "look" /\ Queued(busy[mtx])

\* a walk of the table waits under its lock behind a writer that waits for a
\* reader that has yet to lock the table
WalkCycle ==
  \E l \in Lister :
    /\ walker[l] # None /\ Queued(walker[l])
    /\ \E w \in readers[walker[l]] : wpc[w] = "reap"

\* the ways in which these threads wait for each other for ever
LockCycle == RegisterCycle \/ HandlerCycle \/ ScanCycle \/ WalkCycle

\* Who is in the middle of something, and not merely asleep.
WaiterRuns(w) == wpc[w] \notin {"user", "blocked"}
ActorRuns(a) == cpc[a] \notin {"idle", "done"}
ReaperRuns(c) == reapers[c] > 0 \/ rpc[c] # "none"

\* Everybody is in user mode, asleep or gone, the kernel has panicked, or it
\* has deadlocked.
Rest ==
  /\ \/ panic
     \/ LockCycle
     \/ /\ \A w \in Waiter : ~WaiterRuns(w)
        /\ \A a \in Actor : ~ActorRuns(a)
        /\ \A c \in Child : ~ReaperRuns(c)
        /\ \A l \in Lister : walker[l] = None
  /\ UNCHANGED vars

Next ==
  \/ /\ ~panic
     /\ \/ \E w \in Waiter : Call(w) \/ WaiterStep(w)
        \/ \E c \in Child : Exit(c) \/ ReaperReaps(c)
        \/ \E a \in Sender : Signal(a) \/ Setpgid(a)
        \/ \E l \in Lister : List(l) \/ ListEnd(l)
        \/ \E a \in Actor : ActorStep(a)
  \/ Rest

Spec == Init /\ [][Next]_vars

\* Threads run, and a thread that makes a call or delivers an exit gets a lock in
\* the end, however many others ask for it: the locks queue their waiters.
FairSpec ==
  /\ Spec
  /\ \A w \in Waiter : WF_vars(~panic /\ WaiterStep(w))
  /\ \A a \in Actor : SF_vars(~panic /\ ActorStep(a))
  /\ \A c \in Child : WF_vars(~panic /\ ReaperReaps(c))
  /\ \A l \in Lister : WF_vars(~panic /\ ListEnd(l))

-----------------------------------------------------------------------------
(* Properties                                                              *)

Status == {"killed", "signaled", "exited", "stopped", "continued", "zero"}

WaiterPlace == {"user", "scan", "look", "register", "blocked", "reap",
                "unlink", "remove", "relock"}

ActorPlace == {"idle", "send", "lock", "queue", "state", "write", "trigger",
               "walk", "handle", "mark", "parent", "done"}

TypeOK ==
  /\ mtx \in Waiter \cup Actor \cup {None}
  /\ ev \in Actor \cup {None}
  /\ tab \in Waiter \cup Child \cup {None}
  /\ walker \in [Lister -> Child \cup {None}]
  /\ readers \in [Child -> SUBSET Waiter]
  /\ linked \subseteq Child /\ valid \subseteq Child
  /\ held \subseteq Child /\ zombie \subseteq Child
  /\ status \in [Child -> Status]
  /\ events \in Seq(Waiter)
  /\ wpc \in [Waiter -> WaiterPlace]
  /\ sel \in [Waiter -> SUBSET Child] /\ opts \in [Waiter -> Options \cup {{}}]
  /\ todo \in [Waiter -> SUBSET Child]
  /\ busy \in [Waiter -> Child \cup {None}]
  /\ cpc \in [Actor -> ActorPlace]
  /\ subj \in [Actor -> Child \cup {None}]
  /\ cause \in [Actor -> Status \cup {"none", "pgid"}]
  /\ walk \in [Actor -> Seq(Waiter)]
  /\ signals \in [Sender -> 0 .. SignalMax]
  /\ reapers \in [Child -> Nat]
  /\ rpc \in [Child -> {"none", "unlink", "remove"}]
  /\ told \in [Child -> Seq(Status)] /\ overtaken \subseteq Child
  /\ panic \in BOOLEAN

\* The trigger of c's death is still to reach the event of waiter w.
WillHear(w, c) ==
  \/ c \notin zombie
  \/ cpc[c] \in {"parent", "trigger"}
  \/ cpc[c] \in {"walk", "handle"} /\ w \in Range(walk[c])

\* "special mutex to make sure nothing happens at the same time on kchildren"
\* (def.h:113-116): a caller of wait4 that sleeps has its event registered and still
\* has a child whose death will wake it, so that the scan, the registration
\* and the trigger leave no gap in which the last death it could hear of goes
\* by (wait4.c:153-245 against spawn.m:370-379).
SleeperHasChild ==
  \A w \in Waiter : wpc[w] = "blocked" =>
    /\ w \in Range(events)
    /\ \E c \in sel[w] \cap linked : WillHear(w, c)

\* A registered event belongs to a caller that still waits, and to every caller
\* that waits one event: an answered event is unregistered before any other
\* trigger can see it, and its payload is never used twice (event.c:129-155).
EventsAreSleepers ==
  \A w \in Waiter :
    Cardinality({i \in DOMAIN events : events[i] = w}) =
      IF wpc[w] = "blocked" THEN 1 ELSE 0

\* The first report of a child's death says what the code lets a parent know of
\* it: an exit with its code, or a signal, any of which reads as SIGKILL.  No
\* report of a stop, no second waiter has cleared p_status before, so that a
\* death by a signal would read as an exit with code 0.  Except for a signal
\* that was past sendSignal's use of _proc when the child exited, and overwrites
\* the exit status (wait4.c:121-139, 181-188; spawn.m:405-407).
FirstReportTrue ==
  \A c \in Child \ overtaken :
    told[c] # <<>> =>
      Head(told[c]) = IF cause[c] = "exited" THEN "exited" ELSE "killed"

\* A child that has left its parent's array or the process table has had its
\* death reported, or the waiter that reaps it is about to: the reap by a
\* waiter comes before its report, a detached one after the handler's, and no
\* death is lost to the thread that is second, which returns without a report
\* or ends in the handler's kpanic (wait4.c:66-119, 177-195).
ReapedIsReported ==
  \A c \in Child : c \notin linked \cap valid =>
    \/ told[c] # <<>>
    \/ \E w \in Waiter : busy[w] = c /\ wpc[w] \in {"remove", "relock"}

\* The lock cycles are deadlocks and not contention: no step of any thread leads
\* out of them, since nobody outside the cycle can release the mutex,
\* event_rwlock, the child's rwlock or the table's lock (wait4.c:88, 163, 178,
\* 234; list.c:125, 158).
CyclesLast == [][LockCycle => LockCycle']_vars

\* Who asks for a lock that is taken: the children mutex, event_rwlock, the
\* table's lock, or a child's rwlock.
WaiterHeldUp(w) ==
  \/ wpc[w] = "look" /\ Queued(busy[w])
  \/ wpc[w] = "register" /\ ev # None
  \/ wpc[w] = "reap" /\ ~TableFree
  \/ wpc[w] \in {"unlink", "relock"} /\ mtx # None

ActorHeldUp(a) ==
  \/ cpc[a] \in {"queue", "handle", "mark"} /\ readers[subj[a]] # {}
  \/ cpc[a] = "write" /\ mtx # None
  \/ cpc[a] = "trigger" /\ ev # None
  \/ cpc[a] = "walk" /\ walk[a] # <<>> /\ mtx # None

ReaperHeldUp(c) ==
  \/ rpc[c] = "none" /\ ~TableFree
  \/ rpc[c] = "unlink" /\ mtx # None

\* These threads have no other deadlock: unless the kernel has panicked or is in
\* one of the cycles, somebody who is in the middle of a syscall, a signal, an
\* exit or a reap has every lock it asks for next, however many wait for each
\* other around it (wait4.c:66-245, spawn.m:370-409, event.c:105-162,
\* PEProcess.m:273-287, list.c:107-195).
OnlyCyclesBlock ==
  \/ panic \/ LockCycle
  \/ \E w \in Waiter : WaiterRuns(w) /\ ~WaiterHeldUp(w)
  \/ \E a \in Actor : ActorRuns(a) /\ ~ActorHeldUp(a)
  \/ \E c \in Child : ReaperRuns(c) /\ ~ReaperHeldUp(c)
  \/ \E l \in Lister : walker[l] # None /\ ~Queued(walker[l])
  \/ /\ \A w \in Waiter : ~WaiterRuns(w)
     /\ \A a \in Actor : ~ActorRuns(a)
     /\ \A c \in Child : ~ReaperRuns(c)
     /\ \A l \in Lister : walker[l] = None

\* A waiter is bound to report the child it reaps until it has.
Promise == INSTANCE ExitReport
  WITH fate <- [c \in Child |-> cause[c]],
       reports <- told,
       claim <- [w \in Waiter |->
                   IF wpc[w] \in {"unlink", "remove", "relock"} THEN busy[w]
                                                                ELSE None],
       spoiled <- overtaken,
       gone <- Child \ (linked \cap valid)

\* Whatever waiters, event handlers, late signals and detached reap threads do
\* together looks to the parent like ExitReport: a child ends once, the first
\* report of it tells an exit code from a signal and every later one says code
\* 0, a waiter that reaps reports exactly once, and no child disappears before
\* somebody has reported it or is bound to (wait4.c:66-151, 174-195).
ImplementsExitReport == Promise!Spec

\* The death of a child that a sleeping caller waits for is reported: to that
\* caller, or to another that comes in between and leaves the sleeper asleep
\* (see SleeperHasChild), if the kernel does not panic or deadlock
\* (spawn.m:370-379, event.c:105-162).
DeathIsReported ==
  \A w \in Waiter, c \in Child :
    wpc[w] = "blocked" /\ c \in sel[w] \ zombie /\ Exiting(c)
      ~> wpc[w] # "blocked" \/ told[c] # <<>> \/ panic \/ LockCycle

\* "lock order: parent -> child" (spawn.m:266): the handler, which takes the
\* child's rwlock under the parent's mutex, never meets a wait4 that holds the
\* child's rwlock and has yet to take the mutex (wait4.c:177-179).
LockOrder ==
  \A a \in Actor : cpc[a] = "handle" => readers[subj[a]] = {}
=============================================================================
