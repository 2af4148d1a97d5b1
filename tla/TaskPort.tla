------------------------------ MODULE TaskPort ------------------------------
(***************************************************************************)
(* How the host gets the task port of a guest process, and who waits for   *)
(* it: the syscalls handoffep (a guest hands over an exception port and    *)
(* traps; the host takes the task port out of the exception message),      *)
(* waittask (posix_spawn waits for the port of its new child) and          *)
(* task_for_pid, for one child process and its parent.                     *)
(*                                                                         *)
(* A syscall runs on a worker of the host, which holds a reference to the  *)
(* process meanwhile.  A critical section of its rwlock or event_rwlock is *)
(* one step, but for the one that reads twice: a worker that begins a      *)
(* syscall locks rwlock and calls proc_task_for_proc, which locks it again *)
(* (worker.c).  The lock prefers writers, so a writer that asks in between *)
(* stops both, and then everybody who wants this lock: jam.  The life of   *)
(* the object is that of ProcTree, cut down to one child: table and        *)
(* contract hold a reference each until the process is reaped.             *)
(***************************************************************************)
EXTENDS FiniteSets

CONSTANTS
  Guest,   \* threads of the child that call handoffep
  Caller,  \* threads of its parent
  None

ASSUME TaskPortAssumption == None \notin Guest \cup Caller

VARIABLES
  task,     \* proc->task, named by the handoff it came from
  flag,     \* proc->in_tfp_handoff
  rights,   \* send rights to the task port the host holds
  host,     \* the process runs
  parent,   \* the parent runs
  st,       \* the object: in the table, a zombie, reaped, freed
  managed,  \* PEProcessManager knows the process
  jam,      \* a writer waits for a reader that waits for it, on proc's rwlock
  killed,   \* it has been sent a fatal signal or exception
  spared,   \* history: a kill did not find it in PEProcessManager
  guest,    \* where a guest thread is
  work,     \* where the worker of its handoffep is
  call,     \* where a thread of the parent, or its worker, is
  pin,      \* the workers of the parent's calls that hold a reference
  events,   \* callers with an event on the process
  answer    \* what the caller's last call returned

process == <<host, parent, managed, jam, killed, spared>>
port    == <<task, flag, rights>>
handoff == <<guest, work>>
vars == <<port, process, st, handoff, call, pin, events, answer>>

TypeOK ==
  /\ task \in Guest \cup {None} /\ flag \in BOOLEAN /\ rights \subseteq Guest
  /\ flag => task = None
  /\ host \in BOOLEAN /\ parent \in BOOLEAN /\ managed \in BOOLEAN
  /\ jam \in BOOLEAN /\ killed \in BOOLEAN /\ spared \in BOOLEAN
  /\ st \in {"live", "zombie", "gone", "freed"}
  /\ guest \in [Guest -> {"user", "call", "trap", "raised", "ready"}]
  /\ work \in [Guest -> {"none", "nested", "enter", "recv", "got", "store",
                         "announce", "kill", "leave"}]
  /\ call \in [Caller -> {"user", "check", "register", "fetch", "asleep"}]
  /\ pin \subseteq Caller /\ events \subseteq Caller
  /\ answer \in [Caller -> {"none", "ready", "error"}]

\* The child is in the process table: its threads wait for that before they
\* hand over their port (getppid, environment.m).
Init ==
  /\ task = None /\ flag = FALSE /\ rights = {}
  /\ host = TRUE /\ parent = TRUE /\ st = "live"
  /\ managed = FALSE /\ jam = FALSE /\ killed = FALSE /\ spared = FALSE
  /\ guest = [g \in Guest |-> "user"] /\ work = [g \in Guest |-> "none"]
  /\ call = [c \in Caller |-> "user"] /\ pin = {} /\ events = {}
  /\ answer = [c \in Caller |-> "none"]

-----------------------------------------------------------------------------
(* Shared parts                                                            *)

\* The handler answers and the event is removed: the callers wake up.
Wake(woken) ==
  /\ events' = events \ woken
  /\ call' = [c \in Caller |-> IF c \in woken THEN "user" ELSE call[c]]
  /\ answer' = [c \in Caller |-> IF c \in woken THEN "ready" ELSE answer[c]]

\* Mutant: the last release forgets the events.
DeinitSilent ==
  /\ rights' = rights \ {task}
  /\ UNCHANGED <<events, call, answer>>

\* Mutant: the last release forgets the port.
DeinitLeaks ==
  /\ UNCHANGED rights
  /\ Wake(events)

\* The last release: Deinit answers every event, the task port is let go.
Deinit ==
  /\ rights' = rights \ {task}
  /\ Wake(events)

\* A step ends with the object at to and the workers pins and busy holding it.
\* Nobody else has a reference once it is reaped.
Settle(to, pins, busy) ==
  IF to = "gone" /\ pins = {} /\ busy = {}
    THEN st' = "freed" /\ Deinit
    ELSE st' = to /\ UNCHANGED <<rights, events, call, answer>>

Busy == {g \in Guest : work[g] # "none"}

\* rwlock: nobody reads again behind a waiting writer, nobody writes while
\* a worker is between its two locks.
MayRead  == ~jam
MayWrite == ~jam /\ \A g \in Guest : work[g] # "nested"

\* proc_kill: SIGKILL to the process, if PEProcessManager knows it.
Kill ==
  /\ MayRead
  /\ killed' = (killed \/ (managed /\ host))
  /\ spared' = (spared \/ ~managed)

-----------------------------------------------------------------------------
(* handoffep                                                               *)

\* A thread of the child calls (once each).  The worker takes a reference
\* and reads the caller's task port with the rwlock held: the first lock, ...
Handoff(g) ==
  /\ MayRead /\ host /\ guest[g] = "user" /\ work[g] = "none" /\ st \in {"live", "zombie"}
  /\ guest' = [guest EXCEPT ![g] = "call"]
  /\ work' = [work EXCEPT ![g] = "nested"]
  /\ UNCHANGED <<port, process, st, call, pin, events, answer>>

\* ... and proc_task_for_proc, which it calls, the second.
Begin(g) ==
  /\ MayRead /\ work[g] = "nested"
  /\ work' = [work EXCEPT ![g] = "enter"]
  /\ UNCHANGED <<port, process, st, guest, call, pin, events, answer>>

\* A writer, one of the handoffs or the exit, waits for a worker between its
\* two locks; for ever.
Jam ==
  /\ ~jam /\ ~MayWrite
  /\ (\E g \in Guest : work[g] \in {"enter", "store"}) \/ (~host /\ st = "live")
  /\ jam' = TRUE
  /\ UNCHANGED <<port, host, parent, managed, killed, spared, st, handoff, call,
                 pin, events, answer>>

\* Mutant: a handoff under way is not noticed.
EnterTwice(g) ==
  /\ work[g] = "enter" /\ MayWrite
  /\ IF task # None
       THEN work' = [work EXCEPT ![g] = "kill"] /\ UNCHANGED <<flag, guest>>
       ELSE /\ flag' = TRUE
            /\ guest' = [guest EXCEPT ![g] = "trap"]
            /\ work' = [work EXCEPT ![g] = "recv"]
  /\ UNCHANGED <<task, rights, process, st, call, pin, events, answer>>

\* One handoff per process; the first is answered at once, so that the guest
\* can trap.
Enter(g) ==
  /\ work[g] = "enter" /\ MayWrite
  /\ IF task # None \/ flag
       THEN work' = [work EXCEPT ![g] = "kill"] /\ UNCHANGED <<flag, guest>>
       ELSE /\ flag' = TRUE
            /\ guest' = [guest EXCEPT ![g] = "trap"]
            /\ work' = [work EXCEPT ![g] = "recv"]
  /\ UNCHANGED <<task, rights, process, st, call, pin, events, answer>>

\* The guest traps.  Without a receiver the exception kills it.
Trap(g) ==
  /\ host /\ guest[g] = "trap"
  /\ IF work[g] = "recv"
       THEN guest' = [guest EXCEPT ![g] = "raised"] /\ UNCHANGED killed
       ELSE killed' = TRUE /\ UNCHANGED guest
  /\ UNCHANGED <<port, host, parent, managed, jam, spared, st, work, call,
                 pin, events, answer>>

\* task_handoff receives the message: it takes the task port and lets the
\* guest go on behind the trap ...
Receive(g) ==
  /\ work[g] = "recv" /\ guest[g] = "raised"
  /\ rights' = rights \cup {g}
  /\ guest' = [guest EXCEPT ![g] = "ready"]
  /\ work' = [work EXCEPT ![g] = "got"]
  /\ UNCHANGED <<task, flag, process, st, call, pin, events, answer>>

\* ... or refuses it, and the exception stays unhandled ...
Reject(g) ==
  /\ work[g] = "recv" /\ guest[g] = "raised"
  /\ killed' = host
  /\ work' = [work EXCEPT ![g] = "kill"]
  /\ UNCHANGED <<port, host, parent, managed, jam, spared, st, guest, call,
                 pin, events, answer>>

\* Mutant: after the timeout the process is left alone.
TimeoutSpares(g) ==
  /\ work[g] = "recv" /\ guest[g] # "raised"
  /\ work' = [work EXCEPT ![g] = "leave"]
  /\ UNCHANGED <<port, process, st, guest, call, pin, events, answer>>

\* ... or waits in vain for a second.
Timeout(g) ==
  /\ work[g] = "recv" /\ guest[g] # "raised"
  /\ work' = [work EXCEPT ![g] = "kill"]
  /\ UNCHANGED <<port, process, st, guest, call, pin, events, answer>>

\* pid_for_task: the port of a process that has died has no pid.
Identify(g) ==
  /\ work[g] = "got"
  /\ \/ work' = [work EXCEPT ![g] = "store"] /\ UNCHANGED rights
     \/ work' = [work EXCEPT ![g] = "kill"] /\ rights' = rights \ {g}
  /\ UNCHANGED <<task, flag, process, st, guest, call, pin, events, answer>>

\* Mutant: the flag stays set.
StoreKeepsFlag(g) ==
  /\ work[g] = "store" /\ MayWrite
  /\ task' = g /\ UNCHANGED flag
  /\ work' = [work EXCEPT ![g] = "announce"]
  /\ UNCHANGED <<rights, process, st, guest, call, pin, events, answer>>

\* The port is there, and the handoff over.
Store(g) ==
  /\ work[g] = "store" /\ MayWrite
  /\ task' = g /\ flag' = FALSE
  /\ work' = [work EXCEPT ![g] = "announce"]
  /\ UNCHANGED <<rights, process, st, guest, call, pin, events, answer>>

\* Mutant: the handler answers but the events stay.
AnnounceKeeps(g) ==
  /\ work[g] = "announce"
  /\ call' = [c \in Caller |-> IF c \in events THEN "user" ELSE call[c]]
  /\ answer' = [c \in Caller |-> IF c \in events THEN "ready" ELSE answer[c]]
  /\ work' = [work EXCEPT ![g] = "leave"]
  /\ UNCHANGED <<port, process, st, guest, pin, events>>

\* kvo_event_trigger(WaitTask)
Announce(g) ==
  /\ work[g] = "announce"
  /\ Wake(events)
  /\ work' = [work EXCEPT ![g] = "leave"]
  /\ UNCHANGED <<port, process, st, guest, pin>>

\* Mutant: a failed handoff announces the port, too.
FailAnnounces(g) ==
  /\ work[g] = "kill" /\ Kill
  /\ guest' = [guest EXCEPT ![g] = IF @ = "call" THEN "trap" ELSE @]
  /\ Wake(events)
  /\ work' = [work EXCEPT ![g] = "leave"]
  /\ UNCHANGED <<port, host, parent, managed, jam, st, pin>>

\* Mutant: a failed handoff clears the flag, also that of another one.
FailReopens(g) ==
  /\ work[g] = "kill" /\ Kill
  /\ guest' = [guest EXCEPT ![g] = IF @ = "call" THEN "trap" ELSE @]
  /\ flag' = FALSE
  /\ work' = [work EXCEPT ![g] = "leave"]
  /\ UNCHANGED <<task, rights, host, parent, managed, jam, st, call, pin, events,
                 answer>>

\* out_failure_kill; the flag stays.  A refused call is answered after all:
\* its guest traps, too.
Fail(g) ==
  /\ work[g] = "kill" /\ Kill
  /\ guest' = [guest EXCEPT ![g] = IF @ = "call" THEN "trap" ELSE @]
  /\ work' = [work EXCEPT ![g] = "leave"]
  /\ UNCHANGED <<port, host, parent, managed, jam, st, call, pin, events,
                 answer>>

\* The worker is done with the call and drops its reference.
Leave(g) ==
  /\ work[g] = "leave"
  /\ work' = [work EXCEPT ![g] = "none"]
  /\ Settle(st, pin, Busy \ {g})
  /\ UNCHANGED <<task, flag, process, guest, pin>>

-----------------------------------------------------------------------------
(* waittask and task_for_pid                                               *)

\* proc_for_pid finds the child, alive or a zombie, and retains it; the
\* caller is its parent and may see it.
Look(c) ==
  /\ parent /\ call[c] = "user" /\ c \notin pin /\ MayRead
  /\ IF st \in {"live", "zombie"}
       THEN /\ call' \in {[call EXCEPT ![c] = "check"], [call EXCEPT ![c] = "fetch"]}
            /\ pin' = pin \cup {c} /\ answer' = [answer EXCEPT ![c] = "none"]
       ELSE answer' = [answer EXCEPT ![c] = "error"] /\ UNCHANGED <<call, pin>>
  /\ UNCHANGED <<port, process, st, handoff, events>>

\* Is the port there already?  No lock is held.
Check(c) ==
  /\ call[c] = "check"
  /\ IF task # None
       THEN /\ call' = [call EXCEPT ![c] = "user"]
            /\ answer' = [answer EXCEPT ![c] = "ready"]
       ELSE call' = [call EXCEPT ![c] = "register"] /\ UNCHANGED answer
  /\ UNCHANGED <<port, process, st, handoff, pin, events>>

\* kvo_event_register, or EAGAIN and ENOMEM; the caller sleeps.
Register(c) ==
  /\ call[c] = "register"
  /\ \/ /\ call' = [call EXCEPT ![c] = "asleep"]
        /\ events' = events \cup {c} /\ UNCHANGED answer
     \/ /\ call' = [call EXCEPT ![c] = "user"]
        /\ answer' = [answer EXCEPT ![c] = "error"] /\ UNCHANGED events
  /\ UNCHANGED <<port, process, st, handoff, pin>>

\* proc_task_for_proc
Fetch(c) ==
  /\ call[c] = "fetch" /\ MayRead
  /\ call' = [call EXCEPT ![c] = "user"]
  /\ answer' = [answer EXCEPT ![c] = IF task # None THEN "ready" ELSE "error"]
  /\ UNCHANGED <<port, process, st, handoff, pin, events>>

\* The worker drops its reference.
Release(c) ==
  /\ c \in pin /\ call[c] \in {"user", "asleep"}
  /\ pin' = pin \ {c}
  /\ Settle(st, pin \ {c}, Busy)
  /\ UNCHANGED <<task, flag, process, handoff>>

-----------------------------------------------------------------------------
(* The life of the process                                                 *)

\* spawnProcessWithItems enters the process into PEProcessManager.
Manage ==
  /\ ~managed /\ managed' = TRUE
  /\ UNCHANGED <<port, host, parent, jam, killed, spared, st, handoff, call, pin,
                 events, answer>>

\* The process ends by itself, or by a signal.
Die ==
  /\ host /\ host' = FALSE
  /\ UNCHANGED <<port, parent, managed, jam, killed, spared, st, handoff, call,
                 pin, events, answer>>

\* processDidExit, proc_zombify
Zombify ==
  /\ ~host /\ st = "live" /\ MayWrite /\ st' = "zombie"
  /\ UNCHANGED <<port, process, handoff, call, pin, events, answer>>

\* A thread of the parent that is not asleep reaps the zombie in wait4.
Reap(c) ==
  /\ parent /\ call[c] = "user" /\ c \notin pin /\ st = "zombie" /\ MayRead
  /\ Settle("gone", pin, Busy)
  /\ UNCHANGED <<task, flag, process, handoff, pin>>

\* The parent exits: proc_reap takes the child away and terminates it.
ParentExits ==
  /\ parent /\ parent' = FALSE
  /\ killed' = (killed \/ (managed /\ host))
  /\ Settle(IF st \in {"live", "zombie"} THEN "gone" ELSE st, pin, Busy)
  /\ UNCHANGED <<task, flag, host, managed, jam, spared, handoff, pin>>

-----------------------------------------------------------------------------
Work(g) ==
  \/ Begin(g) \/ Enter(g) \/ Receive(g) \/ Reject(g) \/ Timeout(g)
  \/ Identify(g) \/ Store(g) \/ Announce(g) \/ Fail(g) \/ Leave(g)

Serve(c) == Check(c) \/ Register(c) \/ Fetch(c) \/ Release(c)

\* The object is gone and nobody works, or everybody is stuck.
Rest ==
  /\ jam \/ (st = "freed" /\ ~host)
  /\ UNCHANGED vars

Next ==
  \/ \E g \in Guest : Handoff(g) \/ Trap(g) \/ Work(g)
  \/ \E c \in Caller : Look(c) \/ Serve(c) \/ Reap(c)
  \/ Manage \/ Die \/ Zombify \/ ParentExits \/ Jam \/ Rest

Spec == Init /\ [][Next]_vars

\* Workers run and get the lock they ask for, exits are noticed, a signalled
\* process dies.  Nothing is assumed of guests and parents.
Fairness ==
  /\ \A g \in Guest : SF_vars(Work(g))
  /\ \A c \in Caller : WF_vars(Serve(c))
  /\ SF_vars(Zombify) /\ WF_vars(killed /\ Die)

FairSpec == Spec /\ Fairness

-----------------------------------------------------------------------------
(* Properties                                                              *)

\* "task port's can only be initialized once per process lifecycle"
\* (handoffep.c): whatever threads of the guest call handoffep together, a
\* second port never replaces the one that waiters were told of.
TaskOnce == [][task # None => task' = task]_vars

\* The host holds the right in proc->task and the one a handoff is about to
\* store or to give back, and no other: none is leaked by a failure or by the
\* death of the process, none is released while it can still be exported.
RightsExact ==
  \A g \in Guest :
    g \in rights <=>
      work[g] \in {"got", "store"} \/ (task = g /\ st # "freed")

\* Every sleeping caller has its event and every event its sleeping caller:
\* no reply port is used twice, whether the port, the end of the object or
\* neither comes first.
RepliedOnce == events = {c \in Caller : call[c] = "asleep"}

\* A caller told that the port is there can have it, unless the process was
\* reaped meanwhile: the event never runs ahead of the store.
ReadyIsTrue ==
  \A c \in Caller : answer[c] = "ready" => task # None \/ st = "freed"

\* Between its test and its store a handoff is under way; a caller between
\* its lookup and its answer has asked.
Active(g) == work[g] \in {"recv", "got", "store"}
Promise == INSTANCE TaskExchange
  WITH open <- task = None /\ ~flag,
       giving <- {g \in Guest : Active(g)},
       port <- task,
       asking <- {c \in Caller : call[c] \in {"check", "register", "fetch"}},
       waiting <- events,
       told <- answer,
       found <- st \in {"live", "zombie"},
       ended <- st = "freed"

\* Handoffs that time out, are refused or overtake one another, questions, late
\* registrations, death and reap look to everybody like TaskExchange: one
\* attempt to hand the port over and none after a failure, a right taken
\* once and let go, one answer per question, and nobody left asleep when the
\* object ends (handoffep.c:36-86, waittask.c:57-130, proc.c:98-109).
ImplementsTaskExchange == Promise!Spec

\* "this cannot fail legitimately" (handoffep.c): a process does not stay
\* caught in a handoff; it has its port, or dies, unless the kill came before
\* PEProcessManager knew the process, or the rwlock is jammed.
HandoffEnds == flag ~> (task # None \/ ~host \/ spared \/ jam)

\* A caller asleep when the port is announced, or when the child is reaped, is
\* answered, even if it registers on an object that has left the table; up to
\* a jam, in which workers never give back the reference they hold.  (The
\* one that registers after the announcement, and the one whose child is a
\* zombie nobody reaps, are not.)
SleepersWoken ==
  \A c \in Caller :
    (call[c] = "asleep" /\ (st = "gone" \/ \E g \in Guest : work[g] \in {"store", "announce"}))
      ~> (call[c] # "asleep" \/ jam)
=============================================================================
