# ksurface in TLA+

Nyxian is an iOS development environment that carries its own small kernel,
*ksurface* (`src/Nyxian/LindChain/ProcEnvironment`, below `PE/`; its kernel part
`PE/Surface` below `S/`): a process table, parent/child contracts, signals,
`wait4`, credentials, sessions, ttys, task ports and launch services for guest
processes, all inside one multi-threaded host process. Its correctness rests on
hand-written reference counts, rwlocks, mutexes and callbacks. This directory
models that core, checks it with TLC, and proves with TLAPS, for instances of any
size, every safety invariant the passing runs check, and that four of the models
implement the abstract specifications they are compared with.

## 1. Inventory

| Component | State | Operations | Talks to | What makes it correct |
|---|---|---|---|---|
| kvobject (`S/libkern/obj/reference.c`, `alloc.c`) | refcount, state, rwlock | alloc, retain, release, invalidate, copy, snapshot | everything below is a kvobject | the count is exact; freed once and never used after; no retain succeeds after invalidation; the rwlock excludes |
| kvobject events (`S/libkern/obj/event.c`) | list of handlers, event_rwlock | register, trigger, unregister | wait4, waittask | every trigger reaches every matching handler once; no lock cycle with the handlers |
| process table (`S/proc/insert.c`, `remove.c`, `lookup.c`, `list.c`, `S/libkern/radix`) | radix tree of pids, proc_count, one rwlock | insert, lookup, remove, list | kvobject, proc_spawn, proc_reap | the table owns one reference per entry; lookups never return a dying object; only the lock's owner changes the tree |
| life cycle (`S/proc/spawn.m`, `PE/PEProcess.m`, `PE/PEProcessManager.m`, `S/proc/proctil.c`) | children arrays, parent, index, p_stat, p_status; PEProcess.proc, manager dictionary | spawn, exit notification, state change, zombify, reap, kill | table, host (FrontBoard), wait4 | both sides of a contract agree; an exit ends in a reap or a zombie; children die with their parent; operations return, as far as wait4's locks let them |
| wait4 (`S/sys/proc/wait4.c`) | event payloads | scan, register, event handler, reap thread | life cycle, events | the first report of a death tells an exit code from a signal; no reap loses a death; no waiter sleeps for ever; nobody waits for a lock for ever |
| credentials, sessions (`S/sys/cred`, `S/proc/permit.c`) | uid/gid/sid/pgid | set*id, setsid, setpgid | table | a decision still holds when it is written |
| task ports (`S/libkern/task_handoff.c`, `S/sys/compat/{handoffep,waittask,tfp}.c`, `S/proc/exception.m`) | proc->task, in_tfp_handoff, send rights, WaitTask events | handoffep, waittask, task_for_pid | events, syscall worker, wait4 | one port per process life; no right leaks; a caller that sleeps is answered once, and truthfully; no process stays caught in a handoff |
| launch services (`PE/PELaunchService.m`, `PELaunchServiceInstance.m`, `PELaunchServiceManager.m`, `PEUserspaceManager.m`) | list of services, each one's instances, restart count and pending restart, the userspace mode | load, launch, exit, restart, reload, reboot | PEProcess, PEProcessManager | a loaded service is up or comes up; one successor per exit; no process outlives its service |
| bootstrap registry (`PE/PEBootstrapRegistry.m`) | names to endpoints | set, get, launch on demand | launch services | not modelled, see section 7 |
| syscall worker (`S/libkern/sys/worker.c`) | message buffers | receive, check the caller, dispatch, reply | all of the above | one reply per call; the caller's process stays allocated meanwhile (in TaskPort) |
| ttys, proc_info, sysctl, fs, trust, kext loader, shims, IDE, window server, frameworks | | | | not modelled, see section 7 |

What is hard here: any number of host threads run any operation at once (syscall
workers, FrontBoard's exit callbacks, detached reap threads, the spawn queue);
references are given up and taken over across callbacks; the process table's lock
is held across a recursion; exits race spawns. `PROJECT.json` lists each hazard
at its line.

## 2. Modules

### KVObject: one object, one atomic access per step

`KVObject.tla` follows `reference.c` and `snapshot_into_mem` access by access. A
thread has a program counter `pc`, the operation `op` that called retain or
release, `seen` (the local `current`) and `tok`. The load, the test of count and
state, the compare-and-exchange (which may fail spuriously), the second look at
the state and the rollback are separate steps, and so are the fetch-and-subtract,
Deinit and free of a release. Around them the callers are modelled at lock
granularity: `proc_insert`, `proc_for_pid`, `proc_remove_by_pid` under the process
table's rwlock, and kvo_wrlock sections and snapshots under `kvo->rwlock`.

The code counts; it has no notion of who owns a count. `owner` is a history
variable that gives each count to a thread or to the table, and the invariants
compare the counter with it. Environment: a thread starts an operation only when
it may (retain and snapshot need a reference, lookup and remove do not).

`RefObject.tla` is the abstract promise: an object with holders, where acquire,
give, drop, invalidate and die are atomic. `Promise` in KVObject maps a count
that has not passed its second look, or is being rolled back, to "not held".

### ProcTree: spawn, exit, reap, wait

`ProcTree.tla` builds on that promise (retain, release and invalidate are single
steps here) and models all processes. Each thread has a stack of frames, because
`proc_reap` calls itself; the frame's `at` is the next step:

| operation | frame | code |
|---|---|---|
| posix_spawn | insert, adopt, contract, ready, register; undo | PEProcess.m 112-234, spawn.m 35-160, PEProcessManager.m 64-89 |
| reap | begin, kids, drop, unlink, remove; spin | spawn.m 207-320 |
| exit | status, retain, kids, drop, mark, notify, leave; spin | PEProcess.m 326-346, spawn.m 322-421 |
| wait | drop (below a reap frame) | wait4.c 61-66, 104-119, 153-194 |

The process table's rwlock is held across calls and is the variable `tab`;
`proctil` serialises spawns. A critical section on a `children.mutex`, an event
trigger and a use of a process's rwlock is one step, since here nobody keeps these
locks to wait for another. wait4, its event handler and a walk of the table do:
their threads, lock by lock, are Wait4's, and there they may wait for each other for
ever. What that leaves behind is the variable `jam`: a process whose
`children.mutex`, `event_rwlock` or children's rwlocks are caught, or the table.
`Jam` catches one at any moment in which some process may wait for a child, and every
action whose code takes such a lock has it in its guard (`Free`), the triggers of
`ExitStatus` and `ExitNotify` and the unlink of `proc_reap` included. So a jam
may stop any step that the code's locks may stop, and `WaitsEnd`, `ExitCompletes` and
`OperationsReturn` promise nothing once there is one: an exit whose trigger meets
a cycle of Wait4 never becomes a zombie. What they do promise is that nothing else
stops it. Wait4's `NoOtherDeadlock` is the other half: outside its cycles, the
sections in which its threads keep these locks end.

A thread that takes `tab` twice panics, which is what the DEBUG macros of `lock.h` do with
the EDEADLK of the lock. A release build ignores the error; there the inner unlock
releases the outer call's lock, and what follows is not explored (future work).

`host` is the FrontBoard process (external): it may end at any moment after the
launch, and its exit callback runs on any thread afterwards. `held` is
`PEProcess.proc`, `managed` the manager's dictionary, `session` the reference
`ServerSession` caches for its client, which is why a spawn can be asked for by a
process already reaped. `leaked` is a history variable that counts the
references the two failure paths of `proc_spawn` drop.

`ProcLife.tla` is what the system calls rely on: a process is entered in the table,
adopted by one parent or refused, leaves its parent, and then the table
(`stage`); its exit is recorded and it becomes a zombie. Every action is atomic,
and threads, locks, references and hosts are gone. `Life` in ProcTree computes the
stage from the table, `parent` and the spawn that is under way (`StageOf`); a
process in the table without a parent is before its contract exactly while a
spawn of it is at `adopt`, `contract` or `undo`. What this asks of the code is
that no contract is made with a process whose own spawn is still under way, that the
table is left only after the parent, and that none of it happens twice, whichever
of exit, reap, wait and the parent's death get to a process first.

Not in ProcTree: waiters and replies of wait4 and the stop/continue signals (they
are in Wait4), SIGCHLD, credentials, lookups by other syscalls (short-lived references, covered
by KVObject), pid reuse, and the proctil counter. `PROC_MAX`, duplicates and
allocation failures of `proc_insert` are one nondeterministic refusal.

### Wait4: waiters, events and the locks between them

`Wait4.tla` takes one parent that stays and children without children, and makes
the locks variables: `mtx` (the parent's `children.mutex`), `ev` (its
`event_rwlock`), `readers` (each child's rwlock), `tab` (the process table, for
writing) and `walker` (for reading). A writer of a child's rwlock waits until
nobody reads it, and no reader overtakes a writer that waits (`Queued`), as
pthread rwlocks have it. Four kinds of threads meet:

* a `Waiter` runs the syscall: `Call` (lock and select), `ScanNext` and
  `ScanChild` for each matching child (ask for its rwlock under the mutex, then look),
  then `ScanEnd` (ECHILD, WNOHANG, or no memory or right for the payload: none of
  them needs another lock) or `Prepare` and `Register`, which asks for
  `event_rwlock` with the mutex held; a zombie is reaped with the mutex unlocked and
  the child's rwlock held (`WaiterReaps`, `ReapReport`);
* an actor calls `proc_state_change`: the thread that delivers a child's exit
  (named by the child; it goes on to proc_zombify and triggers a second time) or a
  `Sender` in `sendSignal`, which writes `p_stat` first (`Send`, `Enqueue`,
  `Write`). `FindParent`, `StateChange`, `Trigger`, one `HandlerLock` and `Handle` per
  registered event, `TriggerEnd`. A sender may also be in setpgid, which is
  one more writer of the child's rwlock;
* the detached reap threads a handler creates (`reapers`, `ReaperReaps`);
* a `Lister` walks the process table (`proc_list`, the search for a process group):
  `List` has come to a child with the table read-locked, `ListEnd` gets its rwlock.

A child ends with an exit code, by SIGKILL or by another signal ("signaled"). The
code keeps a status only if it is an exit code; any other becomes SIGKILL when it
is reported (`Death`, wait4.c:121-124 and 181-184), so a parent learns that its child
died of a signal and not of which.

A thread that has read nothing yet is not told apart from one that has not
called, so `Call` includes the first lock. `told` (the statuses a death was
reported with) and `overtaken` (exit statuses that a late signal has overwritten)
are history variables. `panic` is the handler's kpanic, and the use of a `_proc`
that processDidExit has just cleared. Waits for a process group (which setpgid
changes), rusage, pthread_create failing and pid reuse are left out. So are locks of
two processes at a time by other calls (a syscall that compares two processes read-locks both,
permit.c:153-154) and the parent's own parent, whose locks the same threads take
one generation up. A child reaped by ProcTree's
other operations (the parent's death) is not in Wait4, as the parent stays.

`ExitReport.tla` is the promise to the parent, with every death, claim and report
atomic: a child ends once; the first report tells an exit code from a signal, unless
a late stop or continue overwrote the status (`spoiled`), and any further one says code 0; a caller that
undertakes a reap reports it before it does anything else; a child is forgotten
only when it was reported or somebody is bound to. `Promise` in Wait4 takes the
cause of the exit for `fate`, `told` for `reports` and a waiter that is past
`reap` and has not reported for `claim`. A second report is allowed because the
code makes one: two callers, or a caller and the handler, may come to one zombie.

### TaskPort: the handoff of a task port and those who wait for it

`TaskPort.tla` takes one child process. Threads of the child (`Guest`) call
`handoffep`; the syscall worker that serves each of them is `work[g]`: `Handoff`
and `Begin` (the worker's entry, which reads the task port under the rwlock it
holds), `Enter` (the test of `task` and `in_tfp_handoff`), `Receive`, `Reject` or
`Timeout` (task_handoff.c), `Identify`, `Store`, `Announce` (the event trigger),
`Fail` and `Leave`. Threads of the parent (`Caller`) call waittask (`Look`,
`Check`, `Register`, the reply sent by the event) and task_for_pid (`Look`,
`Fetch`), and reap the zombie. A critical section of a lock is one step, with one
exception: the worker's nested read lock. pthread rwlocks let a waiting writer
go first, so a writer that asks between the two reads stops the reader, which
holds the lock the writer waits for: that is the step `Jam`, after which nobody
gets this rwlock. The invariants hold in jammed states too; the two liveness
properties have `jam` as an alternative.

The object's life is ProcTree's, cut to one child: the table and the contract
hold a reference until `Reap` or `ParentExits`, every worker holds one
meanwhile (`Busy`, `pin`), and the last one lets the task port go and answers every
event (`Deinit`). `killed` counts only when `PEProcessManager` knows the process
(`managed`), since proc_kill goes through it; `spared` is the history of a kill
that came too early. Two callers are not woken, and `SleepersWoken` does not
promise it: one that tests, is overtaken by store and announcement, and registers
afterwards (both hazards are listed); and one whose child is a zombie that nobody
reaps, which is every single-threaded parent inside posix_spawn when its child
dies before the handoff. A guest's own `waittask(getpid())` returns ECHILD
(waittask.c accepts children only) and is not in the model.

`TaskExchange.tla` is what guests and callers are promised, with each handoff, question
and answer atomic: one attempt ever to hand the port over (`open`, then `giving`; a
failure closes it for good, since the flag stays set), a right that is taken
once and let go at a failure or at the end, one answer per question, a caller
that waits only until the announcement or the end. `Promise` in TaskPort takes the
workers between test and store for `giving`, the callers between lookup and
answer for `asking`, and the list of events for `waiting`. The end of the object has to
find no handoff and no question open.

### LaunchService: supervision of daemons

`LaunchService.tla` composes the list of services, one object per property list
and reload, their instances, the process of each, and the userspace manager. The
actors are `User` (the holder of PEUserspaceManager's lock, which boots, reloads or
reboots), `Main` (the main queue, on which delayed restarts run), FrontBoard's
exit callbacks (`Deliver`, `TellManager`, `TellInstance`, `InstanceDidExit`,
`Delivered`, one enumeration of observers per process) and the processes, which
die at any time (`HostExit`). A launch is `NewInstance` (under the service's
lock), `SpawnHost`, `ManagerObserves`, `ManagerInserts`, `FindProcess`, then
`Launched` or `LaunchFailed`; an exit, a reload or a reboot may come between any
two of them.

Objective-C's reference counting decides what happens to a service that was
unloaded while a restart or an exit is under way: `Referenced` and `InstanceAlive`
say who holds strong references (a delegate is weak), every step that drops one
ends with `Collect`, and `Terminate` is the instance's `dealloc`, which kills its
process.

Simplifications. Services are of the kind that is enabled and restarted
(bootstrapd); a service launched on demand (compilerd) by its clients, with the
registry and the `stable` flag, is not modelled, nor is the minimal mode (in it
`loadEntryWithFileName` uses a fixed name, not its argument,
PELaunchServiceManager.m:130). PEProcess's init runs under the proctil lock and is
one step; ProcTree has its inside. `instanceDidExit`'s critical section and its
dispatch_after are one step: the service is kept alive by the running method
between them, and nobody else reads what they write. The delay itself is the
moment TLC picks for `TimerFires`. A member of `Inst` stands for an instance and
its process and is used again when neither exists; so is a member of `Svc`.

What its properties do not see: `OneSuccessor` counts per service object and
`OneServicePerPlist` looks at the list only, so that an old and a new object of one
property list may run the daemon at the same time, which the code lets them;
`OrphansDie` says that the old one's process dies. A process that dies before its
instance observes it is `missed`: the service is believed to run, and its entry may
stay in the manager's dictionary. `Supervised` and `EntriesDie` exempt it.

## 3. Runs

| run | instance | shows |
|---|---|---|
| kvobject | 3 threads, 3 references, fair | TypeOK, RefcountExact, NoUseAfterFree, NoUnderflowPanic, ImplementsRefObject, Reclaimed |
| kvobject_stray | the same, safety only | *fails*: RwExclusion |
| proctree | 2 threads, 3 processes, ChildMax 2, no jam, symmetric | TypeOK, CountExact, ContractSymmetric, NoSpin, ZombieHasStatus, WaitsEnd, Forest, NothingFreedInUse, ImplementsProcLife, and freedom from deadlock |
| proctree_live | 2 threads, 2 processes, up to 2 jams, fair | ExitCompletes, OperationsReturn |
| proctree_nested | 1 thread, 3 processes | *fails*: NoLockPanic |
| proctree_orphan | 2 threads, 3 processes | *fails*: ExitKillsChildren |
| proctree_lost_exit | 2 threads, 3 processes | *fails*: ExitIsHandled |
| wait4 | 2 waiters, 1 child, 1 sender of one call, 1 walk of the table, fair | TypeOK, EventsAreSleepers, FirstReportTrue, ReapedIsReported, OnlyCyclesBlock, CyclesLast, ImplementsExitReport, DeathIsReported, and that LockCycle names every deadlock |
| wait4_lost_wakeup | 1 waiter, 2 children | *fails*: SleeperHasChild |
| wait4_lock_order | 2 waiters, 2 children | *fails*: LockOrder |
| taskport | 2 guest threads, 2 callers, fair | TypeOK, RightsExact, RepliedOnce, ReadyIsTrue, TaskOnce, ImplementsTaskExchange, HandoffEnds, SleepersWoken |
| launch | 2 services, 2 instances, 1 property list, Limit 0, fair | TypeOK, Supervised, OneSuccessor, OneServicePerPlist, EntriesDie, NoStrays, OrphansDie |

Why the bounds are enough. KVObject: a third thread invalidates while two race in
retain and release; one reference in the table, one held, one in flight is the
most any race needs, and the theorems below lift the bound. ProcTree: three
processes give a grandchild, siblings whose slots are swapped, and the
ChildMax refusal (the kernel's third child); two threads give every pair of
concurrent operations, since spawns are serialised and reaps exclude each other.
The live run drops to two processes because symmetry is unsound for liveness; it
has up to two jams (`JamMax`): one alone may stop any operation, two keep an exit from its
parent and a reap from the table together. A jam changes no other variable and only
takes steps away, so every state the safety run could reach with jams it reaches
without: that run has `JamMax` 0, and the theorems hold for any.

Wait4 (766,386 states): two waiters give the sleeper whose event is handled and the
poller that takes its zombie, or the one that reads a child over its reap and the one
that scans behind the writer that waits for it; the writer is the sender, or the exit
itself, and a walk of the table may be the fourth. One child suffices for what is said of
each child's death and for each cycle, and the failing runs have a second one; a
sender's second call repeats the first. WCONTINUED is left out of the options, it is treated
as WUNTRACED is; the signals include SIGCONT, which nobody then asks for.

TaskPort (306,774 states): two guest threads give the handoff that is refused or
finds another one under way; two callers give the waiter and the one that reaps
its child. LaunchService: two service objects are the old and the new one of a property list, two
instances the dying and the starting one; with Limit 0 the first quick failure
already exceeds it, so the count's both outcomes occur (the code's limit is 5).
The safety invariants were also checked with Limit 1 and three instances
(14 million states, too long for a run kept here), and section 5 lifts the bounds.

Deadlock is checked everywhere. TaskPort's `Rest` is allowed only when the object
is freed and the process dead, or when the rwlock is jammed. LaunchService has no
such step: a loaded system can always reload. KVObject never stops; in ProcTree the `Rest`
step is allowed only when no operation is in progress or the kernel has panicked,
so a stuck thread would be reported. Wait4 does deadlock: its `Rest` also
covers the four cycles of `LockCycle`: the mutex against event_rwlock
(`RegisterCycle`); the handler, which has the mutex, against a wait4 that reads the
child over its reap (`HandlerCycle`); a scan, which has the mutex, behind a writer that
waits for such a wait4 (`ScanCycle`); a walk, which has the table, behind such a
writer, while the wait4 is on its way into proc_reap (`WalkCycle`). CyclesLast says
that they are real deadlocks, which no thread can lead out of, and OnlyCyclesBlock that these
threads have no other: in any other state some thread that is under way has the
locks of its next step. The last one says without ENABLED what freedom from deadlock means, so
that it can be proved too (`...HeldUp` is the negation of the lock guards of each thread's
next action).

Fairness. KVObject: a thread inside an operation takes its steps (host threads are
preemptive), and a thread that is again and again able to drop a reference
eventually does: all callers of retain in the repository release it. ProcTree:
strong fairness of each thread's steps, because the table's rwlock and proctil
queue their waiters (a step a jam has taken away is not owed), and delivery of a host process's exit. Nothing is assumed
about when processes are spawned or die, or that a parent ever calls wait4. The
number of spawns is finite, so a dying process cannot keep its own exit loop busy
with new children for ever.

Wait4: waiters, reap threads and walks run (weak fairness); a thread that delivers a signal
or an exit gets the locks it keeps asking for (strong). Nobody has to call wait4,
exit, send or walk.

TaskPort: workers run and get the rwlock they ask for (strong, and it is the jam
that takes it away), exits are noticed, a process sent a fatal signal dies.
Guests need not hand over anything, parents need not call or reap. LaunchService:
threads get a lock they keep asking for, exits are delivered, timers fire
(strong: the main queue is shared by all services), the userspace manager goes
on and a signalled process dies (weak). No crash, reload or reboot has to happen.

## 4. What the failing runs show

* `kvobject_stray`: a refused retain in `kvobject_snapshot_into_mem` unlocks an
  rwlock it never locked.
* `proctree_nested`: `proc_reap` recurses under the table's lock; any exit of a
  process with a grandchild reaches it.
* `proctree_orphan`: a spawn completes its contract with a parent that is being
  reaped.
* `proctree_lost_exit`: an exit between the running check and `self.proc = child`
  is dropped.
* `wait4_lost_wakeup`: the zombie mark and the trigger do not take the mutex
  under which wait4 scans and registers, so a death in between wakes nobody.
* `wait4_lock_order`: wait4 takes the parent's mutex with the child's rwlock held.
  The run ends in the second of the four cycles of section 3; only the order parent,
  then child is written down in the code, so only that one is a finding, and the
  run wait4 has all four.

`CountExact` passes with `leaked` in it: the two failure paths of `proc_spawn`
(spawn.m:126 and spawn.m:138) are the only ones that lose a reference.

## 5. Proofs

`KVObject_proofs.tla`, for every set of threads and references, from
`KVObjectAssumption` (finite Ref; the special owners are not threads):

* `Invariance`: `Spec => []IInv`. The invariants of section 3 are not inductive:
  that a release does not underflow needs the count to be exact, and that the
  object is still allocated at a program point needs to know which token that
  point relies on. `IInv` adds
  *Points* (which operation goes with each program counter),
  *Locks* (who holds the table's lock during insert, remove and lookup),
  *Tokens* (the count a retain is about to take is nobody's, later it is its
  thread's; two threads never work on the same one), *Slot* (the slot is full
  exactly when one count belongs to the table, and an insert past its check sees it
  empty), *Guards* (a thread that relies on another's count does so under the
  table's lock, or holds one itself) and *Death* (after the count reached zero
  nobody owns one, and exactly one thread is on its way to free). Each action has
  one step in the proof, each conjunct one below it.
* `Typing`, `CountIsExact`, `MemorySafety`, `NoUnderflow`: the four invariants.
* `Refinement`: every step maps to a step of RefObject or a stutter; the
  compare-and-exchange stutters and the successful second look is the Acquire.

`TaskPort_proofs.tla`, for every set of guest threads and callers: two parts
strengthen TypeOK. *Handoffs*: with the flag set at most one worker is past
`Enter`, without it none is, and no port is stored before `Store`; that is what
makes the port unique (`StoredOnce`, the action property TaskOnce) and the
rights exact (`RightsAreExact`). *Holders*: a freed object has no worker, no pin
and no event, so that `Deinit` cannot take a right somebody counts on
(`RepliesOnce`, `RepliesTrue`). `Refinement` (`Spec => ImplementsTaskExchange`) adds
*Questions*: a caller that has asked still holds its reference and has no answer
yet, so the last release comes after the last question; the steps that drop a
reference share one lemma (`SettlingPromise`), which maps them to End, Lose or a
stutter.

`LaunchService_proofs.tla`, for all finite sets of services, instances and
property lists and every Limit: the six invariants of the run (`Typing`,
`Successor`, `OnePerPlist`, `DeadEntries`, `Strays`, `Supervision`). The argument
is that one *token* per service moves between an instance in its array, an exit
on its way to the delegate, a pending restart and a thread about to launch
(*Tokens*). The inductive invariant `IInv` adds: *Threads* (what a launcher at each
point has: the lock, the instance, the service), *Exits* (a delegate call is for a
service that owns the instance, which is marked exited), *Instances* (an idle
instance has no owner, one that is fresh no observers), *Signals* (who is alive
and signalled), *Loading* (the property list being loaded is in no service of
the list), *Entries* (a dead process of the dictionary has the manager's
notification ahead of it). For each action one lemma says what it does
pointwise (`...Does`), and lemmas about Collect say what freeing keeps: a service
with a token is referenced, so its instances stay. `IInv` was checked as an
invariant by TLC first.

`Wait4_proofs.tla`, for every set of children, senders, listers and waiters: the
first report of a death tells an exit code from a signal (`FirstReport`). Not inductive alone, since the status could be
cleared before the report. *Actors* (whom a running `proc_state_change` is about),
*Zombies* (a marked child's exit is past the writing of p_status and never starts
again) and *Causes* give *Written*: once recorded, p_status stays the cause of the
exit until the first report, or a late signal overwrites it. *Reports* and
*Reaping* say that only zombies are reported as dead.

`Wait4Events_proofs.tla` builds on it: the list of events is the set of sleepers, each
once (`EventsSleep`), and TypeOK (`Typing`). *Sleepers* is that statement by
positions; what makes it inductive is *Walkers*: a thread between `Trigger` and
`TriggerEnd` owns event_rwlock, so one walk exists at a time, and what is left of
it are events not fired yet, which is why `Fire` always finds the event it unlinks.

`Wait4Locks_proofs.tla` adds who owns the children mutex (*Mutexes*: the waiter that
scans, the actor that handles) and how far each reap is (*Reaped*: a detached thread
is created for a death already reported, a waiter that unlinks reports later).
`Deaths`: no reap loses a death. `Deadlocks`: the four cycles stay whatever step is
taken; the proof has one lemma per cycle and one step per action.

`NoOtherDeadlock` needs the other direction of ownership, *Owners*: whoever has the
mutex, event_rwlock, the table or a child's rwlock is at a point between taking it and
letting it go. Then one goes along the locks: a thread is held up by a lock, its
owner runs, and is either free to go on or held up by the next lock. The owner of the
mutex waits for event_rwlock, in a scan for a queued writer, in a handler for a
reader; the owner of event_rwlock for the mutex; a reader for the table or the
mutex; a writer of the table for the mutex, a walk for a queued writer. The only
places where this comes back to its start are the four cycles. `Refinement`
(`Spec => ImplementsExitReport`) adds *Cleared* (after the first report p_status stays
zero unless a late signal wrote it) and *Unbegun* (an exit that has not begun has no
cause, so no child ends twice); each action is then one action of ExitReport or a
stutter: `Answer` of a death by the handler is Notify, the start of a waiter's
reap Undertake, its report Settle, unlinking and removing Forget.

`ProcTree_proofs.tla`, for all threads, processes and every CHILD_PROC_MAX: both sides of
each contract agree (`Contract`), no loop spins (`NeverSpins`), a zombie has its
status (`Reported`). The invariant `TInv` speaks of the frames at every level of
every stack: *Spawns* (one frame spawns a process and until the contract nobody else
is busy with it), *Births* (nobody knows a process that is not in the table yet),
*Reaps* (one reap at a time has the table's lock, and the parent it read before
unlinking is still the parent), *KidsValid* (a child in an array can be retained,
which is what `spin` would contradict), *Records* (an exit past proc_state_change is
recorded, or has no parent to read it). A step changes the top frame (`GotoSteps`),
removes it (`ReturnSteps`), pushes one (`CallSteps`) or starts an operation
(`StartSteps`); these lemmas say once what that preserves, `TameSteps` what steps
that touch no shared data preserve, and each action is then a few lines.

A second invariant, `Order`, is about how operations nest (`Ordering`): *Innermost* (a
spawn is never under another operation), *Callers* (a reap stands directly above
the frame that asked for it, which still holds the process), *LockOwners* (the
table's owner is inside a reap, proctil's is the thread in a launch), *Sessions*
(a spawn's parent is kept by its session) and *Heirless* (a process without a
contract has no child and is not its own parent). From it follow `LockOrder` (`WaitsEnd`:
without a jam a thread goes on, or waits for a table whose owner goes on);
`Rooted`, because a contract only ever adds a process that has no heirs, so in any
set of processes one has its parent outside; and, with the counters,
`WorkingReferences` in the next module. `LifeCycle` is the refinement of ProcLife:
*Tabled* (an object is valid exactly while it is in the table, and has a parent only
there) completes the invariant, the lemmas `StageSame`, `InSpawnAlone` and
`OpeningStage` say which steps leave the stages alone (at most one thread launches,
so a step of it is the only one that can change what InSpawn says), and one lemma per
action maps it to an action of ProcLife or a stutter.

`ProcTreeCount_proofs.tla` adds the counters: `CountsAreExact` and `Typing` (with
it, that no counter goes below zero). A counter is compared with `Owned` (table, PEProcess,
session, contract, children array) plus the number of frame slots that hold the
process plus what has leaked. `Weight` says what a frame owns by its operation and
point; the five lemmas `GotoGrows` ... `WaitGrows` give the change of the frames'
total for each kind of step, and `Balances` reduces each action to an equation
between that change and the change of `Owned`. `WorkingReferences`
(`NothingFreedInUse`) reads the counts with `Callers` and `Sessions`: what a
frame works with without owning it is owned by its caller's frame, by a session or by
the table.

Model-checked only: all liveness (`Reclaimed`, `ExitCompletes`,
`OperationsReturn`, `DeathIsReported`, `HandoffEnds`, `SleepersWoken`,
`OrphansDie`), which is out of this prover's reach, and the failing runs.

## 6. Plan

1. KVObject, RefObject, ProcTree, Wait4, TaskPort, LaunchService: done, with the
   proofs of section 5.
2. Abstract specifications: ExitReport for Wait4, ProcLife for ProcTree and TaskExchange
   for TaskPort are done and proved. Left: the release build's semantics of the
   nested table lock.
3. On-demand launch services with the bootstrap registry.
4. `Tty`: the life of a tty, held by the events of the process that opened it, found by
   ioctl through its table, and ended by a join of its pump thread, which itself
   looks up, kills and releases processes; controlling terminals against setsid and
   the exit of a session leader.
5. Proofs: done for Wait4's deadlocks (as an invariant that names a thread that can
   go on) and the refinements of item 2. Left: an abstract supervisor for
   LaunchService.

Runs stay small (under five minutes); liveness runs use the smallest instance in
which every action fires.

## 7. Not modelled

Sessions and groups (setsid, setpgid, the set*id calls). Each decides on a
snapshot or a lookup and writes later, under the process's own rwlock only; no
lock spans the table or a session. What one would want as an invariant (a
session leader leads its group, a group lies within one session, a tty's
foreground group is in the tty's session) is therefore broken by two concurrent
calls, and neither the code nor its documents and tests claim it, so a
run would refute a statement nobody made. What the code does claim (a process
has one credential snapshot, copied under the lock) is a single assignment. The gap is
listed as a hazard. The permission matrix of `permit.c` is a table of
comparisons without state.

ttys (`S/tty`): their references and table follow the same rules as every kvobject
(KVObject), and the line discipline is a matter of formats. Their own is the pump
thread: it starts before the object is marked alive, and it may be the thread that
releases the last process that holds the tty. Both hazards are listed; the hand-over of
the controlling terminal inherits the gaps of sessions.

The bootstrap registry and launch services on demand: a client's request starts
the instance and waits for an endpoint with a timeout; its state is a dictionary
under a lock, and the protocol with the client lies outside `src`'s host process.

The lines of `src` this project covers are few of all of them because most of the
repository is vendored headers (OpenSSL), third-party libraries (LiveContainer,
litehook, libzip, editors) and the IDE. The kernel core and
its launch services are about ten thousand lines; the state changes of those named as modelled in
section 1 are in the models.

Hazards no property covers have a note in `PROJECT.json` that says why. Several are
in the models, and the properties hold up to them because no text of the repository
denies them: a process that dies before its instance observes it (`missed`), a kill
before the manager knows the process (`spared`), the worker's nested read lock
(`Jam` of TaskPort), a waittask that registers too late or on a zombie nobody reaps, a
`_proc` cleared under sendSignal.

The radix tree's layout (a set of pids here): the tree is sequential under the
table's lock and its algorithm is the bits of a pid. Message formats of the syscall
worker, proc_info and sysctl structures, file system and sandbox wrappers, code
signing and entitlements, the kernel-extension loader, klog and the caches, the
shims inside guest processes, LiveContainer and the other third-party code, the
IDE, window server, frameworks, daemons and tools. They keep no shared state of
the kernel core, or their correctness is a matter of formats. `kvobject_copy`'s and
`kvobject_snapshot`'s allocation failures are listed with the hazards of alloc.c.
