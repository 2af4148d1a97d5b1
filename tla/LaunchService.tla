---------------------------- MODULE LaunchService ----------------------------
(***************************************************************************)
(* The supervision of daemons: PELaunchServiceManager's list of services,  *)
(* PELaunchService (one object per property list and reload, restarting    *)
(* its instance with a back-off), PELaunchServiceInstance (one launch),    *)
(* the part of PEProcess and PEProcessManager that hands exits to          *)
(* observers, and PEUserspaceManager's boot, reload and reboot.            *)
(*                                                                         *)
(* An instance has one process, so a member of Inst names both; members of *)
(* Inst and Svc are used again once nothing refers to them.  Objective-C   *)
(* frees an object in the step that drops its last strong reference: each  *)
(* action that drops one ends with Collect.  Services are the enabled and  *)
(* restarted kind (bootstrapd); PEUserspaceManager's lock admits one       *)
(* boot, reload or reboot at a time, which is the thread User.  Blocks on  *)
(* the main queue run one at a time: the thread Main.                      *)
(***************************************************************************)
EXTENDS Integers, FiniteSets

CONSTANTS
  Svc,     \* PELaunchService objects
  Inst,    \* PELaunchServiceInstance objects and their processes
  Plist,   \* the property lists in mntfs/lsfs
  None,
  Limit    \* a service that fails more often than this stays down (5)

ASSUME LaunchAssumption ==
  /\ IsFiniteSet(Svc) /\ IsFiniteSet(Inst) /\ IsFiniteSet(Plist)
  /\ None \notin Svc \cup Inst \cup Plist \cup {"user", "main"}
  /\ Limit \in Nat

User == "user"
Main == "main"
Launcher == {User, Main}

VARIABLES
  loaded,   \* PELaunchServiceManager._launchServices
  svc,      \* the services: property list, _restartCount, and whether
            \* (history) a launch failed, which is never retried
  timer,    \* pending dispatch_after blocks of each service
  lock,     \* holder of PELaunchService._lock
  owner,    \* the service whose _instances array has the instance
  st,       \* PELaunchServiceInstance._state
  host,     \* the FrontBoard process: none, running, dead
  killed,   \* processes that have been sent a fatal signal
  obs,      \* PEProcess._observers; "front" is PEProcess observing FrontBoard
  dict,     \* PEProcessManager._processes
  exit,     \* delivery of the exit: how far, observers still to call, delegate
  missed,   \* history: processes whose exit the instance was not told of
  th,       \* the launchers: program counter, service, instance
  phase,    \* what User is doing; it holds the proctil lock in "kill"
  todo,     \* property lists reloadAllEntries has still to load
  mode      \* PEUserspaceManager._mode

svcVars  == <<svc, timer, lock>>
procVars == <<host, obs, dict, exit, missed>>
userVars == <<phase, todo, mode>>
vars == <<loaded, svcVars, owner, st, killed, procVars, th, userVars>>

NoExit == [at |-> "none", left |-> {}, svc |-> None]
NoService == [plist |-> None, fails |-> 0, refused |-> FALSE]
Quiet  == [at |-> "idle", svc |-> None, inst |-> None]

TypeOK ==
  /\ loaded \subseteq Svc
  /\ svc \in [Svc -> [plist : Plist \cup {None}, fails : 0 .. Limit + 1,
                     refused : BOOLEAN]]
  /\ timer \in [Svc -> Nat] /\ lock \in [Svc -> Launcher \cup {None}]
  /\ owner \in [Inst -> Svc \cup {None}]
  /\ st \in [Inst -> {"idle", "launching", "running", "exited"}]
  /\ host \in [Inst -> {"none", "running", "dead"}]
  /\ killed \subseteq Inst /\ dict \subseteq Inst /\ missed \subseteq Inst
  /\ obs \in [Inst -> SUBSET {"front", "manager", "instance"}]
  /\ exit \in [Inst -> [at : {"none", "notify", "delegate"},
                        left : SUBSET {"manager", "instance"},
                        svc : Svc \cup {None}]]
  /\ th \in [Launcher -> [at : {"idle", "new", "spawn", "observe", "insert",
                                "find", "watch", "fail"},
                          svc : Svc \cup {None}, inst : Inst \cup {None}]]
  /\ phase \in {"off", "idle", "kill", "reload", "load"}
  /\ todo \subseteq Plist /\ mode \in {"default", "empty"}

Init ==
  /\ loaded = {} /\ svc = [s \in Svc |-> NoService]
  /\ timer = [s \in Svc |-> 0] /\ lock = [s \in Svc |-> None]
  /\ owner = [i \in Inst |-> None] /\ st = [i \in Inst |-> "idle"]
  /\ host = [i \in Inst |-> "none"] /\ killed = {}
  /\ obs = [i \in Inst |-> {}] /\ dict = {}
  /\ exit = [i \in Inst |-> NoExit] /\ missed = {}
  /\ th = [t \in Launcher |-> Quiet]
  /\ phase = "off" /\ todo = {} /\ mode = "default"

-----------------------------------------------------------------------------
(* Object lifetimes                                                        *)

\* Strong references to a service: the manager's list, a pending restart
\* block, a thread in one of its methods.  An instance's delegate is weak.
Referenced(s) ==
  \/ s \in loaded \/ timer[s] > 0
  \/ \E t \in Launcher : th[t].svc = s
  \/ \E i \in Inst : exit[i].svc = s

InstanceAlive(i) ==
  \/ owner[i] # None \/ "instance" \in exit[i].left
  \/ \E t \in Launcher : th[t].inst = i

\* The processes a signal can still reach.
Alive == {i \in Inst : host[i] = "running"}

\* A member of Inst no object and no process uses.
Fresh(i) ==
  ~InstanceAlive(i) /\ i \notin dict /\ host[i] = "none"

\* Services without a reference go, and their instances with them.  own and
\* now are what the step itself makes of owner and svc.
Freed(own) == {i \in Inst : own[i] \in {s \in Svc : ~Referenced(s)'}}

Collect(own, now) ==
  /\ svc' = [s \in Svc |-> IF Referenced(s)' THEN now[s] ELSE NoService]
  /\ owner' = [i \in Inst |-> IF i \in Freed(own) THEN None ELSE own[i]]
  /\ st' = [i \in Inst |-> IF InstanceAlive(i)' THEN st[i] ELSE "idle"]

\* Mutant: freeing an instance leaves its process alone.
TerminateNot(own) == killed' = killed

\* PELaunchServiceInstance's dealloc terminates a running process.
Terminate(own) ==
  killed' = killed \cup {i \in Freed(own) \cap Alive : st[i] = "running"}

-----------------------------------------------------------------------------
(* newInstance and launch                                                  *)

Step(t, l) == th' = [th EXCEPT ![t].at = l]

\* -newInstance up to -launch, under PELaunchService._lock until it returns.
NewInstance(t) ==
  LET s == th[t].svc IN
  /\ th[t].at = "new" /\ lock[s] = None
  /\ lock' = [lock EXCEPT ![s] = t]
  /\ \E i \in Inst :
       /\ Fresh(i)
       /\ owner' = [owner EXCEPT ![i] = s]
       /\ st' = [st EXCEPT ![i] = "launching"]
       /\ missed' = missed \ {i} /\ obs' = [obs EXCEPT ![i] = {}]
       /\ th' = [th EXCEPT ![t].at = "spawn", ![t].inst = i]
  /\ UNCHANGED <<loaded, svc, timer, killed, host, dict, exit, userVars>>

\* Every entry counts against PROC_MAX, which is reached when Inst is used up.
CountRefused(t) ==
  LET s == th[t].svc IN
  /\ th[t].at = "new" /\ lock[s] = None /\ dict = Inst
  /\ th' = [th EXCEPT ![t] = Quiet]
  /\ UNCHANGED <<loaded, timer, lock, killed, procVars,
                 userVars>>
  /\ Collect(owner, [svc EXCEPT ![s].refused = TRUE])

\* Mutant: the process of a refused proc_spawn is left alone.
SpawnHostLeaves(t) ==
  LET i == th[t].inst IN
  /\ th[t].at = "spawn" /\ phase # "kill"
  /\ \/ Step(t, "fail") /\ UNCHANGED <<host, obs>>
     \/ /\ Step(t, "observe")
        /\ host' = [host EXCEPT ![i] = "running"]
        /\ obs' = [obs EXCEPT ![i] = {"front"}]
     \/ /\ Step(t, "fail")
        /\ host' = [host EXCEPT ![i] = "running"]
        /\ UNCHANGED obs
  /\ UNCHANGED <<loaded, svcVars, owner, st, killed, dict, exit, missed, userVars>>

\* PEProcess's init, a critical section of the proctil lock, which a reboot
\* holds.  The identity or FrontBoard may refuse, or the process be dead when it
\* is looked at; proc_spawn may fail, and the process is terminated.
SpawnHost(t) ==
  LET i == th[t].inst IN
  /\ th[t].at = "spawn" /\ phase # "kill"
  /\ \/ /\ Step(t, "fail") /\ UNCHANGED <<host, obs, killed>>
     \/ /\ Step(t, "observe")
        /\ host' = [host EXCEPT ![i] = "running"]
        /\ obs' = [obs EXCEPT ![i] = {"front"}]
        /\ UNCHANGED killed
     \/ /\ Step(t, "fail")
        /\ host' = [host EXCEPT ![i] = "running"]
        /\ killed' = killed \cup {i}
        /\ UNCHANGED obs
  /\ UNCHANGED <<loaded, svcVars, owner, st, dict, exit, missed, userVars>>

\* PEProcessManager observes the process ...
ManagerObserves(t) ==
  /\ th[t].at = "observe"
  /\ obs' = [obs EXCEPT ![th[t].inst] = @ \cup {"manager"}]
  /\ Step(t, "insert")
  /\ UNCHANGED <<loaded, svcVars, owner, st, killed, host, dict, exit, missed,
                 userVars>>

\* ... and enters it into its dictionary.
ManagerInserts(t) ==
  /\ th[t].at = "insert"
  /\ dict' = dict \cup {th[t].inst}
  /\ Step(t, "find")
  /\ UNCHANGED <<loaded, svcVars, owner, st, killed, host, obs, exit, missed,
                 userVars>>

\* processForProcessIdentifier: an exit may already have removed the entry.
FindProcess(t) ==
  LET i == th[t].inst IN
  /\ th[t].at = "find"
  /\ \/ /\ i \in dict
        /\ st' = [st EXCEPT ![i] = "running"]
        /\ Step(t, "watch") /\ UNCHANGED killed
     \/ /\ i \notin dict
        /\ killed' = killed \cup ({i} \cap Alive)
        /\ Step(t, "fail") /\ UNCHANGED st
  /\ UNCHANGED <<loaded, svcVars, owner, procVars, userVars>>

\* [process addObserver:self]; an exit delivered before is not repeated.  Then
\* newInstance unlocks and returns: the main queue releases the block, and
\* reloadAllEntries adds the service to the manager's list.
Launched(t) ==
  LET s == th[t].svc
      i == th[t].inst IN
  /\ th[t].at = "watch"
  /\ obs' = [obs EXCEPT ![i] = @ \cup {"instance"}]
  /\ lock' = [lock EXCEPT ![s] = None]
  /\ th' = [th EXCEPT ![t] = Quiet]
  /\ loaded' = IF t = User THEN loaded \cup {s} ELSE loaded
  /\ UNCHANGED <<timer, host, dict, exit, missed, userVars>>
  /\ Collect(owner, svc) /\ Terminate(owner)

\* newInstance returns nil: the service is not loaded, or is not restarted.
LaunchFailed(t) ==
  LET s == th[t].svc
      i == th[t].inst IN
  /\ th[t].at = "fail"
  /\ lock' = [lock EXCEPT ![s] = None]
  /\ th' = [th EXCEPT ![t] = Quiet]
  /\ UNCHANGED <<loaded, timer, killed, procVars, userVars>>
  /\ Collect([owner EXCEPT ![i] = None], [svc EXCEPT ![s].refused = TRUE])

-----------------------------------------------------------------------------
(* Exits                                                                   *)

\* A process ends by itself or by a signal; "dead" until that is delivered.
HostExit(i) ==
  /\ host[i] = "running"
  /\ host' = [host EXCEPT ![i] = IF "front" \in obs[i] THEN "dead" ELSE "none"]
  /\ killed' = killed \ {i}
  /\ UNCHANGED <<loaded, svcVars, owner, st, obs, dict, exit, missed, th, userVars>>

\* FrontBoard calls processDidExit: a snapshot of the observers.
Deliver(i) ==
  /\ host[i] = "dead" /\ "front" \in obs[i] /\ exit[i].at = "none"
  /\ exit' = [exit EXCEPT ![i] =
       [at |-> "notify", left |-> {o \in obs[i] \ {"front"} :
                                     o = "instance" => InstanceAlive(i)},
        svc |-> None]]
  /\ missed' = IF "instance" \in obs[i] THEN missed ELSE missed \cup {i}
  /\ UNCHANGED <<loaded, svcVars, owner, st, killed, host, obs, dict, th, userVars>>

\* Mutant: the manager keeps the entry.
TellManagerKeeps(i) ==
  /\ exit[i].at = "notify" /\ "manager" \in exit[i].left
  /\ exit' = [exit EXCEPT ![i].left = @ \ {"manager"}]
  /\ obs' = [obs EXCEPT ![i] = @ \ {"manager"}]
  /\ UNCHANGED <<loaded, svcVars, owner, st, killed, host, dict, missed, th,
                 userVars>>

\* PEProcessManager's didExit: the entry goes, if it is there yet.
TellManager(i) ==
  /\ exit[i].at = "notify" /\ "manager" \in exit[i].left
  /\ exit' = [exit EXCEPT ![i].left = @ \ {"manager"}]
  /\ obs' = [obs EXCEPT ![i] = @ \ {"manager"}]
  /\ dict' = dict \ {i}
  /\ UNCHANGED <<loaded, svcVars, owner, st, killed, host, missed, th, userVars>>

\* PELaunchServiceInstance's didExit up to the call of its delegate, the
\* service if that is still alive.
TellInstance(i) ==
  /\ exit[i].at = "notify" /\ "instance" \in exit[i].left
  /\ st' = [st EXCEPT ![i] = IF owner[i] = None THEN "idle" ELSE "exited"]
  /\ obs' = [obs EXCEPT ![i] = @ \ {"instance"}]
  /\ exit' = [exit EXCEPT ![i] =
       [at |-> IF owner[i] = None THEN "notify" ELSE "delegate",
        left |-> @.left \ {"instance"}, svc |-> owner[i]]]
  /\ UNCHANGED <<loaded, svcVars, owner, killed, host, dict, missed, th, userVars>>

\* Mutant: one failure too many is allowed.
InstanceDidExitOnceMore(i) ==
  LET s == exit[i].svc IN
  /\ exit[i].at = "delegate" /\ lock[s] = None
  /\ exit' = [exit EXCEPT ![i].at = "notify", ![i].svc = None]
  /\ UNCHANGED <<loaded, lock, killed, host, obs, dict, missed, th, userVars>>
  /\ \E n \in {0, svc[s].fails + 1} :
       /\ timer' = [timer EXCEPT ![s] = IF n > Limit + 1 THEN @ ELSE @ + 1]
       /\ Collect([owner EXCEPT ![i] = None], [svc EXCEPT ![s].fails = n])

\* Mutant: the exited instance stays in the array.
InstanceDidExitKeeps(i) ==
  LET s == exit[i].svc IN
  /\ exit[i].at = "delegate" /\ lock[s] = None
  /\ exit' = [exit EXCEPT ![i].at = "notify", ![i].svc = None]
  /\ UNCHANGED <<loaded, lock, killed, host, obs, dict, missed, th, userVars>>
  /\ \E n \in {0, svc[s].fails + 1} :
       /\ timer' = [timer EXCEPT ![s] = IF n > Limit THEN @ ELSE @ + 1]
       /\ Collect(owner, [svc EXCEPT ![s].fails = n])

\* Mutant: only the first failure after a while is followed by a restart.
InstanceDidExitForgets(i) ==
  LET s == exit[i].svc IN
  /\ exit[i].at = "delegate" /\ lock[s] = None
  /\ exit' = [exit EXCEPT ![i].at = "notify", ![i].svc = None]
  /\ UNCHANGED <<loaded, lock, killed, host, obs, dict, missed, th, userVars>>
  /\ \E n \in {0, svc[s].fails + 1} :
       /\ timer' = [timer EXCEPT ![s] = IF svc[s].fails = 0 THEN @ ELSE @ + 1]
       /\ Collect([owner EXCEPT ![i] = None], [svc EXCEPT ![s].fails = n])

\* PELaunchService's instanceDidExit: within a second of the last launch the
\* count grows, later it starts anew; beyond Limit the service stays down,
\* otherwise a block that calls newInstance is put on the main queue.
InstanceDidExit(i) ==
  LET s == exit[i].svc IN
  /\ exit[i].at = "delegate" /\ lock[s] = None
  /\ exit' = [exit EXCEPT ![i].at = "notify", ![i].svc = None]
  /\ UNCHANGED <<loaded, lock, killed, host, obs, dict, missed, th, userVars>>
  /\ \E n \in {0, svc[s].fails + 1} :
       /\ timer' = [timer EXCEPT ![s] = IF n > Limit THEN @ ELSE @ + 1]
       /\ Collect([owner EXCEPT ![i] = None], [svc EXCEPT ![s].fails = n])

\* The enumeration ends.
Delivered(i) ==
  /\ exit[i].at = "notify" /\ exit[i].left = {}
  /\ exit' = [exit EXCEPT ![i] = NoExit]
  /\ obs' = [obs EXCEPT ![i] = {}] /\ host' = [host EXCEPT ![i] = "none"]
  /\ UNCHANGED <<loaded, svcVars, owner, st, killed, dict, missed, th, userVars>>

\* The main queue runs the block after the delay.
TimerFires(s) ==
  /\ th[Main].at = "idle" /\ timer[s] > 0
  /\ timer' = [timer EXCEPT ![s] = @ - 1]
  /\ th' = [th EXCEPT ![Main] = [at |-> "new", svc |-> s, inst |-> None]]
  /\ UNCHANGED <<loaded, svc, lock, owner, st, killed, procVars,
                 userVars>>

-----------------------------------------------------------------------------
(* PEUserspaceManager                                                      *)

\* boot: the services are loaded once the bootstrap is done.
Boot ==
  /\ phase = "off" /\ phase' = "load" /\ todo' = Plist
  /\ UNCHANGED <<loaded, svcVars, owner, st, killed, procVars, th, mode>>

\* reloadDaemons
ReloadDaemons ==
  /\ phase = "idle" /\ phase' = "reload"
  /\ UNCHANGED <<loaded, svcVars, owner, st, killed, procVars, th, todo,
                 mode>>

\* rebootUserspaceWithType: the proctil lock, then the services go ...
RebootBegin ==
  /\ phase = "idle" /\ phase' = "kill"
  /\ loaded' = {}
  /\ UNCHANGED <<timer, lock, procVars, th, todo, mode>>
  /\ Collect(owner, svc) /\ Terminate(owner)

\* ... and killAllRunningProcesses; the lock is released.
RebootKill ==
  /\ phase = "kill" /\ phase' = "reload"
  /\ mode' \in {"default", "empty"}
  /\ killed' = killed \cup (dict \cap Alive)
  /\ UNCHANGED <<loaded, svcVars, owner, st, procVars, th, todo>>

\* Mutant: the old list is kept.
ReloadAdds ==
  /\ phase = "reload"
  /\ IF mode = "default" THEN phase' = "load" /\ todo' = Plist
                         ELSE phase' = "idle" /\ UNCHANGED todo
  /\ UNCHANGED <<loaded, svcVars, owner, st, killed, procVars, th, mode>>

\* reloadDaemons_nolock: all services go; in the default mode all are loaded.
Reload ==
  /\ phase = "reload"
  /\ loaded' = {}
  /\ IF mode = "default" THEN phase' = "load" /\ todo' = Plist
                         ELSE phase' = "idle" /\ UNCHANGED todo
  /\ UNCHANGED <<timer, lock, procVars, th, mode>>
  /\ Collect(owner, svc) /\ Terminate(owner)

\* reloadAllEntries makes the next service, which launches at once ...
LoadNext ==
  /\ phase = "load" /\ th[User].at = "idle"
  /\ \E p \in todo, s \in Svc :
       /\ ~Referenced(s)
       /\ todo' = todo \ {p}
       /\ svc' = [svc EXCEPT ![s] =
                              [plist |-> p, fails |-> 0, refused |-> FALSE]]
       /\ th' = [th EXCEPT ![User] = [at |-> "new", svc |-> s, inst |-> None]]
  /\ UNCHANGED <<loaded, timer, lock, owner, st, killed, procVars, phase,
                 mode>>

\* ... until there is none left.
LoadEnd ==
  /\ phase = "load" /\ th[User].at = "idle" /\ todo = {}
  /\ phase' = "idle"
  /\ UNCHANGED <<loaded, svcVars, owner, st, killed, procVars, th, todo,
                 mode>>

-----------------------------------------------------------------------------
Launch(t) ==
  \/ NewInstance(t) \/ CountRefused(t) \/ SpawnHost(t) \/ ManagerObserves(t)
  \/ ManagerInserts(t) \/ FindProcess(t) \/ Launched(t) \/ LaunchFailed(t)

Exiting(i) ==
  \/ Deliver(i) \/ TellManager(i) \/ TellInstance(i) \/ InstanceDidExit(i)
  \/ Delivered(i)

Userspace == RebootKill \/ Reload \/ LoadNext \/ LoadEnd

Next ==
  \/ \E t \in Launcher : Launch(t)
  \/ \E i \in Inst : HostExit(i) \/ Exiting(i)
  \/ \E s \in Svc : TimerFires(s)
  \/ Boot \/ ReloadDaemons \/ RebootBegin \/ Userspace

Spec == Init /\ [][Next]_vars

\* Threads run and get the locks they keep asking for; an exit is delivered;
\* a signalled process dies; timers fire.  Nothing is assumed about crashes,
\* reloads and reboots.
Fairness ==
  /\ \A t \in Launcher : SF_vars(Launch(t))
  /\ \A i \in Inst : SF_vars(Exiting(i)) /\ WF_vars(i \in killed /\ HostExit(i))
  /\ \A s \in Svc : SF_vars(TimerFires(s))
  /\ WF_vars(Userspace)

FairSpec == Spec /\ Fairness

-----------------------------------------------------------------------------
(* Properties                                                              *)

Launching(s) == \E t \in Launcher : th[t].svc = s

\* The exit of i is still on its way to the service.
Announced(i) ==
  \/ exit[i].at = "none" /\ {"front", "instance"} \subseteq obs[i]
  \/ "instance" \in exit[i].left

\* PEShouldAutorestart: a loaded service is up (its process runs, or the news
\* of its exit will reach it), about to be launched, or down for one of three
\* reasons: too many quick failures, a launch that was refused, an exit that
\* came before the instance observed its process (PELaunchServiceInstance.m).
Supervised ==
  \A s \in loaded :
    \/ Launching(s) \/ timer[s] > 0
    \/ svc[s].fails > Limit \/ svc[s].refused
    \/ \E i \in Inst : exit[i].svc = s
    \/ \E i \in Inst : /\ owner[i] = s /\ st[i] = "running"
                      /\ (Announced(i) \/ i \in missed)

\* One exit has one successor: whatever the order of exits, timers and
\* reboots, a service object has at most one instance, or one restart under
\* way.  An old and a new object of one property list may run the daemon at
\* the same time, until OrphansDie (PELaunchService.m:103-190).
OneSuccessor ==
  \A s \in Svc :
    Cardinality({i \in Inst : owner[i] = s}) + timer[s]
      + Cardinality({t \in Launcher : th[t].svc = s /\ th[t].at = "new"}) <= 1

\* Reloads never leave two services of one property list in the manager's
\* list.  It says nothing of the old objects, which live on in blocks and on
\* threads (PELaunchServiceManager.m:108-123).
OneServicePerPlist ==
  \A s, r \in loaded : svc[s].plist = svc[r].plist => s = r

\* The dictionary keeps no dead process (whose PEProcess would count against
\* PROC_MAX for ever), unless its exit was not told to the instance: it died
\* before the manager had entered it, or between that and the instance's
\* observer (PEProcessManager.m:82-86, PELaunchServiceInstance.m:124).
EntriesDie ==
  \A i \in dict : host[i] = "none" => i \in missed

\* No process runs that nobody is responsible for: its instance is in a live
\* service's array or being launched, or it has been sent a fatal signal, in
\* whatever order services are freed, launches end and signals are sent.
NoStrays ==
  \A i \in Alive :
    owner[i] # None \/ i \in killed \/ \E t \in Launcher : th[t].inst = i

\* The process of a service that is no longer loaded dies: a restart block
\* that outlives its service ("reignition ... will not automatically
\* restart", PEUserspaceManager.m) has no lasting effect.
OrphansDie ==
  \A i \in Inst :
    (host[i] = "running" /\ owner[i] \notin loaded)
      ~> (host[i] # "running" \/ owner[i] \in loaded)
=============================================================================
