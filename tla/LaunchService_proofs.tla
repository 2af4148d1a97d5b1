------------------------ MODULE LaunchService_proofs ------------------------
(***************************************************************************)
(* Proofs about LaunchService, for any finite sets of services, instances  *)
(* and property lists, and any Limit.                                      *)
(***************************************************************************)
EXTENDS LaunchService, FiniteSetTheorems, TLAPS

(***************************************************************************)
(* The inductive invariant                                                 *)
(***************************************************************************)

\* The program points of -newInstance with _lock held.
Stage == {"spawn", "observe", "insert", "find", "watch", "fail"}

\* What a launcher has in its hands, and who holds _lock.
Threads ==
  /\ \A t \in Launcher :
       /\ th[t].at = "idle" => th[t].svc = None /\ th[t].inst = None
       /\ th[t].at = "new" => th[t].svc \in Svc /\ th[t].inst = None
       /\ th[t].at \in Stage =>
            /\ th[t].svc \in Svc /\ th[t].inst \in Inst
            /\ lock[th[t].svc] = t
            /\ owner[th[t].inst] = th[t].svc
            /\ st[th[t].inst] = IF th[t].at = "watch" THEN "running"
                                                      ELSE "launching"
  /\ \A s \in Svc : lock[s] # None => /\ th[lock[s]].svc = s
                                      /\ th[lock[s]].at \in Stage

\* An exit is delivered while the dead process is still there; the service
\* it is announced to owns the exited instance.
Exits ==
  \A i \in Inst :
    /\ exit[i].at = "delegate" =>
         /\ exit[i].svc \in Svc /\ owner[i] = exit[i].svc
         /\ st[i] = "exited" /\ "instance" \notin exit[i].left
    /\ exit[i].at # "delegate" => exit[i].svc = None
    /\ exit[i].at = "none" => exit[i].left = {}
    /\ exit[i].at # "none" => host[i] = "dead" /\ "front" \in obs[i]

\* Instances belong to services that something refers to.
Instances ==
  \A i \in Inst :
    /\ \A s \in Svc : owner[i] = s => Referenced(s) /\ st[i] # "idle"
    /\ st[i] = "launching" => \E t \in Launcher : th[t].inst = i
    /\ st[i] = "exited" => exit[i].at = "delegate"

\* A service has one token: an instance, a pending restart, or a launch that
\* has just begun; and none when it has failed too often.
Token(s) ==
  /\ \A i, j \in Inst : owner[i] = s /\ owner[j] = s => i = j
  /\ \A t, u \in Launcher : th[t].svc = s /\ th[u].svc = s => t = u
  /\ timer[s] <= 1
  /\ timer[s] = 1 => \A t \in Launcher : th[t].svc # s
  /\ \A i \in Inst : owner[i] = s =>
       timer[s] = 0 /\ \A t \in Launcher : th[t].svc = s => th[t].at # "new"
  /\ svc[s].fails > Limit =>
       /\ timer[s] = 0 /\ \A i \in Inst : owner[i] # s
       /\ \A t \in Launcher : th[t].svc # s

Tokens == \A s \in Svc : Token(s)

\* Signals are for running processes; a failed launch leaves none behind.
Signals ==
  /\ killed \subseteq Alive
  /\ \A t \in Launcher : th[t].at = "fail" => th[t].inst \notin Alive \ killed

\* reloadAllEntries works off todo.
Loading ==
  /\ phase = "load" => \A s \in loaded : svc[s].plist \notin todo
  /\ th[User].at # "idle" =>
       /\ phase = "load"
       /\ svc[th[User].svc].plist \notin todo
       /\ \A s \in loaded : svc[s].plist # svc[th[User].svc].plist
  /\ phase = "off" => loaded = {}

\* What the manager has been, or will be, told of a process it has entered;
\* and what a launcher may rely on unless the exit came first.
Watched(i) == "front" \in obs[i] /\ host[i] # "none"

Entries ==
  /\ \A i \in dict : i \notin missed =>
       /\ Watched(i)
       /\ exit[i].at = "none" => "manager" \in obs[i]
       /\ exit[i].at # "none" => "manager" \in exit[i].left
  /\ \A t \in Launcher : th[t].at \in Stage =>
       "instance" \notin obs[th[t].inst] \cup exit[th[t].inst].left
  /\ \A t \in Launcher : th[t].at \in {"spawn", "observe", "insert"} =>
       th[t].inst \notin dict
  /\ \A t \in Launcher : th[t].at = "spawn" => host[th[t].inst] = "none"
  /\ \A t \in Launcher :
       th[t].at \in {"observe", "insert", "find", "watch"}
         /\ th[t].inst \notin missed =>
            /\ Watched(th[t].inst) /\ exit[th[t].inst].at = "none"
            /\ th[t].at = "insert" => "manager" \in obs[th[t].inst]

IInv ==
  /\ TypeOK /\ Threads /\ Exits /\ Instances /\ Tokens /\ Signals /\ NoStrays
  /\ Loading /\ OneServicePerPlist /\ Entries /\ Supervised

-----------------------------------------------------------------------------
(* Collect, the end of every step that drops a reference                   *)

Svcs  == [plist : Plist \cup {None}, fails : 0 .. Limit + 1, refused : BOOLEAN]
Sts   == {"idle", "launching", "running", "exited"}

\* Services that are still referenced keep what the step made of them, and
\* their instances; the others lose both.
LEMMA Collecting ==
  ASSUME NEW STATE own, NEW STATE now,
         own \in [Inst -> Svc \cup {None}], now \in [Svc -> Svcs],
         st \in [Inst -> Sts], Collect(own, now)
  PROVE  /\ svc' \in [Svc -> Svcs] /\ owner' \in [Inst -> Svc \cup {None}]
         /\ st' \in [Inst -> Sts]
         /\ \A s \in Svc : Referenced(s)' => svc'[s] = now[s]
         /\ \A s \in Svc : svc'[s] \in {now[s], NoService}
         /\ \A i \in Inst : owner'[i] \in {own[i], None}
         /\ \A i \in Inst, s \in Svc : owner'[i] = s => own[i] = s /\ Referenced(s)'
         /\ \A i \in Inst, s \in Svc : own[i] = s /\ Referenced(s)' => owner'[i] = s
         /\ \A i \in Inst : InstanceAlive(i)' => st'[i] = st[i]
         /\ \A i \in Inst : st'[i] \in {st[i], "idle"}
<1>1. NoService \in Svcs
  BY LaunchAssumption DEF NoService, Svcs
<1>2. svc' \in [Svc -> Svcs] /\ owner' \in [Inst -> Svc \cup {None}] /\ st' \in [Inst -> Sts]
  BY <1>1 DEF Collect, Sts
<1>3. \A s \in Svc : Referenced(s)' => svc'[s] = now[s]
  BY DEF Collect
<1>4. \A s \in Svc : svc'[s] \in {now[s], NoService}
  BY DEF Collect
<1>5. \A i \in Inst : owner'[i] = IF i \in Freed(own) THEN None ELSE own[i]
  BY DEF Collect
<1>a. \A i \in Inst : i \in Freed(own) <=> \E s \in Svc : own[i] = s /\ ~Referenced(s)'
  BY DEF Freed
<1>6. \A i \in Inst : owner'[i] \in {own[i], None}
  BY <1>5
<1>7. \A i \in Inst, s \in Svc : owner'[i] = s => own[i] = s /\ Referenced(s)'
  BY <1>5, <1>a, LaunchAssumption
<1>8. \A i \in Inst, s \in Svc : own[i] = s /\ Referenced(s)' => owner'[i] = s
  BY <1>5, <1>a
<1>9. \A i \in Inst : InstanceAlive(i)' => st'[i] = st[i]
  BY DEF Collect
<1>10. \A i \in Inst : st'[i] \in {st[i], "idle"}
  BY DEF Collect
<1> QED BY <1>2, <1>3, <1>4, <1>6, <1>7, <1>8, <1>9, <1>10

-----------------------------------------------------------------------------
(* Types                                                                   *)

Ths   == [at : {"idle", "new", "spawn", "observe", "insert", "find", "watch", "fail"},
          svc : Svc \cup {None}, inst : Inst \cup {None}]
Ends  == [at : {"none", "notify", "delegate"},
          left : SUBSET {"manager", "instance"}, svc : Svc \cup {None}]
Obs   == SUBSET {"front", "manager", "instance"}

LEMMA Parts ==
  TypeOK <=> /\ th \in [Launcher -> Ths] /\ exit \in [Inst -> Ends]
             /\ svc \in [Svc -> Svcs] /\ st \in [Inst -> Sts]
             /\ obs \in [Inst -> Obs]
             /\ loaded \subseteq Svc /\ timer \in [Svc -> Nat]
             /\ lock \in [Svc -> Launcher \cup {None}]
             /\ owner \in [Inst -> Svc \cup {None}]
             /\ host \in [Inst -> {"none", "running", "dead"}]
             /\ killed \subseteq Inst /\ dict \subseteq Inst /\ missed \subseteq Inst
             /\ phase \in {"off", "idle", "kill", "reload", "load"}
             /\ todo \subseteq Plist /\ mode \in {"default", "empty"}
BY DEF TypeOK, Ths, Ends, Svcs, Sts, Obs

\* Updates of records
LEMMA ThAt ==
  ASSUME th \in [Launcher -> Ths], NEW t \in Launcher,
         NEW l \in {"idle", "new", "spawn", "observe", "insert", "find", "watch", "fail"},
         Step(t, l)
  PROVE  th' \in [Launcher -> Ths]
<1>1. [th[t] EXCEPT !.at = l] \in Ths BY DEF Ths
<1> QED BY <1>1 DEF Step

LEMMA ThInst ==
  ASSUME th \in [Launcher -> Ths], NEW t \in Launcher, NEW i \in Inst,
         th' = [th EXCEPT ![t].at = "spawn", ![t].inst = i]
  PROVE  th' \in [Launcher -> Ths]
<1>1. [th[t] EXCEPT !.at = "spawn", !.inst = i] \in Ths BY DEF Ths
<1> QED BY <1>1

LEMMA ThQuiet ==
  ASSUME th \in [Launcher -> Ths], NEW t \in Launcher,
         NEW s \in Svc, NEW l \in {Quiet, [at |-> "new", svc |-> s, inst |-> None]},
         th' = [th EXCEPT ![t] = l]
  PROVE  th' \in [Launcher -> Ths]
BY DEF Ths, Quiet

LEMMA EndNext ==
  ASSUME exit \in [Inst -> Ends], NEW i \in Inst
  PROVE  /\ [exit EXCEPT ![i].left = @ \ {"manager"}] \in [Inst -> Ends]
         /\ [exit EXCEPT ![i].at = "notify", ![i].svc = None] \in [Inst -> Ends]
<1>1. exit[i] \in Ends
  OBVIOUS
<1>2. [exit[i] EXCEPT !.left = @ \ {"manager"}] \in Ends
  BY <1>1 DEF Ends
<1>3. [exit[i] EXCEPT !.at = "notify", !.svc = None] \in Ends
  BY <1>1 DEF Ends
<1> QED BY <1>2, <1>3

LEMMA SvcNext ==
  ASSUME svc \in [Svc -> Svcs], NEW s \in Svc
  PROVE  /\ [svc EXCEPT ![s].refused = TRUE] \in [Svc -> Svcs]
         /\ \A n \in 0 .. Limit + 1 : [svc EXCEPT ![s].fails = n] \in [Svc -> Svcs]
         /\ \A p \in Plist : [svc EXCEPT ![s] = [plist |-> p, fails |-> 0, refused |-> FALSE]] \in [Svc -> Svcs]
<1>1. [svc[s] EXCEPT !.refused = TRUE] \in Svcs
  BY DEF Svcs
<1>2. ASSUME NEW n \in 0 .. Limit + 1 PROVE [svc[s] EXCEPT !.fails = n] \in Svcs
  BY DEF Svcs
<1>3. ASSUME NEW p \in Plist PROVE [plist |-> p, fails |-> 0, refused |-> FALSE] \in Svcs
  BY LaunchAssumption DEF Svcs
<1> QED BY <1>1, <1>2, <1>3

-----------------------------------------------------------------------------
(* The steps that drop references                                          *)

\* The launcher of a service for which PROC_MAX leaves no room gives up.
LEMMA CountRefusedDoes ==
  ASSUME IInv, NEW t \in Launcher, CountRefused(t)
  PROVE  /\ th[t].at = "new" /\ th[t].svc \in Svc /\ dict = Inst
         /\ th'[t] = Quiet /\ \A u \in Launcher \ {t} : th'[u] = th[u]
         /\ UNCHANGED <<loaded, timer, lock, killed, host, obs, dict, exit, missed, phase, todo>>
         /\ \A j \in Inst : owner'[j] \in {owner[j], None}
         /\ \A j \in Inst, s \in Svc : owner'[j] = s => owner[j] = s /\ Referenced(s)'
         /\ \A j \in Inst, s \in Svc : owner[j] = s /\ Referenced(s)' => owner'[j] = s
         /\ \A j \in Inst : InstanceAlive(j)' => st'[j] = st[j]
         /\ \A j \in Inst : ~InstanceAlive(j)' => st'[j] = "idle"
         /\ \A j \in Inst : st'[j] \in {st[j], "idle"}
         /\ \A s \in Svc : Referenced(s)' =>
              /\ svc'[s].plist = svc[s].plist /\ svc'[s].fails = svc[s].fails
              /\ svc'[s].refused <=> svc[s].refused \/ s = th[t].svc
         /\ \A s \in Svc : svc'[s].fails \in {0, svc[s].fails}
<1> DEFINE now == [svc EXCEPT ![th[t].svc].refused = TRUE]
<1>0. /\ th \in [Launcher -> Ths] /\ svc \in [Svc -> Svcs] /\ st \in [Inst -> Sts]
      /\ owner \in [Inst -> Svc \cup {None}]
  BY Parts DEF IInv
<1>1. th[t].at = "new" /\ th[t].svc \in Svc
  BY DEF CountRefused, IInv, Threads
<1>2. th'[t] = Quiet /\ \A u \in Launcher \ {t} : th'[u] = th[u]
  BY <1>0 DEF CountRefused
<1>3. /\ UNCHANGED <<loaded, timer, lock, killed, host, obs, dict, exit, missed, phase, todo>>
      /\ dict = Inst /\ Collect(owner, now)
  BY DEF CountRefused, procVars, userVars
<1>4. now \in [Svc -> Svcs]
  BY <1>0, <1>1, SvcNext
<1>5. \A s \in Svc : /\ now[s].plist = svc[s].plist /\ now[s].fails = svc[s].fails
                     /\ now[s].refused <=> svc[s].refused \/ s = th[t].svc
  BY <1>0, <1>1 DEF Svcs
<1>a. \A j \in Inst : ~InstanceAlive(j)' => st'[j] = "idle"
  BY <1>3 DEF Collect
<1> HIDE DEF now
<1>6. /\ \A s \in Svc : Referenced(s)' => svc'[s] = now[s]
      /\ \A s \in Svc : svc'[s] \in {now[s], NoService}
      /\ \A j \in Inst : owner'[j] \in {owner[j], None}
      /\ \A j \in Inst, s \in Svc : owner'[j] = s => owner[j] = s /\ Referenced(s)'
      /\ \A j \in Inst, s \in Svc : owner[j] = s /\ Referenced(s)' => owner'[j] = s
      /\ \A j \in Inst : InstanceAlive(j)' => st'[j] = st[j]
      /\ \A j \in Inst : st'[j] \in {st[j], "idle"}
  BY <1>0, <1>3, <1>4, Collecting
<1>7. NoService.fails = 0
  BY DEF NoService
<1>8. \A s \in Svc : svc'[s].fails \in {0, svc[s].fails}
  BY <1>5, <1>6, <1>7
<1>9. \A s \in Svc : Referenced(s)' =>
              /\ svc'[s].plist = svc[s].plist /\ svc'[s].fails = svc[s].fails
              /\ svc'[s].refused <=> svc[s].refused \/ s = th[t].svc
  BY <1>5, <1>6
<1> QED BY <1>1, <1>2, <1>3, <1>6, <1>8, <1>9, <1>a

\* A launch that failed drops its instance.
LEMMA LaunchFailedDoes ==
  ASSUME IInv, NEW t \in Launcher, LaunchFailed(t)
  PROVE  /\ th[t].at = "fail" /\ th[t].svc \in Svc /\ th[t].inst \in Inst
         /\ lock[th[t].svc] = t /\ owner[th[t].inst] = th[t].svc
         /\ st[th[t].inst] = "launching"
         /\ th'[t] = Quiet /\ \A u \in Launcher \ {t} : th'[u] = th[u]
         /\ lock' = [lock EXCEPT ![th[t].svc] = None]
         /\ UNCHANGED <<loaded, timer, killed, host, obs, dict, exit, missed, phase, todo>>
         /\ owner'[th[t].inst] = None
         /\ \A j \in Inst : owner'[j] \in {owner[j], None}
         /\ \A j \in Inst, s \in Svc : owner'[j] = s => owner[j] = s /\ Referenced(s)'
         /\ \A j \in Inst \ {th[t].inst}, s \in Svc :
              owner[j] = s /\ Referenced(s)' => owner'[j] = s
         /\ \A j \in Inst : InstanceAlive(j)' => st'[j] = st[j]
         /\ \A j \in Inst : ~InstanceAlive(j)' => st'[j] = "idle"
         /\ \A j \in Inst : st'[j] \in {st[j], "idle"}
         /\ \A s \in Svc : Referenced(s)' =>
              /\ svc'[s].plist = svc[s].plist /\ svc'[s].fails = svc[s].fails
              /\ svc'[s].refused <=> svc[s].refused \/ s = th[t].svc
         /\ \A s \in Svc : svc'[s].fails \in {0, svc[s].fails}
<1> DEFINE now == [svc EXCEPT ![th[t].svc].refused = TRUE]
           own == [owner EXCEPT ![th[t].inst] = None]
<1>0. /\ th \in [Launcher -> Ths] /\ svc \in [Svc -> Svcs] /\ st \in [Inst -> Sts]
      /\ owner \in [Inst -> Svc \cup {None}]
  BY Parts DEF IInv
<1>1. /\ th[t].at = "fail" /\ th[t].svc \in Svc /\ th[t].inst \in Inst
      /\ lock[th[t].svc] = t /\ owner[th[t].inst] = th[t].svc
      /\ st[th[t].inst] = "launching"
  BY DEF LaunchFailed, IInv, Threads, Stage
<1>2. th'[t] = Quiet /\ \A u \in Launcher \ {t} : th'[u] = th[u]
  BY <1>0 DEF LaunchFailed
<1>3. /\ UNCHANGED <<loaded, timer, killed, host, obs, dict, exit, missed, phase, todo>>
      /\ lock' = [lock EXCEPT ![th[t].svc] = None] /\ Collect(own, now)
  BY DEF LaunchFailed, procVars, userVars
<1>4. now \in [Svc -> Svcs] /\ own \in [Inst -> Svc \cup {None}]
  BY <1>0, <1>1, SvcNext
<1>5. \A s \in Svc : /\ now[s].plist = svc[s].plist /\ now[s].fails = svc[s].fails
                     /\ now[s].refused <=> svc[s].refused \/ s = th[t].svc
  BY <1>0, <1>1 DEF Svcs
<1>a. own[th[t].inst] = None /\ \A j \in Inst \ {th[t].inst} : own[j] = owner[j]
  BY <1>0, <1>1
<1>b. \A j \in Inst : ~InstanceAlive(j)' => st'[j] = "idle"
  BY <1>3 DEF Collect
<1> HIDE DEF now, own
<1>6. /\ \A s \in Svc : Referenced(s)' => svc'[s] = now[s]
      /\ \A s \in Svc : svc'[s] \in {now[s], NoService}
      /\ \A j \in Inst : owner'[j] \in {own[j], None}
      /\ \A j \in Inst, s \in Svc : owner'[j] = s => own[j] = s /\ Referenced(s)'
      /\ \A j \in Inst, s \in Svc : own[j] = s /\ Referenced(s)' => owner'[j] = s
      /\ \A j \in Inst : InstanceAlive(j)' => st'[j] = st[j]
      /\ \A j \in Inst : st'[j] \in {st[j], "idle"}
  BY <1>0, <1>3, <1>4, Collecting
<1>7. NoService.fails = 0
  BY DEF NoService
<1>8. \A s \in Svc : svc'[s].fails \in {0, svc[s].fails}
  BY <1>5, <1>6, <1>7
<1>9. \A s \in Svc : Referenced(s)' =>
              /\ svc'[s].plist = svc[s].plist /\ svc'[s].fails = svc[s].fails
              /\ svc'[s].refused <=> svc[s].refused \/ s = th[t].svc
  BY <1>5, <1>6
<1>10. /\ owner'[th[t].inst] = None
       /\ \A j \in Inst : owner'[j] \in {owner[j], None}
  BY <1>1, <1>6, <1>a
<1>12. \A j \in Inst, s \in Svc : owner'[j] = s => owner[j] = s /\ Referenced(s)'
  BY <1>6, <1>a, LaunchAssumption
<1>13. \A j \in Inst \ {th[t].inst}, s \in Svc :
              owner[j] = s /\ Referenced(s)' => owner'[j] = s
  BY <1>6, <1>a
<1> QED BY <1>1, <1>2, <1>3, <1>6, <1>8, <1>9, <1>10, <1>12, <1>13, <1>b

\* The service takes the exited instance out of its array.
LEMMA InstanceDidExitDoes ==
  ASSUME IInv, NEW i \in Inst, InstanceDidExit(i)
  PROVE  \E s \in Svc, n \in 0 .. Limit + 1 :
         /\ s = exit[i].svc /\ owner[i] = s /\ lock[s] = None /\ st[i] = "exited"
         /\ exit[i].at = "delegate"
         /\ ~(svc[s].fails > Limit) /\ n \in {0, svc[s].fails + 1}
         /\ timer' = [timer EXCEPT ![s] = IF n > Limit THEN @ ELSE @ + 1]
         /\ UNCHANGED <<loaded, lock, killed, host, obs, dict, missed, th, phase, todo>>
         /\ exit'[i].at = "notify" /\ exit'[i].svc = None /\ exit'[i].left = exit[i].left
         /\ \A j \in Inst \ {i} : exit'[j] = exit[j]
         /\ owner'[i] = None
         /\ \A j \in Inst : owner'[j] \in {owner[j], None}
         /\ \A j \in Inst, r \in Svc : owner'[j] = r => owner[j] = r /\ Referenced(r)'
         /\ \A j \in Inst \ {i}, r \in Svc : owner[j] = r /\ Referenced(r)' => owner'[j] = r
         /\ \A j \in Inst : InstanceAlive(j)' => st'[j] = st[j]
         /\ \A j \in Inst : ~InstanceAlive(j)' => st'[j] = "idle"
         /\ \A j \in Inst : st'[j] \in {st[j], "idle"}
         /\ Referenced(s)' => svc'[s].fails = n
         /\ \A r \in Svc : Referenced(r)' =>
              /\ svc'[r].plist = svc[r].plist /\ svc'[r].refused = svc[r].refused
              /\ r # s => svc'[r].fails = svc[r].fails
         /\ \A r \in Svc : svc'[r].fails \in {0, IF r = s THEN n ELSE svc[r].fails}
<1>0. /\ exit \in [Inst -> Ends] /\ svc \in [Svc -> Svcs] /\ st \in [Inst -> Sts]
      /\ owner \in [Inst -> Svc \cup {None}]
  BY Parts DEF IInv
<1>19. PICK s \in Svc : s = exit[i].svc
  BY DEF InstanceDidExit, IInv, Exits
<1>1. /\ owner[i] = s /\ lock[s] = None /\ st[i] = "exited"
      /\ exit[i].at = "delegate"
  BY <1>19 DEF InstanceDidExit, IInv, Exits
<1>2. ~(svc[s].fails > Limit)
  BY <1>1 DEF IInv, Tokens, Token
<1>3. PICK n \in {0, svc[s].fails + 1} :
          /\ timer' = [timer EXCEPT ![s] = IF n > Limit THEN @ ELSE @ + 1]
          /\ Collect([owner EXCEPT ![i] = None], [svc EXCEPT ![s].fails = n])
  <2>1. PICK m \in {0, svc[exit[i].svc].fails + 1} :
          /\ timer' = [timer EXCEPT ![exit[i].svc] = IF m > Limit THEN @ ELSE @ + 1]
          /\ Collect([owner EXCEPT ![i] = None], [svc EXCEPT ![exit[i].svc].fails = m])
    BY Zenon DEF InstanceDidExit
  <2> QED BY <2>1, <1>19, Zenon
<1>4. n \in 0 .. Limit + 1
  <2>1. svc[s].fails \in 0 .. Limit + 1
    BY <1>0, <1>1 DEF Svcs
  <2> QED BY <2>1, <1>2, LaunchAssumption
<1>5. UNCHANGED <<loaded, lock, killed, host, obs, dict, missed, th, phase, todo>>
  BY DEF InstanceDidExit, userVars
<1>6. /\ exit'[i].at = "notify" /\ exit'[i].svc = None /\ exit'[i].left = exit[i].left
      /\ \A j \in Inst \ {i} : exit'[j] = exit[j]
  <2>1. exit' = [exit EXCEPT ![i].at = "notify", ![i].svc = None]
    BY DEF InstanceDidExit
  <2> QED BY <1>0, <2>1 DEF Ends
<1> DEFINE now == [svc EXCEPT ![s].fails = n]
           own == [owner EXCEPT ![i] = None]
<1>7. now \in [Svc -> Svcs] /\ own \in [Inst -> Svc \cup {None}]
  BY <1>0, <1>1, <1>4, SvcNext
<1>8. \A r \in Svc : /\ now[r].plist = svc[r].plist /\ now[r].refused = svc[r].refused
                     /\ now[r].fails = IF r = s THEN n ELSE svc[r].fails
  BY <1>0, <1>1 DEF Svcs
<1>9. own[i] = None /\ \A j \in Inst \ {i} : own[j] = owner[j]
  BY <1>0, <1>1
<1>10. Collect(own, now)
  BY <1>3
<1>11. \A j \in Inst : ~InstanceAlive(j)' => st'[j] = "idle"
  BY <1>10 DEF Collect
<1> HIDE DEF now, own
<1>12. /\ \A r \in Svc : Referenced(r)' => svc'[r] = now[r]
       /\ \A r \in Svc : svc'[r] \in {now[r], NoService}
       /\ \A j \in Inst : owner'[j] \in {own[j], None}
       /\ \A j \in Inst, r \in Svc : owner'[j] = r => own[j] = r /\ Referenced(r)'
       /\ \A j \in Inst, r \in Svc : own[j] = r /\ Referenced(r)' => owner'[j] = r
       /\ \A j \in Inst : InstanceAlive(j)' => st'[j] = st[j]
       /\ \A j \in Inst : st'[j] \in {st[j], "idle"}
  BY <1>0, <1>7, <1>10, Collecting
<1>13. NoService.fails = 0
  BY DEF NoService
<1>14. \A r \in Svc : svc'[r].fails \in {0, IF r = s THEN n ELSE svc[r].fails}
  BY <1>8, <1>12, <1>13
<1>15. /\ Referenced(s)' => svc'[s].fails = n
       /\ \A r \in Svc : Referenced(r)' =>
              /\ svc'[r].plist = svc[r].plist /\ svc'[r].refused = svc[r].refused
              /\ r # s => svc'[r].fails = svc[r].fails
  BY <1>1, <1>8, <1>12
<1>16. owner'[i] = None /\ \A j \in Inst : owner'[j] \in {owner[j], None}
  BY <1>9, <1>12
<1>17. \A j \in Inst, r \in Svc : owner'[j] = r => owner[j] = r /\ Referenced(r)'
  BY <1>9, <1>12, <1>16, LaunchAssumption
<1>18. \A j \in Inst \ {i}, r \in Svc : owner[j] = r /\ Referenced(r)' => owner'[j] = r
  BY <1>9, <1>12
<1> QED BY <1>1, <1>2, <1>3, <1>4, <1>5, <1>6, <1>11, <1>12, <1>14, <1>15, <1>16, <1>17, <1>18, <1>19

\* The other steps of this kind change no service.
LEMMA CollectDoes ==
  ASSUME IInv, Collect(owner, svc)
  PROVE  /\ \A j \in Inst : owner'[j] \in {owner[j], None}
         /\ \A j \in Inst, s \in Svc : owner'[j] = s => owner[j] = s /\ Referenced(s)'
         /\ \A j \in Inst, s \in Svc : owner[j] = s /\ Referenced(s)' => owner'[j] = s
         /\ \A j \in Inst : InstanceAlive(j)' => st'[j] = st[j]
         /\ \A j \in Inst : ~InstanceAlive(j)' => st'[j] = "idle"
         /\ \A j \in Inst : st'[j] \in {st[j], "idle"}
         /\ \A s \in Svc : Referenced(s)' => svc'[s] = svc[s]
         /\ \A s \in Svc : svc'[s].fails \in {0, svc[s].fails}
<1>0. svc \in [Svc -> Svcs] /\ st \in [Inst -> Sts] /\ owner \in [Inst -> Svc \cup {None}]
  BY Parts DEF IInv
<1>1. \A j \in Inst : ~InstanceAlive(j)' => st'[j] = "idle"
  BY DEF Collect
<1>2. /\ \A s \in Svc : Referenced(s)' => svc'[s] = svc[s]
      /\ \A s \in Svc : svc'[s] \in {svc[s], NoService}
      /\ \A j \in Inst : owner'[j] \in {owner[j], None}
      /\ \A j \in Inst, s \in Svc : owner'[j] = s => owner[j] = s /\ Referenced(s)'
      /\ \A j \in Inst, s \in Svc : owner[j] = s /\ Referenced(s)' => owner'[j] = s
      /\ \A j \in Inst : InstanceAlive(j)' => st'[j] = st[j]
      /\ \A j \in Inst : st'[j] \in {st[j], "idle"}
  BY <1>0, Collecting
<1>3. \A s \in Svc : svc'[s].fails \in {0, svc[s].fails}
  BY <1>2 DEF NoService
<1> QED BY <1>1, <1>2, <1>3

\* Every step keeps the types; the count of failures stays in its range since a
\* service that failed too often has no token left.
LEMMA TypeSteps == IInv /\ Next => TypeOK'
<1> SUFFICES ASSUME IInv, Next PROVE TypeOK'
  OBVIOUS
<1>0. /\ TypeOK
      /\ th \in [Launcher -> Ths] /\ exit \in [Inst -> Ends] /\ svc \in [Svc -> Svcs]
      /\ st \in [Inst -> Sts] /\ obs \in [Inst -> Obs]
      /\ loaded \subseteq Svc /\ timer \in [Svc -> Nat]
      /\ lock \in [Svc -> Launcher \cup {None}] /\ owner \in [Inst -> Svc \cup {None}]
      /\ host \in [Inst -> {"none", "running", "dead"}]
      /\ killed \subseteq Inst /\ dict \subseteq Inst /\ missed \subseteq Inst
      /\ todo \subseteq Plist
  BY Parts DEF IInv
<1>1. ASSUME NEW t \in Launcher, NewInstance(t) PROVE TypeOK'
  <2>1. PICK i \in Inst :
          /\ owner' = [owner EXCEPT ![i] = th[t].svc]
          /\ st' = [st EXCEPT ![i] = "launching"]
          /\ missed' = missed \ {i} /\ obs' = [obs EXCEPT ![i] = {}]
          /\ th' = [th EXCEPT ![t].at = "spawn", ![t].inst = i]
    BY <1>1 DEF NewInstance
  <2>2. th' \in [Launcher -> Ths]
    BY <1>0, <2>1, ThInst
  <2>3. th[t].svc \in Svc
    BY <1>1 DEF NewInstance, IInv, Threads
  <2>4. owner' \in [Inst -> Svc \cup {None}] /\ lock' \in [Svc -> Launcher \cup {None}]
    BY <1>0, <1>1, <2>1, <2>3 DEF NewInstance
  <2>5. st' \in [Inst -> Sts] /\ obs' \in [Inst -> Obs]
    BY <1>0, <2>1 DEF Sts, Obs
  <2> QED BY <1>0, <1>1, <2>1, <2>2, <2>4, <2>5 DEF NewInstance, TypeOK, Ths, Ends, Svcs, Sts, Obs, svcVars, procVars, userVars
<1>2. ASSUME NEW t \in Launcher, CountRefused(t) PROVE TypeOK'
  <2>1. th[t].svc \in Svc
    BY <1>2 DEF CountRefused, IInv, Threads
  <2>2. svc' \in [Svc -> Svcs] /\ owner' \in [Inst -> Svc \cup {None}] /\ st' \in [Inst -> Sts]
    BY <1>0, <1>2, <2>1, SvcNext, Collecting DEF CountRefused
  <2>3. th' \in [Launcher -> Ths]
    BY <1>0, <1>2, <2>1, ThQuiet DEF CountRefused
  <2> QED BY <1>0, <1>2, <2>2, <2>3 DEF CountRefused, TypeOK, Ths, Ends, Svcs, Sts, Obs, svcVars, procVars, userVars
<1>3. ASSUME NEW t \in Launcher, SpawnHost(t) PROVE TypeOK'
  <2>1. th[t].inst \in Inst
    BY <1>3 DEF SpawnHost, IInv, Threads, Stage
  <2>2. th' \in [Launcher -> Ths]
    BY <1>0, <1>3, ThAt DEF SpawnHost
  <2>3. /\ host' \in {host, [host EXCEPT ![th[t].inst] = "running"]}
        /\ obs' \in {obs, [obs EXCEPT ![th[t].inst] = {"front"}]}
        /\ killed' \in {killed, killed \cup {th[t].inst}}
        /\ UNCHANGED <<loaded, svcVars, owner, st, dict, exit, missed, userVars>>
    BY <1>3 DEF SpawnHost
  <2>4. obs' \in [Inst -> Obs]
    BY <1>0, <2>1, <2>3 DEF Obs
  <2>5. host' \in [Inst -> {"none", "running", "dead"}] /\ killed' \subseteq Inst
    BY <1>0, <2>1, <2>3
  <2> QED BY <1>0, <2>2, <2>3, <2>4, <2>5 DEF TypeOK, Ths, Ends, Svcs, Sts, Obs, svcVars, userVars
<1>4. ASSUME NEW t \in Launcher, ManagerObserves(t) PROVE TypeOK'
  <2>1. th[t].inst \in Inst
    BY <1>4 DEF ManagerObserves, IInv, Threads, Stage
  <2>2. th' \in [Launcher -> Ths]
    BY <1>0, <1>4, ThAt DEF ManagerObserves
  <2>3. obs' \in [Inst -> Obs]
    BY <1>0, <1>4, <2>1 DEF ManagerObserves, Obs
  <2> QED BY <1>0, <1>4, <2>1, <2>2, <2>3 DEF ManagerObserves, TypeOK, Ths, Ends, Svcs, Sts, Obs, svcVars, procVars, userVars
<1>5. ASSUME NEW t \in Launcher, ManagerInserts(t) PROVE TypeOK'
  <2>1. th[t].inst \in Inst
    BY <1>5 DEF ManagerInserts, IInv, Threads, Stage
  <2>2. th' \in [Launcher -> Ths]
    BY <1>0, <1>5, ThAt DEF ManagerInserts
  <2> QED BY <1>0, <1>5, <2>1, <2>2 DEF ManagerInserts, TypeOK, Ths, Ends, Svcs, Sts, Obs, svcVars, procVars, userVars
<1>6. ASSUME NEW t \in Launcher, FindProcess(t) PROVE TypeOK'
  <2>1. th[t].inst \in Inst
    BY <1>6 DEF FindProcess, IInv, Threads, Stage
  <2>2. th' \in [Launcher -> Ths]
    BY <1>0, <1>6, ThAt DEF FindProcess
  <2>3. /\ st' \in {st, [st EXCEPT ![th[t].inst] = "running"]}
        /\ killed' \in {killed, killed \cup ({th[t].inst} \cap Alive)}
        /\ UNCHANGED <<loaded, svcVars, owner, procVars, userVars>>
    BY <1>6 DEF FindProcess
  <2>4. st' \in [Inst -> Sts]
    BY <1>0, <2>1, <2>3 DEF Sts
  <2> QED BY <1>0, <2>1, <2>2, <2>3, <2>4 DEF TypeOK, Ths, Ends, Svcs, Sts, Obs, svcVars, procVars, userVars
<1>7. ASSUME NEW t \in Launcher, Launched(t) PROVE TypeOK'
  <2>1. th[t].inst \in Inst /\ th[t].svc \in Svc
    BY <1>7 DEF Launched, IInv, Threads, Stage
  <2>2. svc' \in [Svc -> Svcs] /\ owner' \in [Inst -> Svc \cup {None}] /\ st' \in [Inst -> Sts]
    BY <1>0, <1>7, Collecting DEF Launched
  <2>3. th' \in [Launcher -> Ths]
    BY <1>0, <1>7, <2>1, ThQuiet DEF Launched
  <2>4. obs' \in [Inst -> Obs]
    BY <1>0, <1>7, <2>1 DEF Launched, Obs
  <2>5. killed' \subseteq Inst /\ loaded' \subseteq Svc /\ lock' \in [Svc -> Launcher \cup {None}]
    BY <1>0, <1>7, <2>1 DEF Launched, Terminate, Freed
  <2> QED BY <1>0, <1>7, <2>2, <2>3, <2>4, <2>5 DEF Launched, TypeOK, Ths, Ends, Svcs, Sts, Obs, svcVars, procVars, userVars
<1>8. ASSUME NEW t \in Launcher, LaunchFailed(t) PROVE TypeOK'
  <2>1. th[t].inst \in Inst /\ th[t].svc \in Svc
    BY <1>8 DEF LaunchFailed, IInv, Threads, Stage
  <2>2. [owner EXCEPT ![th[t].inst] = None] \in [Inst -> Svc \cup {None}]
    BY <1>0, <2>1
  <2>3. svc' \in [Svc -> Svcs] /\ owner' \in [Inst -> Svc \cup {None}] /\ st' \in [Inst -> Sts]
    BY <1>0, <1>8, <2>1, <2>2, SvcNext, Collecting DEF LaunchFailed
  <2>4. th' \in [Launcher -> Ths]
    BY <1>0, <1>8, <2>1, ThQuiet DEF LaunchFailed
  <2> QED BY <1>0, <1>8, <2>3, <2>4 DEF LaunchFailed, TypeOK, Ths, Ends, Svcs, Sts, Obs, svcVars, procVars, userVars
<1>9. ASSUME NEW i \in Inst, HostExit(i) PROVE TypeOK'
  BY <1>0, <1>9 DEF HostExit, TypeOK, Ths, Ends, Svcs, Sts, Obs, svcVars, procVars, userVars
<1>10. ASSUME NEW i \in Inst, Deliver(i) PROVE TypeOK'
  <2>1. [at |-> "notify", left |-> {o \in obs[i] \ {"front"} : o = "instance" => InstanceAlive(i)},
         svc |-> None] \in Ends
    BY <1>0 DEF Ends, Obs
  <2>2. exit' \in [Inst -> Ends]
    BY <1>0, <1>10, <2>1 DEF Deliver
  <2> QED BY <1>0, <1>10, <2>2 DEF Deliver, TypeOK, Ths, Ends, Svcs, Sts, Obs, svcVars, procVars, userVars
<1>11. ASSUME NEW i \in Inst, TellManager(i) PROVE TypeOK'
  <2>1. exit' \in [Inst -> Ends]
    BY <1>0, <1>11, EndNext DEF TellManager
  <2>2. obs' \in [Inst -> Obs]
    BY <1>0, <1>11 DEF TellManager, Obs
  <2> QED BY <1>0, <1>11, <2>1, <2>2 DEF TellManager, TypeOK, Ths, Ends, Svcs, Sts, Obs, svcVars, procVars, userVars
<1>12. ASSUME NEW i \in Inst, TellInstance(i) PROVE TypeOK'
  <2>1. exit[i].left \ {"instance"} \in SUBSET {"manager", "instance"} /\ owner[i] \in Svc \cup {None}
    BY <1>0 DEF Ends
  <2>2. exit' \in [Inst -> Ends]
    BY <1>0, <1>12, <2>1 DEF TellInstance, Ends
  <2>3. obs' \in [Inst -> Obs] /\ st' \in [Inst -> Sts]
    BY <1>0, <1>12 DEF TellInstance, Obs, Sts
  <2> QED BY <1>0, <1>12, <2>2, <2>3 DEF TellInstance, TypeOK, Ths, Ends, Svcs, Sts, Obs, svcVars, procVars, userVars
<1>13. ASSUME NEW i \in Inst, InstanceDidExit(i) PROVE TypeOK'
  <2>1. exit[i].svc \in Svc /\ svc[exit[i].svc].fails \in 0 .. Limit
    <3>1. exit[i].svc \in Svc /\ owner[i] = exit[i].svc
      BY <1>13 DEF InstanceDidExit, IInv, Exits
    <3>2. ~(svc[exit[i].svc].fails > Limit)
      BY <3>1 DEF IInv, Tokens, Token
    <3>3. svc[exit[i].svc].fails \in 0 .. Limit + 1
      BY <1>0, <3>1 DEF Svcs
    <3> QED BY <3>1, <3>2, <3>3, LaunchAssumption
  <2>2. PICK n \in {0, svc[exit[i].svc].fails + 1} :
          /\ timer' = [timer EXCEPT ![exit[i].svc] = IF n > Limit THEN @ ELSE @ + 1]
          /\ Collect([owner EXCEPT ![i] = None], [svc EXCEPT ![exit[i].svc].fails = n])
    BY <1>13, Zenon DEF InstanceDidExit
  <2>3. n \in 0 .. Limit + 1
    BY <2>1, LaunchAssumption
  <2>4. [owner EXCEPT ![i] = None] \in [Inst -> Svc \cup {None}]
    BY <1>0
  <2>5. svc' \in [Svc -> Svcs] /\ owner' \in [Inst -> Svc \cup {None}] /\ st' \in [Inst -> Sts]
    BY <1>0, <2>1, <2>2, <2>3, <2>4, SvcNext, Collecting
  <2>6. exit' \in [Inst -> Ends]
    BY <1>0, <1>13, EndNext DEF InstanceDidExit
  <2>7. timer' \in [Svc -> Nat]
    <3>1. timer \in [Svc -> Nat] BY <1>0
    <3> QED BY <2>1, <2>2, <3>1
  <2> QED BY <1>0, <1>13, <2>5, <2>6, <2>7 DEF InstanceDidExit, TypeOK, Ths, Ends, Svcs, Sts, Obs, svcVars, procVars, userVars
<1>14. ASSUME NEW i \in Inst, Delivered(i) PROVE TypeOK'
  <2>1. NoExit \in Ends
    BY DEF Ends, NoExit
  <2>2. exit' \in [Inst -> Ends] /\ obs' \in [Inst -> Obs]
    BY <1>0, <1>14, <2>1 DEF Delivered, Obs
  <2> QED BY <1>0, <1>14, <2>2 DEF Delivered, TypeOK, Ths, Ends, Svcs, Sts, Obs, svcVars, procVars, userVars
<1>15. ASSUME NEW s \in Svc, TimerFires(s) PROVE TypeOK'
  <2>1. th' \in [Launcher -> Ths]
    BY <1>0, <1>15, ThQuiet DEF TimerFires, Launcher
  <2>2. timer' \in [Svc -> Nat]
    BY <1>0, <1>15 DEF TimerFires
  <2> QED BY <1>0, <1>15, <2>1, <2>2 DEF TimerFires, TypeOK, Ths, Ends, Svcs, Sts, Obs, svcVars, procVars, userVars
<1>16. CASE Boot
  BY <1>0, <1>16 DEF Boot, TypeOK, Ths, Ends, Svcs, Sts, Obs, svcVars, procVars, userVars
<1>17. CASE ReloadDaemons
  BY <1>0, <1>17 DEF ReloadDaemons, TypeOK, Ths, Ends, Svcs, Sts, Obs, svcVars, procVars, userVars
<1>18. CASE RebootBegin
  <2>1. svc' \in [Svc -> Svcs] /\ owner' \in [Inst -> Svc \cup {None}] /\ st' \in [Inst -> Sts]
    BY <1>0, <1>18, Collecting DEF RebootBegin
  <2>2. killed' \subseteq Inst
    BY <1>0, <1>18 DEF RebootBegin, Terminate, Freed
  <2> QED BY <1>0, <1>18, <2>1, <2>2 DEF RebootBegin, TypeOK, Ths, Ends, Svcs, Sts, Obs, svcVars, procVars, userVars
<1>19. CASE RebootKill
  BY <1>0, <1>19 DEF RebootKill, TypeOK, Ths, Ends, Svcs, Sts, Obs, svcVars, procVars, userVars, Alive
<1>20. CASE Reload
  <2>1. svc' \in [Svc -> Svcs] /\ owner' \in [Inst -> Svc \cup {None}] /\ st' \in [Inst -> Sts]
    BY <1>0, <1>20, Collecting DEF Reload
  <2>2. killed' \subseteq Inst
    BY <1>0, <1>20 DEF Reload, Terminate, Freed
  <2> QED BY <1>0, <1>20, <2>1, <2>2 DEF Reload, TypeOK, Ths, Ends, Svcs, Sts, Obs, svcVars, procVars, userVars
<1>21. CASE LoadNext
  <2>1. PICK p \in todo, s \in Svc :
          /\ todo' = todo \ {p}
          /\ svc' = [svc EXCEPT ![s] = [plist |-> p, fails |-> 0, refused |-> FALSE]]
          /\ th' = [th EXCEPT ![User] = [at |-> "new", svc |-> s, inst |-> None]]
    BY <1>21 DEF LoadNext
  <2>2. svc' \in [Svc -> Svcs]
    BY <1>0, <2>1, SvcNext
  <2>3. th' \in [Launcher -> Ths]
    BY <1>0, <2>1, ThQuiet DEF Launcher
  <2> QED BY <1>0, <1>21, <2>1, <2>2, <2>3 DEF LoadNext, TypeOK, Ths, Ends, Svcs, Sts, Obs, svcVars, procVars, userVars
<1>22. CASE LoadEnd
  BY <1>0, <1>22 DEF LoadEnd, TypeOK, Ths, Ends, Svcs, Sts, Obs, svcVars, procVars, userVars
<1> QED BY <1>1, <1>2, <1>3, <1>4, <1>5, <1>6, <1>7, <1>8, <1>9, <1>10, <1>11,
        <1>12, <1>13, <1>14, <1>15, <1>16, <1>17, <1>18, <1>19, <1>20, <1>21,
        <1>22
        DEF Next, Launch, Exiting, Userspace

-----------------------------------------------------------------------------
(* Threads                                                                 *)

\* A launcher that keeps its service keeps its instance.
LEMMA Held ==
  ASSUME NEW STATE own, NEW STATE now,
         own \in [Inst -> Svc \cup {None}], now \in [Svc -> Svcs],
         st \in [Inst -> Sts], Collect(own, now), Threads
  PROVE  \A u \in Launcher :
           th'[u] = th[u] /\ th[u].at \in Stage /\ own[th[u].inst] = th[u].svc =>
             /\ owner'[th[u].inst] = th[u].svc
             /\ st'[th[u].inst] = st[th[u].inst]
<1> SUFFICES ASSUME NEW u \in Launcher, th'[u] = th[u], th[u].at \in Stage,
                    own[th[u].inst] = th[u].svc
             PROVE  /\ owner'[th[u].inst] = th[u].svc
                    /\ st'[th[u].inst] = st[th[u].inst]
  OBVIOUS
<1>1. th[u].svc \in Svc /\ th[u].inst \in Inst
  BY DEF Threads
<1>2. Referenced(th[u].svc)' /\ InstanceAlive(th[u].inst)'
  BY DEF Referenced, InstanceAlive
<1>3. th[u].svc # None
  BY <1>1, LaunchAssumption
<1> QED BY <1>1, <1>2, <1>3, Collecting

\* A launcher proceeds, short of the point where its instance runs.
LEMMA Moves ==
  ASSUME Threads, th \in [Launcher -> Ths], NEW t \in Launcher,
         th[t].at \in Stage \ {"watch"}, NEW l \in Stage \ {"watch"}, Step(t, l),
         UNCHANGED <<lock, owner, st>>, lock \in [Svc -> Launcher \cup {None}]
  PROVE  Threads'
<1>1. /\ th'[t].at = l /\ th'[t].svc = th[t].svc /\ th'[t].inst = th[t].inst
      /\ \A u \in Launcher \ {t} : th'[u] = th[u]
  BY DEF Step, Ths
<1>2. \A u \in Launcher : th'[u].at \in Stage =>
          /\ th[u].at \in Stage
          /\ th'[u].svc = th[u].svc /\ th'[u].inst = th[u].inst
          /\ th'[u].at = "watch" <=> th[u].at = "watch"
  BY <1>1
<1>3. \A u \in Launcher : th'[u].at \in Stage =>
          /\ th'[u].svc \in Svc /\ th'[u].inst \in Inst
          /\ lock'[th'[u].svc] = u /\ owner'[th'[u].inst] = th'[u].svc
          /\ st'[th'[u].inst] = IF th'[u].at = "watch" THEN "running" ELSE "launching"
  BY <1>2 DEF Threads
<1>4. \A s \in Svc : lock'[s] # None => th'[lock'[s]].svc = s /\ th'[lock'[s]].at \in Stage
  BY <1>1 DEF Threads
<1>5. \A u \in Launcher :
          /\ th'[u].at = "idle" => th'[u].svc = None /\ th'[u].inst = None
          /\ th'[u].at = "new" => th'[u].svc \in Svc /\ th'[u].inst = None
  BY <1>1 DEF Threads, Stage
<1> QED BY <1>3, <1>4, <1>5 DEF Threads

\* Launchers keep what they have in their hands.
LEMMA ThreadSteps == IInv /\ Next => Threads'
<1> SUFFICES ASSUME IInv, Next PROVE Threads'
  OBVIOUS
<1>0. /\ TypeOK
      /\ th \in [Launcher -> Ths] /\ exit \in [Inst -> Ends] /\ svc \in [Svc -> Svcs]
      /\ st \in [Inst -> Sts] /\ obs \in [Inst -> Obs]
      /\ loaded \subseteq Svc /\ timer \in [Svc -> Nat]
      /\ lock \in [Svc -> Launcher \cup {None}] /\ owner \in [Inst -> Svc \cup {None}]
      /\ host \in [Inst -> {"none", "running", "dead"}]
      /\ killed \subseteq Inst /\ dict \subseteq Inst /\ missed \subseteq Inst
      /\ todo \subseteq Plist
  BY Parts DEF IInv
<1>a. Threads
  BY DEF IInv
<1>1. ASSUME NEW t \in Launcher, NewInstance(t) PROVE Threads'
  <2>1. PICK i \in Inst :
          /\ Fresh(i)
          /\ owner' = [owner EXCEPT ![i] = th[t].svc]
          /\ st' = [st EXCEPT ![i] = "launching"]
          /\ th' = [th EXCEPT ![t].at = "spawn", ![t].inst = i]
    BY <1>1 DEF NewInstance
  <2>2. owner[i] = None /\ \A u \in Launcher : th[u].inst # i
    BY <2>1 DEF Fresh, InstanceAlive
  <2>3. th[t].at = "new" /\ th[t].svc \in Svc /\ lock[th[t].svc] = None
    BY <1>1, <1>a DEF NewInstance, Threads
  <2>4. lock' = [lock EXCEPT ![th[t].svc] = t] /\ t # None
    BY <1>1, LaunchAssumption DEF NewInstance, Launcher, User, Main
  <2>5. /\ th'[t].at = "spawn" /\ th'[t].svc = th[t].svc /\ th'[t].inst = i
        /\ \A u \in Launcher \ {t} : th'[u] = th[u]
    BY <1>0, <2>1 DEF Ths
  <2>6. \A u \in Launcher \ {t} : th[u].at \in Stage =>
          th[u].svc # th[t].svc /\ th[u].inst # i /\ u # None
    BY <1>a, <2>2, <2>3, LaunchAssumption DEF Threads, Launcher, User, Main
  <2>7. \A u \in Launcher : th'[u].at \in Stage =>
            /\ th'[u].svc \in Svc /\ th'[u].inst \in Inst
            /\ lock'[th'[u].svc] = u /\ owner'[th'[u].inst] = th'[u].svc
            /\ st'[th'[u].inst] = IF th'[u].at = "watch" THEN "running" ELSE "launching"
    BY <1>0, <1>a, <2>1, <2>3, <2>4, <2>5, <2>6 DEF Threads
  <2>8. \A s \in Svc : lock'[s] # None => th'[lock'[s]].svc = s /\ th'[lock'[s]].at \in Stage
    BY <1>0, <1>a, <2>1, <2>3, <2>4, <2>5 DEF Threads, Stage
  <2> QED BY <1>a, <2>5, <2>7, <2>8 DEF Threads
<1>2. ASSUME NEW t \in Launcher, CountRefused(t) PROVE Threads'
  <2>1. th[t].svc \in Svc /\ th[t].at = "new"
    BY <1>2, <1>a DEF CountRefused, Threads
  <2>2. [svc EXCEPT ![th[t].svc].refused = TRUE] \in [Svc -> Svcs]
    BY <1>0, <2>1, SvcNext
  <2>3. Collect(owner, [svc EXCEPT ![th[t].svc].refused = TRUE])
    BY <1>2 DEF CountRefused
  <2>4. \A u \in Launcher : th[u].at \in Stage => owner[th[u].inst] = th[u].svc
    BY <1>a DEF Threads
  <2>5. \A u \in Launcher : th'[u] = th[u] /\ th[u].at \in Stage =>
           owner'[th[u].inst] = th[u].svc /\ st'[th[u].inst] = st[th[u].inst]
    BY <1>0, <1>a, <2>2, <2>3, <2>4, Held
  <2>6. \A s \in Svc : lock[s] # None => lock[s] # t
    BY <1>a, <2>1 DEF Threads, Stage
  <2>7. UNCHANGED lock /\ th'[t] = Quiet /\ \A u \in Launcher \ {t} : th'[u] = th[u]
    BY <1>0, <1>2 DEF CountRefused
  <2>8. \A u \in Launcher : u # t /\ th[u].at \in Stage =>
           owner'[th[u].inst] = th[u].svc /\ st'[th[u].inst] = st[th[u].inst]
    BY <2>5, <2>7
  <2>9. \A u \in Launcher : u # t /\ th'[u].at \in Stage =>
            /\ th'[u].svc \in Svc /\ th'[u].inst \in Inst
            /\ lock'[th'[u].svc] = u /\ owner'[th'[u].inst] = th'[u].svc
            /\ st'[th'[u].inst] = IF th'[u].at = "watch" THEN "running" ELSE "launching"
    BY <1>a, <2>7, <2>8 DEF Threads
  <2>10. \A s \in Svc : lock'[s] # None => th'[lock'[s]].svc = s /\ th'[lock'[s]].at \in Stage
    BY <1>0, <1>a, <2>6, <2>7 DEF Threads
  <2>11. Quiet.at = "idle" /\ Quiet.svc = None /\ Quiet.inst = None /\ Quiet.at \notin Stage
    BY DEF Quiet, Stage
  <2>12. \A u \in Launcher :
            /\ th'[u].at = "idle" => th'[u].svc = None /\ th'[u].inst = None
            /\ th'[u].at = "new" => th'[u].svc \in Svc /\ th'[u].inst = None
    BY <1>a, <2>7, <2>11 DEF Threads
  <2>13. \A u \in Launcher : th'[u].at \in Stage => u # t
    BY <2>7, <2>11
  <2> QED BY <2>9, <2>10, <2>12, <2>13 DEF Threads
<1>3. ASSUME NEW t \in Launcher, SpawnHost(t) PROVE Threads'
  <2>1. PICK l \in {"fail", "observe"} : Step(t, l)
    BY <1>3 DEF SpawnHost
  <2>2. th[t].at = "spawn" /\ UNCHANGED <<lock, owner, st>>
    BY <1>3 DEF SpawnHost, svcVars
  <2> QED BY <1>0, <1>a, <2>1, <2>2, Moves DEF Stage
<1>4. ASSUME NEW t \in Launcher, ManagerObserves(t) PROVE Threads'
  <2>1. /\ th[t].at = "observe" /\ Step(t, "insert")
        /\ UNCHANGED <<lock, owner, st>>
    BY <1>4 DEF ManagerObserves, svcVars
  <2> QED BY <1>0, <1>a, <2>1, Moves DEF Stage
<1>5. ASSUME NEW t \in Launcher, ManagerInserts(t) PROVE Threads'
  <2>1. /\ th[t].at = "insert" /\ Step(t, "find")
        /\ UNCHANGED <<lock, owner, st>>
    BY <1>5 DEF ManagerInserts, svcVars
  <2> QED BY <1>0, <1>a, <2>1, Moves DEF Stage
<1>6. ASSUME NEW t \in Launcher, FindProcess(t) PROVE Threads'
  <2>1. CASE Step(t, "fail") /\ UNCHANGED st
    <3>1. th[t].at = "find" /\ UNCHANGED <<lock, owner, st>>
      BY <1>6, <2>1 DEF FindProcess, svcVars
    <3> QED BY <1>0, <1>a, <2>1, <3>1, Moves DEF Stage
  <2>2. CASE Step(t, "watch") /\ st' = [st EXCEPT ![th[t].inst] = "running"]
    <3>1. \A u \in Launcher : u # t /\ th[u].at \in Stage => th[u].inst # th[t].inst
      BY <1>6, <1>a DEF FindProcess, Threads, Stage
    <3> QED BY <1>0, <1>6, <1>a, <2>2, <3>1 DEF FindProcess, Threads, Stage, Step, svcVars
  <2> QED BY <1>6, <2>1, <2>2 DEF FindProcess
<1>7. ASSUME NEW t \in Launcher, Launched(t) PROVE Threads'
  <2>1. th[t].svc \in Svc /\ th[t].inst \in Inst /\ lock[th[t].svc] = t
    BY <1>7, <1>a DEF Launched, Threads, Stage
  <2>2. \A u \in Launcher : th'[u] = th[u] /\ th[u].at \in Stage =>
           owner'[th[u].inst] = th[u].svc /\ st'[th[u].inst] = st[th[u].inst]
    BY <1>0, <1>a, <1>7, Held DEF Launched, Threads
  <2>3. \A u \in Launcher : u # t /\ th[u].at \in Stage => th[u].svc # th[t].svc
    BY <2>1, <1>a DEF Threads
  <2> QED BY <1>0, <1>7, <1>a, <2>1, <2>2, <2>3 DEF Launched, Threads, Stage, Quiet
<1>8. ASSUME NEW t \in Launcher, LaunchFailed(t) PROVE Threads'
  <2>1. /\ th[t].svc \in Svc /\ th[t].inst \in Inst /\ lock[th[t].svc] = t
        /\ owner[th[t].inst] = th[t].svc
        /\ th'[t] = Quiet /\ \A u \in Launcher \ {t} : th'[u] = th[u]
        /\ lock' = [lock EXCEPT ![th[t].svc] = None]
        /\ \A j \in Inst \ {th[t].inst}, s \in Svc :
              owner[j] = s /\ Referenced(s)' => owner'[j] = s
        /\ \A j \in Inst : InstanceAlive(j)' => st'[j] = st[j]
    BY <1>8, LaunchFailedDoes
  <2>2. \A u \in Launcher : u # t /\ th[u].at \in Stage =>
          /\ th[u].svc # th[t].svc /\ th[u].inst # th[t].inst
          /\ th[u].svc \in Svc /\ th[u].inst \in Inst
          /\ owner[th[u].inst] = th[u].svc
    BY <2>1, <1>a DEF Threads, Stage
  <2>3. \A u \in Launcher : u # t /\ th[u].at \in Stage =>
          Referenced(th[u].svc)' /\ InstanceAlive(th[u].inst)'
    BY <2>1 DEF Referenced, InstanceAlive
  <2>7. \A u \in Launcher : u # t /\ th[u].at \in Stage =>
           owner'[th[u].inst] = th[u].svc /\ st'[th[u].inst] = st[th[u].inst]
    BY <2>1, <2>2, <2>3
  <2>8. \A u \in Launcher : u # t /\ th'[u].at \in Stage =>
            /\ th'[u].svc \in Svc /\ th'[u].inst \in Inst
            /\ lock'[th'[u].svc] = u /\ owner'[th'[u].inst] = th'[u].svc
            /\ st'[th'[u].inst] = IF th'[u].at = "watch" THEN "running" ELSE "launching"
    BY <1>0, <1>a, <2>1, <2>2, <2>7 DEF Threads
  <2>9. \A s \in Svc : lock[s] # None /\ s # th[t].svc => lock[s] # t
    BY <1>a DEF Threads
  <2>10. \A s \in Svc : lock'[s] # None => th'[lock'[s]].svc = s /\ th'[lock'[s]].at \in Stage
    BY <1>0, <1>a, <2>1, <2>9 DEF Threads
  <2>11. Quiet.at = "idle" /\ Quiet.svc = None /\ Quiet.inst = None /\ Quiet.at \notin Stage
    BY DEF Quiet, Stage
  <2>12. \A u \in Launcher :
            /\ th'[u].at = "idle" => th'[u].svc = None /\ th'[u].inst = None
            /\ th'[u].at = "new" => th'[u].svc \in Svc /\ th'[u].inst = None
    BY <1>a, <2>1, <2>11 DEF Threads
  <2>13. \A u \in Launcher : th'[u].at \in Stage => u # t
    BY <2>1, <2>11
  <2> QED BY <2>8, <2>10, <2>12, <2>13 DEF Threads
<1>9. ASSUME NEW i \in Inst, HostExit(i) PROVE Threads'
  BY <1>0, <1>9, <1>a DEF HostExit, Threads, Stage, Step, svcVars, procVars
<1>10. ASSUME NEW i \in Inst, Deliver(i) PROVE Threads'
  BY <1>0, <1>10, <1>a DEF Deliver, Threads, Stage, Step, svcVars, procVars
<1>11. ASSUME NEW i \in Inst, TellManager(i) PROVE Threads'
  BY <1>0, <1>11, <1>a DEF TellManager, Threads, Stage, Step, svcVars, procVars
<1>12. ASSUME NEW i \in Inst, TellInstance(i) PROVE Threads'
  <2>1. \A u \in Launcher : th[u].at \in Stage => th[u].inst # i
    BY <1>12 DEF TellInstance, IInv, Entries
  <2> QED BY <1>0, <1>12, <1>a, <2>1 DEF TellInstance, Threads, svcVars
<1>13. ASSUME NEW i \in Inst, InstanceDidExit(i) PROVE Threads'
  <2>1. exit[i].svc \in Svc /\ owner[i] = exit[i].svc /\ lock[exit[i].svc] = None
    BY <1>13 DEF InstanceDidExit, IInv, Exits
  <2>2. PICK n \in {0, svc[exit[i].svc].fails + 1} :
          /\ timer' = [timer EXCEPT ![exit[i].svc] = IF n > Limit THEN @ ELSE @ + 1]
          /\ Collect([owner EXCEPT ![i] = None], [svc EXCEPT ![exit[i].svc].fails = n])
    BY <1>13, Zenon DEF InstanceDidExit
  <2>3. \A u \in Launcher : th[u].at \in Stage => th[u].inst # i
    BY <2>1, <1>a, LaunchAssumption DEF Threads, Launcher, User, Main
  <2>4. n \in 0 .. Limit + 1
    <3>1. ~(svc[exit[i].svc].fails > Limit)
      BY <2>1 DEF IInv, Tokens, Token
    <3>2. svc[exit[i].svc].fails \in 0 .. Limit + 1
      BY <1>0, <2>1 DEF Svcs
    <3> QED BY <3>1, <3>2, LaunchAssumption
  <2>5. /\ [owner EXCEPT ![i] = None] \in [Inst -> Svc \cup {None}]
        /\ [svc EXCEPT ![exit[i].svc].fails = n] \in [Svc -> Svcs]
    BY <1>0, <2>1, <2>4, SvcNext
  <2>6. \A u \in Launcher : th[u].at \in Stage =>
          [owner EXCEPT ![i] = None][th[u].inst] = th[u].svc
    BY <1>0, <1>a, <2>3 DEF Threads
  <2>7. UNCHANGED <<th, lock>>
    BY <1>13 DEF InstanceDidExit
  <2>8. \A u \in Launcher : th[u].at \in Stage =>
           owner'[th[u].inst] = th[u].svc /\ st'[th[u].inst] = st[th[u].inst]
    BY <1>0, <1>a, <2>2, <2>5, <2>6, <2>7, Held
  <2> QED BY <1>a, <2>7, <2>8 DEF Threads
<1>14. ASSUME NEW i \in Inst, Delivered(i) PROVE Threads'
  BY <1>0, <1>14, <1>a DEF Delivered, Threads, Stage, Step, svcVars, procVars
<1>15. ASSUME NEW s \in Svc, TimerFires(s) PROVE Threads'
  <2>1. th' = [th EXCEPT ![Main] = [at |-> "new", svc |-> s, inst |-> None]] /\ th[Main].at = "idle"
    BY <1>15 DEF TimerFires
  <2>2. UNCHANGED <<lock, owner, st>>
    BY <1>15 DEF TimerFires
  <2> QED BY <1>0, <1>a, <2>1, <2>2 DEF Threads, Stage, Launcher
<1>16. CASE Boot
  BY <1>0, <1>16, <1>a DEF Boot, Threads, Stage, Step, svcVars, procVars
<1>17. CASE ReloadDaemons
  BY <1>0, <1>17, <1>a DEF ReloadDaemons, Threads, Stage, Step, svcVars, procVars
<1>18. CASE RebootBegin
  <2>1. UNCHANGED <<th, lock>>
    BY <1>18 DEF RebootBegin
  <2>2. \A u \in Launcher : th[u].at \in Stage =>
           owner'[th[u].inst] = th[u].svc /\ st'[th[u].inst] = st[th[u].inst]
    BY <1>0, <1>a, <1>18, <2>1, Held DEF RebootBegin, Threads
  <2> QED BY <1>a, <2>1, <2>2 DEF Threads
<1>19. CASE RebootKill
  BY <1>0, <1>19, <1>a DEF RebootKill, Threads, Stage, Step, svcVars, procVars
<1>20. CASE Reload
  <2>1. UNCHANGED <<th, lock>>
    BY <1>20 DEF Reload
  <2>2. \A u \in Launcher : th[u].at \in Stage =>
           owner'[th[u].inst] = th[u].svc /\ st'[th[u].inst] = st[th[u].inst]
    BY <1>0, <1>a, <1>20, <2>1, Held DEF Reload, Threads
  <2> QED BY <1>a, <2>1, <2>2 DEF Threads
<1>21. CASE LoadNext
  <2>1. PICK s \in Svc : th' = [th EXCEPT ![User] = [at |-> "new", svc |-> s, inst |-> None]]
    BY <1>21 DEF LoadNext
  <2>2. UNCHANGED <<lock, owner, st>> /\ th[User].at = "idle"
    BY <1>21 DEF LoadNext
  <2> QED BY <1>0, <1>a, <2>1, <2>2 DEF Threads, Stage, Launcher
<1>22. CASE LoadEnd
  BY <1>0, <1>22, <1>a DEF LoadEnd, Threads, Stage, Step, svcVars, procVars
<1> QED BY <1>1, <1>2, <1>3, <1>4, <1>5, <1>6, <1>7, <1>8, <1>9, <1>10, <1>11,
        <1>12, <1>13, <1>14, <1>15, <1>16, <1>17, <1>18, <1>19, <1>20, <1>21,
        <1>22
        DEF Next, Launch, Exiting, Userspace

\* The delivery of an exit.
LEMMA ExitSteps == IInv /\ Next => Exits'
<1> SUFFICES ASSUME IInv, Next PROVE Exits'
  OBVIOUS
<1>0. /\ TypeOK
      /\ th \in [Launcher -> Ths] /\ exit \in [Inst -> Ends] /\ svc \in [Svc -> Svcs]
      /\ st \in [Inst -> Sts] /\ obs \in [Inst -> Obs]
      /\ loaded \subseteq Svc /\ timer \in [Svc -> Nat]
      /\ lock \in [Svc -> Launcher \cup {None}] /\ owner \in [Inst -> Svc \cup {None}]
      /\ host \in [Inst -> {"none", "running", "dead"}]
      /\ killed \subseteq Inst /\ dict \subseteq Inst /\ missed \subseteq Inst
      /\ todo \subseteq Plist
  BY Parts DEF IInv
<1>a. Exits
  BY DEF IInv
<1>1. ASSUME NEW t \in Launcher, NewInstance(t) PROVE Exits'
  <2>1. PICK i \in Inst :
          /\ Fresh(i)
          /\ owner' = [owner EXCEPT ![i] = th[t].svc]
          /\ st' = [st EXCEPT ![i] = "launching"] /\ obs' = [obs EXCEPT ![i] = {}]
    BY <1>1 DEF NewInstance
  <2>2. owner[i] = None /\ host[i] = "none"
    BY <2>1 DEF Fresh, InstanceAlive
  <2>3. UNCHANGED <<exit, host>>
    BY <1>1 DEF NewInstance
  <2>4. exit[i].at = "none"
    BY <1>a, <2>2 DEF Exits
  <2> QED BY <1>0, <1>a, <2>1, <2>3, <2>4 DEF Exits
<1>2. ASSUME NEW t \in Launcher, CountRefused(t) PROVE Exits'
  <2>1. /\ UNCHANGED <<exit, host, obs>>
        /\ \A j \in Inst, s \in Svc : owner[j] = s /\ Referenced(s)' => owner'[j] = s
        /\ \A j \in Inst : InstanceAlive(j)' => st'[j] = st[j]
    BY <1>2, CountRefusedDoes
  <2>2. \A j \in Inst, s \in Svc : exit[j].at = "delegate" /\ exit[j].svc = s =>
          Referenced(s)'
    BY <2>1 DEF Referenced
  <2>3. \A j \in Inst, s \in Svc : exit[j].at = "delegate" /\ exit[j].svc = s =>
          owner'[j] = s /\ st'[j] = "exited"
    <3>1. \A j \in Inst, s \in Svc : exit[j].at = "delegate" /\ exit[j].svc = s => owner'[j] = s
      BY <1>a, <2>1, <2>2 DEF Exits
    <3>2. \A j \in Inst, s \in Svc : owner'[j] = s => InstanceAlive(j)'
      BY LaunchAssumption DEF InstanceAlive
    <3> QED BY <1>a, <2>1, <3>1, <3>2 DEF Exits
  <2> QED BY <1>a, <2>1, <2>3 DEF Exits
<1>3. ASSUME NEW t \in Launcher, SpawnHost(t) PROVE Exits'
  <2>1. th[t].at = "spawn" /\ th[t].inst \in Inst /\ exit[th[t].inst].at = "none"
    BY <1>3, <1>a DEF SpawnHost, IInv, Threads, Entries, Stage, Exits
  <2>2. UNCHANGED <<exit, owner, st>>
    BY <1>3 DEF SpawnHost
  <2>3. \A j \in Inst \ {th[t].inst} : host'[j] = host[j] /\ obs'[j] = obs[j]
    BY <1>0, <1>3 DEF SpawnHost
  <2> QED BY <1>a, <2>1, <2>2, <2>3 DEF Exits
<1>4. ASSUME NEW t \in Launcher, ManagerObserves(t) PROVE Exits'
  BY <1>0, <1>a, <1>4 DEF ManagerObserves, Exits, Ends, NoExit, Step, svcVars, procVars, userVars
<1>5. ASSUME NEW t \in Launcher, ManagerInserts(t) PROVE Exits'
  BY <1>0, <1>a, <1>5 DEF ManagerInserts, Exits, Ends, NoExit, Step, svcVars, procVars, userVars
<1>6. ASSUME NEW t \in Launcher, FindProcess(t) PROVE Exits'
  <2>1. st[th[t].inst] = "launching"
    BY <1>6 DEF FindProcess, IInv, Threads, Stage
  <2>2. /\ UNCHANGED <<exit, owner, host, obs>>
        /\ \A j \in Inst : j # th[t].inst => st'[j] = st[j]
    BY <1>0, <1>6 DEF FindProcess, procVars
  <2> QED BY <1>a, <2>1, <2>2 DEF Exits
<1>7. ASSUME NEW t \in Launcher, Launched(t) PROVE Exits'
  <2>0. th[t].inst \in Inst /\ st[th[t].inst] = "running"
    BY <1>7 DEF Launched, IInv, Threads, Stage
  <2>1. /\ UNCHANGED <<exit, host>>
        /\ \A j \in Inst : "front" \in obs[j] => "front" \in obs'[j]
        /\ \A j \in Inst, s \in Svc : owner[j] = s /\ Referenced(s)' => owner'[j] = s
        /\ \A j \in Inst : InstanceAlive(j)' => st'[j] = st[j]
    BY <1>0, <1>7, CollectDoes DEF Launched
  <2>2. \A j \in Inst, s \in Svc : exit[j].at = "delegate" /\ exit[j].svc = s =>
          Referenced(s)'
    BY <2>1 DEF Referenced
  <2>3. \A j \in Inst, s \in Svc : exit[j].at = "delegate" /\ exit[j].svc = s =>
          owner'[j] = s /\ st'[j] = "exited"
    <3>1. \A j \in Inst, s \in Svc : exit[j].at = "delegate" /\ exit[j].svc = s => owner'[j] = s
      BY <1>a, <2>1, <2>2 DEF Exits
    <3>2. \A j \in Inst, s \in Svc : owner'[j] = s => InstanceAlive(j)'
      BY LaunchAssumption DEF InstanceAlive
    <3> QED BY <1>a, <2>1, <3>1, <3>2 DEF Exits
  <2> QED BY <1>a, <2>1, <2>3 DEF Exits
<1>8. ASSUME NEW t \in Launcher, LaunchFailed(t) PROVE Exits'
  <2>0. /\ UNCHANGED <<exit, host, obs>> /\ st[th[t].inst] = "launching"
        /\ \A j \in Inst \ {th[t].inst}, s \in Svc : owner[j] = s /\ Referenced(s)' => owner'[j] = s
        /\ \A j \in Inst : InstanceAlive(j)' => st'[j] = st[j]
    BY <1>8, LaunchFailedDoes
  <2>1. /\ UNCHANGED <<exit, host, obs>>
        /\ \A j \in Inst : exit[j].at = "delegate" => j # th[t].inst
        /\ \A j \in Inst, s \in Svc :
             exit[j].at = "delegate" /\ owner[j] = s /\ Referenced(s)' => owner'[j] = s
        /\ \A j \in Inst : InstanceAlive(j)' => st'[j] = st[j]
    BY <1>a, <2>0 DEF Exits
  <2>2. \A j \in Inst, s \in Svc : exit[j].at = "delegate" /\ exit[j].svc = s =>
          Referenced(s)'
    BY <2>1 DEF Referenced
  <2>3. \A j \in Inst, s \in Svc : exit[j].at = "delegate" /\ exit[j].svc = s =>
          owner'[j] = s /\ st'[j] = "exited"
    <3>1. \A j \in Inst, s \in Svc : exit[j].at = "delegate" /\ exit[j].svc = s => owner'[j] = s
      BY <1>a, <2>1, <2>2 DEF Exits
    <3>2. \A j \in Inst, s \in Svc : owner'[j] = s => InstanceAlive(j)'
      BY LaunchAssumption DEF InstanceAlive
    <3> QED BY <1>a, <2>1, <3>1, <3>2 DEF Exits
  <2> QED BY <1>a, <2>1, <2>3 DEF Exits
<1>9. ASSUME NEW i \in Inst, HostExit(i) PROVE Exits'
  BY <1>0, <1>a, <1>9 DEF HostExit, Exits, Ends, NoExit, Step, svcVars, procVars, userVars
<1>10. ASSUME NEW i \in Inst, Deliver(i) PROVE Exits'
  BY <1>0, <1>a, <1>10 DEF Deliver, Exits, Ends, NoExit, Step, svcVars, procVars, userVars
<1>11. ASSUME NEW i \in Inst, TellManager(i) PROVE Exits'
  BY <1>0, <1>a, <1>11 DEF TellManager, Exits, Ends, NoExit, Step, svcVars, procVars, userVars
<1>12. ASSUME NEW i \in Inst, TellInstance(i) PROVE Exits'
  BY <1>0, <1>a, <1>12 DEF TellInstance, Exits, Ends, NoExit, Step, svcVars, procVars, userVars
<1>13. ASSUME NEW i \in Inst, InstanceDidExit(i) PROVE Exits'
  <2>1. /\ UNCHANGED <<host, obs>>
        /\ exit'[i].at = "notify" /\ exit'[i].svc = None /\ exit'[i].left = exit[i].left
        /\ exit[i].at = "delegate"
        /\ \A j \in Inst \ {i} : exit'[j] = exit[j]
        /\ \A j \in Inst \ {i}, r \in Svc : owner[j] = r /\ Referenced(r)' => owner'[j] = r
        /\ \A j \in Inst : InstanceAlive(j)' => st'[j] = st[j]
    BY <1>13, InstanceDidExitDoes
  <2>2. \A j \in Inst \ {i}, s \in Svc : exit[j].at = "delegate" /\ exit[j].svc = s =>
          Referenced(s)'
    BY <2>1 DEF Referenced
  <2>3. \A j \in Inst \ {i}, s \in Svc : exit[j].at = "delegate" /\ exit[j].svc = s =>
          owner'[j] = s /\ st'[j] = "exited"
    <3>1. \A j \in Inst \ {i}, s \in Svc :
            exit[j].at = "delegate" /\ exit[j].svc = s => owner'[j] = s
      BY <1>a, <2>1, <2>2 DEF Exits
    <3>2. \A j \in Inst, s \in Svc : owner'[j] = s => InstanceAlive(j)'
      BY LaunchAssumption DEF InstanceAlive
    <3> QED BY <1>a, <2>1, <3>1, <3>2 DEF Exits
  <2>4. \A j \in Inst : exit'[j].at # "none" => host[j] = "dead" /\ "front" \in obs[j]
    BY <1>a, <2>1 DEF Exits
  <2> QED BY <1>a, <2>1, <2>3, <2>4 DEF Exits
<1>14. ASSUME NEW i \in Inst, Delivered(i) PROVE Exits'
  BY <1>0, <1>a, <1>14 DEF Delivered, Exits, Ends, NoExit, Step, svcVars, procVars, userVars
<1>15. ASSUME NEW s \in Svc, TimerFires(s) PROVE Exits'
  BY <1>0, <1>a, <1>15 DEF TimerFires, Exits, Ends, NoExit, Step, svcVars, procVars, userVars
<1>16. CASE Boot
  BY <1>0, <1>a, <1>16 DEF Boot, Exits, Ends, NoExit, Step, svcVars, procVars, userVars
<1>17. CASE ReloadDaemons
  BY <1>0, <1>a, <1>17 DEF ReloadDaemons, Exits, Ends, NoExit, Step, svcVars, procVars, userVars
<1>18. CASE RebootBegin
  <2>1. /\ UNCHANGED <<exit, host, obs>>
        /\ \A j \in Inst, s \in Svc : owner[j] = s /\ Referenced(s)' => owner'[j] = s
        /\ \A j \in Inst : InstanceAlive(j)' => st'[j] = st[j]
    BY <1>18, CollectDoes DEF RebootBegin, procVars
  <2>2. \A j \in Inst, s \in Svc : exit[j].at = "delegate" /\ exit[j].svc = s =>
          Referenced(s)'
    BY <2>1 DEF Referenced
  <2>3. \A j \in Inst, s \in Svc : exit[j].at = "delegate" /\ exit[j].svc = s =>
          owner'[j] = s /\ st'[j] = "exited"
    <3>1. \A j \in Inst, s \in Svc : exit[j].at = "delegate" /\ exit[j].svc = s => owner'[j] = s
      BY <1>a, <2>1, <2>2 DEF Exits
    <3>2. \A j \in Inst, s \in Svc : owner'[j] = s => InstanceAlive(j)'
      BY LaunchAssumption DEF InstanceAlive
    <3> QED BY <1>a, <2>1, <3>1, <3>2 DEF Exits
  <2> QED BY <1>a, <2>1, <2>3 DEF Exits
<1>19. CASE RebootKill
  BY <1>0, <1>a, <1>19 DEF RebootKill, Exits, Ends, NoExit, Step, svcVars, procVars, userVars
<1>20. CASE Reload
  <2>1. /\ UNCHANGED <<exit, host, obs>>
        /\ \A j \in Inst, s \in Svc : owner[j] = s /\ Referenced(s)' => owner'[j] = s
        /\ \A j \in Inst : InstanceAlive(j)' => st'[j] = st[j]
    BY <1>20, CollectDoes DEF Reload, procVars
  <2>2. \A j \in Inst, s \in Svc : exit[j].at = "delegate" /\ exit[j].svc = s =>
          Referenced(s)'
    BY <2>1 DEF Referenced
  <2>3. \A j \in Inst, s \in Svc : exit[j].at = "delegate" /\ exit[j].svc = s =>
          owner'[j] = s /\ st'[j] = "exited"
    <3>1. \A j \in Inst, s \in Svc : exit[j].at = "delegate" /\ exit[j].svc = s => owner'[j] = s
      BY <1>a, <2>1, <2>2 DEF Exits
    <3>2. \A j \in Inst, s \in Svc : owner'[j] = s => InstanceAlive(j)'
      BY LaunchAssumption DEF InstanceAlive
    <3> QED BY <1>a, <2>1, <3>1, <3>2 DEF Exits
  <2> QED BY <1>a, <2>1, <2>3 DEF Exits
<1>21. CASE LoadNext
  BY <1>0, <1>a, <1>21 DEF LoadNext, Exits, Ends, NoExit, Step, svcVars, procVars, userVars
<1>22. CASE LoadEnd
  BY <1>0, <1>a, <1>22 DEF LoadEnd, Exits, Ends, NoExit, Step, svcVars, procVars, userVars
<1> QED BY <1>1, <1>2, <1>3, <1>4, <1>5, <1>6, <1>7, <1>8, <1>9, <1>10, <1>11,
        <1>12, <1>13, <1>14, <1>15, <1>16, <1>17, <1>18, <1>19, <1>20, <1>21,
        <1>22
        DEF Next, Launch, Exiting, Userspace

\* Instances go with their services.
LEMMA InstanceSteps == IInv /\ Next => Instances'
<1> SUFFICES ASSUME IInv, Next PROVE Instances'
  OBVIOUS
<1>0. /\ TypeOK
      /\ th \in [Launcher -> Ths] /\ exit \in [Inst -> Ends] /\ svc \in [Svc -> Svcs]
      /\ st \in [Inst -> Sts] /\ obs \in [Inst -> Obs]
      /\ loaded \subseteq Svc /\ timer \in [Svc -> Nat]
      /\ lock \in [Svc -> Launcher \cup {None}] /\ owner \in [Inst -> Svc \cup {None}]
      /\ host \in [Inst -> {"none", "running", "dead"}]
      /\ killed \subseteq Inst /\ dict \subseteq Inst /\ missed \subseteq Inst
      /\ todo \subseteq Plist
  BY Parts DEF IInv
<1>a. Instances
  BY DEF IInv
<1>1. ASSUME NEW t \in Launcher, NewInstance(t) PROVE Instances'
  <2>1. PICK i \in Inst :
          /\ Fresh(i)
          /\ owner' = [owner EXCEPT ![i] = th[t].svc]
          /\ st' = [st EXCEPT ![i] = "launching"]
          /\ th' = [th EXCEPT ![t].at = "spawn", ![t].inst = i]
    BY <1>1 DEF NewInstance
  <2>2. \A u \in Launcher : th[u].inst # i
    BY <2>1 DEF Fresh, InstanceAlive
  <2>3. UNCHANGED <<exit, loaded, timer>> /\ th[t].inst = None
    BY <1>1 DEF NewInstance, IInv, Threads
  <2>4. /\ th'[t].svc = th[t].svc /\ th'[t].inst = i
        /\ \A u \in Launcher \ {t} : th'[u] = th[u]
    BY <1>0, <2>1 DEF Ths
  <2>5. \A s \in Svc : Referenced(s) \/ s = th[t].svc => Referenced(s)'
    BY <2>3, <2>4 DEF Referenced
  <2>6. \A j \in Inst \ {i} : st[j] = "launching" => \E u \in Launcher : th'[u].inst = j
    BY <1>a, <2>3, <2>4, LaunchAssumption DEF Instances
  <2>7. \A j \in Inst \ {i}, s \in Svc : owner'[j] = s => Referenced(s)' /\ st'[j] # "idle"
    BY <1>0, <1>a, <2>1, <2>5 DEF Instances
  <2>8. st'[i] = "launching" /\ owner'[i] = th[t].svc /\ \A j \in Inst \ {i} : st'[j] = st[j]
    BY <1>0, <2>1
  <2> QED BY <1>a, <2>3, <2>4, <2>5, <2>6, <2>7, <2>8 DEF Instances
<1>2. ASSUME NEW t \in Launcher, CountRefused(t) PROVE Instances'
  <2>1. /\ UNCHANGED exit
        /\ th'[t] = Quiet /\ \A u \in Launcher \ {t} : th'[u] = th[u]
        /\ \A j \in Inst, s \in Svc : owner'[j] = s => owner[j] = s /\ Referenced(s)'
        /\ \A j \in Inst : InstanceAlive(j)' => st'[j] = st[j]
        /\ \A j \in Inst : st'[j] \in {st[j], "idle"}
        /\ \A j \in Inst : ~InstanceAlive(j)' => st'[j] = "idle"
    BY <1>0, <1>2, CountRefusedDoes
  <2>2. \A j \in Inst, s \in Svc : owner'[j] = s => Referenced(s)' /\ st'[j] # "idle"
    <3>1. \A j \in Inst, s \in Svc : owner'[j] = s => InstanceAlive(j)'
      BY LaunchAssumption DEF InstanceAlive
    <3> QED BY <1>a, <2>1, <3>1 DEF Instances

  <2>3. th[t].inst = None
    BY <1>2 DEF CountRefused, IInv, Threads
  <2>4. \A j \in Inst : st'[j] = "launching" => \E u \in Launcher : th'[u].inst = j
    BY <1>a, <2>1, <2>3, LaunchAssumption DEF Instances
  <2> QED BY <1>a, <2>1, <2>2, <2>4 DEF Instances
<1>3. ASSUME NEW t \in Launcher, SpawnHost(t) PROVE Instances'
  <2>1. /\ UNCHANGED <<exit, loaded, timer, owner, st>>
        /\ \A u \in Launcher : th'[u].svc = th[u].svc /\ th'[u].inst = th[u].inst
    BY <1>0, <1>3 DEF SpawnHost, svcVars, procVars, Step, Ths
  <2>2. \A s \in Svc : Referenced(s) => Referenced(s)'
    BY <2>1 DEF Referenced
  <2> QED BY <1>a, <2>1, <2>2 DEF Instances
<1>4. ASSUME NEW t \in Launcher, ManagerObserves(t) PROVE Instances'
  <2>1. /\ UNCHANGED <<exit, loaded, timer, owner, st>>
        /\ \A u \in Launcher : th'[u].svc = th[u].svc /\ th'[u].inst = th[u].inst
    BY <1>0, <1>4 DEF ManagerObserves, svcVars, procVars, Step, Ths
  <2>2. \A s \in Svc : Referenced(s) => Referenced(s)'
    BY <2>1 DEF Referenced
  <2> QED BY <1>a, <2>1, <2>2 DEF Instances
<1>5. ASSUME NEW t \in Launcher, ManagerInserts(t) PROVE Instances'
  <2>1. /\ UNCHANGED <<exit, loaded, timer, owner, st>>
        /\ \A u \in Launcher : th'[u].svc = th[u].svc /\ th'[u].inst = th[u].inst
    BY <1>0, <1>5 DEF ManagerInserts, svcVars, procVars, Step, Ths
  <2>2. \A s \in Svc : Referenced(s) => Referenced(s)'
    BY <2>1 DEF Referenced
  <2> QED BY <1>a, <2>1, <2>2 DEF Instances
<1>6. ASSUME NEW t \in Launcher, FindProcess(t) PROVE Instances'
  <2>1. /\ UNCHANGED <<exit, loaded, timer, owner>>
        /\ \A u \in Launcher : th'[u].svc = th[u].svc /\ th'[u].inst = th[u].inst
        /\ \A j \in Inst : st'[j] \in {st[j], "running"}
    BY <1>0, <1>6 DEF FindProcess, svcVars, procVars, Step, Ths
  <2>2. \A s \in Svc : Referenced(s) => Referenced(s)'
    BY <2>1 DEF Referenced
  <2> QED BY <1>a, <2>1, <2>2 DEF Instances
<1>7. ASSUME NEW t \in Launcher, Launched(t) PROVE Instances'
  <2>1. /\ UNCHANGED exit
        /\ th'[t] = Quiet /\ \A u \in Launcher \ {t} : th'[u] = th[u]
        /\ \A j \in Inst, s \in Svc : owner'[j] = s => owner[j] = s /\ Referenced(s)'
        /\ \A j \in Inst : InstanceAlive(j)' => st'[j] = st[j]
        /\ \A j \in Inst : st'[j] \in {st[j], "idle"}
        /\ \A j \in Inst : ~InstanceAlive(j)' => st'[j] = "idle"
    BY <1>0, <1>7, CollectDoes DEF Launched
  <2>2. \A j \in Inst, s \in Svc : owner'[j] = s => Referenced(s)' /\ st'[j] # "idle"
    <3>1. \A j \in Inst, s \in Svc : owner'[j] = s => InstanceAlive(j)'
      BY LaunchAssumption DEF InstanceAlive
    <3> QED BY <1>a, <2>1, <3>1 DEF Instances

  <2>3. st[th[t].inst] = "running"
    BY <1>7 DEF Launched, IInv, Threads, Stage
  <2>4. \A j \in Inst : st'[j] = "launching" => \E u \in Launcher : th'[u].inst = j
    BY <1>a, <2>1, <2>3 DEF Instances
  <2> QED BY <1>a, <2>1, <2>2, <2>4 DEF Instances
<1>8. ASSUME NEW t \in Launcher, LaunchFailed(t) PROVE Instances'
  <2>1. /\ UNCHANGED exit
        /\ th'[t] = Quiet /\ \A u \in Launcher \ {t} : th'[u] = th[u]
        /\ \A j \in Inst, s \in Svc : owner'[j] = s => owner[j] = s /\ Referenced(s)'
        /\ \A j \in Inst : InstanceAlive(j)' => st'[j] = st[j]
        /\ \A j \in Inst : st'[j] \in {st[j], "idle"}
        /\ \A j \in Inst : ~InstanceAlive(j)' => st'[j] = "idle"
    BY <1>0, <1>8, LaunchFailedDoes
  <2>2. \A j \in Inst, s \in Svc : owner'[j] = s => Referenced(s)' /\ st'[j] # "idle"
    <3>1. \A j \in Inst, s \in Svc : owner'[j] = s => InstanceAlive(j)'
      BY LaunchAssumption DEF InstanceAlive
    <3> QED BY <1>a, <2>1, <3>1 DEF Instances

  <2>3. th[t].at = "fail" /\ th[t].inst \in Inst /\ owner'[th[t].inst] = None
    BY <1>8, LaunchFailedDoes
  <2>4. "instance" \notin exit[th[t].inst].left
    BY <2>3 DEF IInv, Entries, Stage
  <2>5. \A u \in Launcher \ {t} : th[u].inst # th[t].inst
    <3>1. \A u \in Launcher : th[u].inst \in Inst => th[u].at \in Stage
      BY <1>0, LaunchAssumption DEF IInv, Threads, Stage, Ths
    <3>2. \A u \in Launcher : th[u].at \in Stage => owner[th[u].inst] = th[u].svc /\ lock[th[u].svc] = u
      BY DEF IInv, Threads
    <3> QED BY <2>3, <3>1, <3>2 DEF Stage
  <2>6. th'[t].inst = None /\ th[t].inst # None
    BY <2>1, <2>3, LaunchAssumption DEF Quiet
  <2>9. PICK i \in Inst : i = th[t].inst
    BY <2>3
  <2>7. ~InstanceAlive(i)'
    <3>1. \A u \in Launcher : th'[u].inst # i
      BY <2>1, <2>5, <2>6, <2>9
    <3>2. \A j \in Inst : owner'[j] = None /\ "instance" \notin exit'[j].left
              /\ (\A u \in Launcher : th'[u].inst # j) => ~InstanceAlive(j)'
      BY DEF InstanceAlive
    <3> QED BY <2>1, <2>3, <2>4, <2>9, <3>1, <3>2
  <2>8. \A j \in Inst : st'[j] = "launching" => \E u \in Launcher : th'[u].inst = j
    BY <1>a, <2>1, <2>3, <2>7, <2>9 DEF Instances
  <2> QED BY <1>a, <2>1, <2>2, <2>8 DEF Instances
<1>9. ASSUME NEW i \in Inst, HostExit(i) PROVE Instances'
  <2>1. /\ UNCHANGED <<loaded, timer, owner, st, th>>
        /\ \A j \in Inst : exit'[j].svc = exit[j].svc
        /\ \A j \in Inst : exit[j].at = "delegate" => exit'[j].at = "delegate"
    BY <1>0, <1>9 DEF HostExit, svcVars, procVars, Ends, NoExit, IInv, Exits
  <2>2. \A s \in Svc : Referenced(s) => Referenced(s)'
    BY <2>1 DEF Referenced
  <2> QED BY <1>a, <2>1, <2>2 DEF Instances
<1>10. ASSUME NEW i \in Inst, Deliver(i) PROVE Instances'
  <2>1. /\ UNCHANGED <<loaded, timer, owner, st, th>>
        /\ \A j \in Inst : exit'[j].svc = exit[j].svc
        /\ \A j \in Inst : exit[j].at = "delegate" => exit'[j].at = "delegate"
    BY <1>0, <1>10 DEF Deliver, svcVars, procVars, Ends, NoExit, IInv, Exits
  <2>2. \A s \in Svc : Referenced(s) => Referenced(s)'
    BY <2>1 DEF Referenced
  <2> QED BY <1>a, <2>1, <2>2 DEF Instances
<1>11. ASSUME NEW i \in Inst, TellManager(i) PROVE Instances'
  <2>1. /\ UNCHANGED <<loaded, timer, owner, st, th>>
        /\ \A j \in Inst : exit'[j].svc = exit[j].svc
        /\ \A j \in Inst : exit[j].at = "delegate" => exit'[j].at = "delegate"
    BY <1>0, <1>11 DEF TellManager, svcVars, procVars, Ends, NoExit, IInv, Exits
  <2>2. \A s \in Svc : Referenced(s) => Referenced(s)'
    BY <2>1 DEF Referenced
  <2> QED BY <1>a, <2>1, <2>2 DEF Instances
<1>12. ASSUME NEW i \in Inst, TellInstance(i) PROVE Instances'
  <2>1. /\ UNCHANGED <<loaded, timer, owner, th>>
        /\ exit[i].at = "notify" /\ exit[i].svc = None
        /\ st' = [st EXCEPT ![i] = IF owner[i] = None THEN "idle" ELSE "exited"]
        /\ exit'[i].at = IF owner[i] = None THEN "notify" ELSE "delegate"
        /\ \A j \in Inst \ {i} : exit'[j] = exit[j]
    BY <1>0, <1>12 DEF TellInstance, svcVars, Ends, IInv, Exits
  <2>2. \A s \in Svc : Referenced(s) => Referenced(s)'
    BY <2>1, LaunchAssumption DEF Referenced
  <2>3. st'[i] = (IF owner[i] = None THEN "idle" ELSE "exited") /\ \A j \in Inst \ {i} : st'[j] = st[j]
    BY <1>0, <2>1
  <2> QED BY <1>a, <2>1, <2>2, <2>3, LaunchAssumption DEF Instances
<1>13. ASSUME NEW i \in Inst, InstanceDidExit(i) PROVE Instances'
  <2>1. /\ UNCHANGED th
        /\ \A j \in Inst, r \in Svc : owner'[j] = r => owner[j] = r /\ Referenced(r)'
        /\ \A j \in Inst : InstanceAlive(j)' => st'[j] = st[j]
        /\ \A j \in Inst : st'[j] \in {st[j], "idle"}
        /\ \A j \in Inst : ~InstanceAlive(j)' => st'[j] = "idle"
    BY <1>13, InstanceDidExitDoes DEF InstanceDidExit
  <2>2. \A j \in Inst, s \in Svc : owner'[j] = s => Referenced(s)' /\ st'[j] # "idle"
    <3>1. \A j \in Inst, s \in Svc : owner'[j] = s => InstanceAlive(j)'
      BY LaunchAssumption DEF InstanceAlive
    <3> QED BY <1>a, <2>1, <3>1 DEF Instances

  <2>3. /\ owner'[i] = None /\ exit'[i].left = exit[i].left /\ exit[i].at = "delegate"
        /\ lock[owner[i]] = None /\ owner[i] \in Svc
        /\ \A j \in Inst \ {i} : exit'[j] = exit[j]
    BY <1>13, InstanceDidExitDoes
  <2>4. "instance" \notin exit[i].left
    BY <2>3 DEF IInv, Exits
  <2>5. \A u \in Launcher : th[u].inst # i
    <3>1. \A u \in Launcher : th[u].inst \in Inst => th[u].at \in Stage
      BY <1>0, LaunchAssumption DEF IInv, Threads, Stage, Ths
    <3>2. \A u \in Launcher : th[u].at \in Stage => owner[th[u].inst] = th[u].svc /\ lock[th[u].svc] = u
      BY DEF IInv, Threads
    <3>3. \A u \in Launcher : u # None
      BY LaunchAssumption DEF Launcher, User, Main
    <3> QED BY <2>3, <3>1, <3>2, <3>3
  <2>6. ~InstanceAlive(i)'
    BY <2>1, <2>3, <2>4, <2>5 DEF InstanceAlive
  <2>7. st'[i] = "idle"
    BY <2>1, <2>6
  <2> QED BY <1>a, <2>1, <2>2, <2>3, <2>7 DEF Instances
<1>14. ASSUME NEW i \in Inst, Delivered(i) PROVE Instances'
  <2>1. /\ UNCHANGED <<loaded, timer, owner, st, th>>
        /\ \A j \in Inst : exit'[j].svc = exit[j].svc
        /\ \A j \in Inst : exit[j].at = "delegate" => exit'[j].at = "delegate"
    BY <1>0, <1>14 DEF Delivered, svcVars, procVars, Ends, NoExit, IInv, Exits
  <2>2. \A s \in Svc : Referenced(s) => Referenced(s)'
    BY <2>1 DEF Referenced
  <2> QED BY <1>a, <2>1, <2>2 DEF Instances
<1>15. ASSUME NEW s \in Svc, TimerFires(s) PROVE Instances'
  <2>1. /\ UNCHANGED <<loaded, exit, owner, st>>
        /\ \A r \in Svc : r # s => timer'[r] = timer[r]
        /\ th[Main].inst = None /\ th[Main].svc = None
        /\ th'[Main].svc = s /\ th'[User] = th[User]
    BY <1>0, <1>15 DEF TimerFires, procVars, Launcher, User, Main, IInv, Threads
  <2>2. \A r \in Svc : Referenced(r) => Referenced(r)'
    BY <2>1, LaunchAssumption DEF Referenced, Launcher
  <2>3. \A j \in Inst : \A u \in Launcher : th[u].inst = j => th'[u].inst = j
    BY <2>1, LaunchAssumption DEF Launcher
  <2> QED BY <1>a, <2>1, <2>2, <2>3 DEF Instances
<1>16. CASE Boot
  <2>1. /\ UNCHANGED <<loaded, timer, owner, st, th>>
        /\ \A j \in Inst : exit'[j].svc = exit[j].svc
        /\ \A j \in Inst : exit[j].at = "delegate" => exit'[j].at = "delegate"
    BY <1>0, <1>16 DEF Boot, svcVars, procVars, Ends, NoExit, IInv, Exits
  <2>2. \A s \in Svc : Referenced(s) => Referenced(s)'
    BY <2>1 DEF Referenced
  <2> QED BY <1>a, <2>1, <2>2 DEF Instances
<1>17. CASE ReloadDaemons
  <2>1. /\ UNCHANGED <<loaded, timer, owner, st, th>>
        /\ \A j \in Inst : exit'[j].svc = exit[j].svc
        /\ \A j \in Inst : exit[j].at = "delegate" => exit'[j].at = "delegate"
    BY <1>0, <1>17 DEF ReloadDaemons, svcVars, procVars, Ends, NoExit, IInv, Exits
  <2>2. \A s \in Svc : Referenced(s) => Referenced(s)'
    BY <2>1 DEF Referenced
  <2> QED BY <1>a, <2>1, <2>2 DEF Instances
<1>18. CASE RebootBegin
  <2>1. /\ UNCHANGED <<exit, th>>
        /\ \A j \in Inst, s \in Svc : owner'[j] = s => owner[j] = s /\ Referenced(s)'
        /\ \A j \in Inst : InstanceAlive(j)' => st'[j] = st[j]
        /\ \A j \in Inst : st'[j] \in {st[j], "idle"}
    BY <1>18, CollectDoes DEF RebootBegin, procVars
  <2>2. \A j \in Inst, s \in Svc : owner'[j] = s => Referenced(s)' /\ st'[j] # "idle"
    <3>1. \A j \in Inst, s \in Svc : owner'[j] = s => InstanceAlive(j)'
      BY LaunchAssumption DEF InstanceAlive
    <3> QED BY <1>a, <2>1, <3>1 DEF Instances
  <2> QED BY <1>a, <2>1, <2>2 DEF Instances
<1>19. CASE RebootKill
  <2>1. /\ UNCHANGED <<loaded, timer, owner, st, th>>
        /\ \A j \in Inst : exit'[j].svc = exit[j].svc
        /\ \A j \in Inst : exit[j].at = "delegate" => exit'[j].at = "delegate"
    BY <1>0, <1>19 DEF RebootKill, svcVars, procVars, Ends, NoExit, IInv, Exits
  <2>2. \A s \in Svc : Referenced(s) => Referenced(s)'
    BY <2>1 DEF Referenced
  <2> QED BY <1>a, <2>1, <2>2 DEF Instances
<1>20. CASE Reload
  <2>1. /\ UNCHANGED <<exit, th>>
        /\ \A j \in Inst, s \in Svc : owner'[j] = s => owner[j] = s /\ Referenced(s)'
        /\ \A j \in Inst : InstanceAlive(j)' => st'[j] = st[j]
        /\ \A j \in Inst : st'[j] \in {st[j], "idle"}
    BY <1>20, CollectDoes DEF Reload, procVars
  <2>2. \A j \in Inst, s \in Svc : owner'[j] = s => Referenced(s)' /\ st'[j] # "idle"
    <3>1. \A j \in Inst, s \in Svc : owner'[j] = s => InstanceAlive(j)'
      BY LaunchAssumption DEF InstanceAlive
    <3> QED BY <1>a, <2>1, <3>1 DEF Instances
  <2> QED BY <1>a, <2>1, <2>2 DEF Instances
<1>21. CASE LoadNext
  <2>1. /\ UNCHANGED <<loaded, timer, exit, owner, st>>
        /\ th[User].inst = None /\ th[User].svc = None
        /\ th'[Main] = th[Main]
    BY <1>0, <1>21 DEF LoadNext, procVars, Launcher, User, Main, IInv, Threads
  <2>2. \A r \in Svc : Referenced(r) => Referenced(r)'
    BY <2>1, LaunchAssumption DEF Referenced, Launcher
  <2>3. \A j \in Inst : \A u \in Launcher : th[u].inst = j => th'[u].inst = j
    BY <2>1, LaunchAssumption DEF Launcher
  <2> QED BY <1>a, <2>1, <2>2, <2>3 DEF Instances
<1>22. CASE LoadEnd
  <2>1. /\ UNCHANGED <<loaded, timer, owner, st, th>>
        /\ \A j \in Inst : exit'[j].svc = exit[j].svc
        /\ \A j \in Inst : exit[j].at = "delegate" => exit'[j].at = "delegate"
    BY <1>0, <1>22 DEF LoadEnd, svcVars, procVars, Ends, NoExit, IInv, Exits
  <2>2. \A s \in Svc : Referenced(s) => Referenced(s)'
    BY <2>1 DEF Referenced
  <2> QED BY <1>a, <2>1, <2>2 DEF Instances
<1> QED BY <1>1, <1>2, <1>3, <1>4, <1>5, <1>6, <1>7, <1>8, <1>9, <1>10, <1>11,
        <1>12, <1>13, <1>14, <1>15, <1>16, <1>17, <1>18, <1>19, <1>20, <1>21,
        <1>22
        DEF Next, Launch, Exiting, Userspace

-----------------------------------------------------------------------------
(* Tokens                                                                  *)

\* Steps that hand out no token.
LEMMA NoNewToken ==
  ASSUME Tokens, TypeOK, timer' = timer,
         \A j \in Inst, s \in Svc : owner'[j] = s => owner[j] = s,
         \A u \in Launcher, s \in Svc : th'[u].svc = s =>
           th[u].svc = s /\ (th'[u].at = "new" => th[u].at = "new"),
         \A s \in Svc : svc'[s].fails > Limit => svc[s].fails > Limit
  PROVE  Tokens'
<1> SUFFICES ASSUME NEW s \in Svc PROVE Token(s)'
  BY DEF Tokens
<1>1. Token(s)
  BY DEF Tokens
<1> QED BY <1>1 DEF Token

\* Tokens are handed on, never duplicated.
LEMMA TokenSteps == IInv /\ Next => Tokens'
<1> SUFFICES ASSUME IInv, Next PROVE Tokens'
  OBVIOUS
<1>0. /\ TypeOK
      /\ th \in [Launcher -> Ths] /\ exit \in [Inst -> Ends] /\ svc \in [Svc -> Svcs]
      /\ st \in [Inst -> Sts] /\ obs \in [Inst -> Obs]
      /\ loaded \subseteq Svc /\ timer \in [Svc -> Nat]
      /\ lock \in [Svc -> Launcher \cup {None}] /\ owner \in [Inst -> Svc \cup {None}]
      /\ host \in [Inst -> {"none", "running", "dead"}]
      /\ killed \subseteq Inst /\ dict \subseteq Inst /\ missed \subseteq Inst
      /\ todo \subseteq Plist
  BY Parts DEF IInv
<1>a. Tokens
  BY DEF IInv
<1>1. ASSUME NEW t \in Launcher, NewInstance(t) PROVE Tokens'
  <2>1. PICK i \in Inst :
          /\ Fresh(i)
          /\ owner' = [owner EXCEPT ![i] = th[t].svc]
          /\ th' = [th EXCEPT ![t].at = "spawn", ![t].inst = i]
    BY <1>1 DEF NewInstance
  <2>2. owner[i] = None /\ th[t].at = "new" /\ UNCHANGED <<timer, svc>>
    BY <1>1, <2>1 DEF Fresh, InstanceAlive, NewInstance
  <2>3. /\ th'[t].svc = th[t].svc /\ th'[t].at = "spawn"
        /\ \A u \in Launcher \ {t} : th'[u] = th[u]
    BY <1>0, <2>1 DEF Ths
  <2>4. owner'[i] = th[t].svc /\ \A j \in Inst \ {i} : owner'[j] = owner[j]
    BY <1>0, <2>1
  <2>5. SUFFICES ASSUME NEW s \in Svc PROVE Token(s)'
    BY DEF Tokens
  <2>6. Token(s)
    BY <1>a DEF Tokens
  <2>7. CASE s # th[t].svc
    BY <2>2, <2>3, <2>4, <2>6, <2>7 DEF Token
  <2>8. CASE s = th[t].svc
    <3>1. timer[s] \in Nat /\ timer[s] # 1 /\ ~(svc[s].fails > Limit)
      BY <1>0, <2>6, <2>8 DEF Token
    <3>2. timer[s] = 0
      BY <2>6, <3>1 DEF Token
    <3>3. \A j \in Inst : owner[j] # s
      BY <2>2, <2>6, <2>8 DEF Token
    <3>4. \A u \in Launcher \ {t} : th[u].svc # s
      BY <2>6, <2>8 DEF Token
    <3> QED BY <2>2, <2>3, <2>4, <2>8, <3>1, <3>2, <3>3, <3>4 DEF Token
  <2> QED BY <2>7, <2>8
<1>2. ASSUME NEW t \in Launcher, CountRefused(t) PROVE Tokens'
  <2>1. /\ timer' = timer
        /\ \A j \in Inst, s \in Svc : owner'[j] = s => owner[j] = s
    BY <1>2, CountRefusedDoes 
  <2>2. \A u \in Launcher, s \in Svc : th'[u].svc = s =>
           th[u].svc = s /\ (th'[u].at = "new" => th[u].at = "new")
    BY <1>2, CountRefusedDoes, LaunchAssumption DEF Quiet
  <2>3. \A s \in Svc : svc'[s].fails > Limit => svc[s].fails > Limit
    BY <1>2, CountRefusedDoes, LaunchAssumption 
  <2> QED BY <1>0, <1>a, <2>1, <2>2, <2>3, NoNewToken
<1>3. ASSUME NEW t \in Launcher, SpawnHost(t) PROVE Tokens'
  <2>1. /\ timer' = timer
        /\ \A j \in Inst, s \in Svc : owner'[j] = s => owner[j] = s
    BY <1>0, <1>3 DEF SpawnHost, svcVars, procVars
  <2>2. \A u \in Launcher, s \in Svc : th'[u].svc = s =>
           th[u].svc = s /\ (th'[u].at = "new" => th[u].at = "new")
    BY <1>0, <1>3, LaunchAssumption DEF SpawnHost, procVars, Step, Quiet, Ths
  <2>3. \A s \in Svc : svc'[s].fails > Limit => svc[s].fails > Limit
    BY <1>3, LaunchAssumption DEF SpawnHost, svcVars
  <2> QED BY <1>0, <1>a, <2>1, <2>2, <2>3, NoNewToken
<1>4. ASSUME NEW t \in Launcher, ManagerObserves(t) PROVE Tokens'
  <2>1. /\ timer' = timer
        /\ \A j \in Inst, s \in Svc : owner'[j] = s => owner[j] = s
    BY <1>0, <1>4 DEF ManagerObserves, svcVars, procVars
  <2>2. \A u \in Launcher, s \in Svc : th'[u].svc = s =>
           th[u].svc = s /\ (th'[u].at = "new" => th[u].at = "new")
    BY <1>0, <1>4, LaunchAssumption DEF ManagerObserves, procVars, Step, Quiet, Ths
  <2>3. \A s \in Svc : svc'[s].fails > Limit => svc[s].fails > Limit
    BY <1>4, LaunchAssumption DEF ManagerObserves, svcVars
  <2> QED BY <1>0, <1>a, <2>1, <2>2, <2>3, NoNewToken
<1>5. ASSUME NEW t \in Launcher, ManagerInserts(t) PROVE Tokens'
  <2>1. /\ timer' = timer
        /\ \A j \in Inst, s \in Svc : owner'[j] = s => owner[j] = s
    BY <1>0, <1>5 DEF ManagerInserts, svcVars, procVars
  <2>2. \A u \in Launcher, s \in Svc : th'[u].svc = s =>
           th[u].svc = s /\ (th'[u].at = "new" => th[u].at = "new")
    BY <1>0, <1>5, LaunchAssumption DEF ManagerInserts, procVars, Step, Quiet, Ths
  <2>3. \A s \in Svc : svc'[s].fails > Limit => svc[s].fails > Limit
    BY <1>5, LaunchAssumption DEF ManagerInserts, svcVars
  <2> QED BY <1>0, <1>a, <2>1, <2>2, <2>3, NoNewToken
<1>6. ASSUME NEW t \in Launcher, FindProcess(t) PROVE Tokens'
  <2>1. /\ timer' = timer
        /\ \A j \in Inst, s \in Svc : owner'[j] = s => owner[j] = s
    BY <1>0, <1>6 DEF FindProcess, svcVars, procVars
  <2>2. \A u \in Launcher, s \in Svc : th'[u].svc = s =>
           th[u].svc = s /\ (th'[u].at = "new" => th[u].at = "new")
    BY <1>0, <1>6, LaunchAssumption DEF FindProcess, procVars, Step, Quiet, Ths
  <2>3. \A s \in Svc : svc'[s].fails > Limit => svc[s].fails > Limit
    BY <1>6, LaunchAssumption DEF FindProcess, svcVars
  <2> QED BY <1>0, <1>a, <2>1, <2>2, <2>3, NoNewToken
<1>7. ASSUME NEW t \in Launcher, Launched(t) PROVE Tokens'
  <2>1. /\ timer' = timer
        /\ \A j \in Inst, s \in Svc : owner'[j] = s => owner[j] = s
    BY <1>0, <1>7, CollectDoes DEF Launched, svcVars, procVars
  <2>2. \A u \in Launcher, s \in Svc : th'[u].svc = s =>
           th[u].svc = s /\ (th'[u].at = "new" => th[u].at = "new")
    BY <1>0, <1>7, CollectDoes, LaunchAssumption DEF Launched, procVars, Step, Quiet, Ths
  <2>3. \A s \in Svc : svc'[s].fails > Limit => svc[s].fails > Limit
    BY <1>7, CollectDoes, LaunchAssumption DEF Launched, svcVars
  <2> QED BY <1>0, <1>a, <2>1, <2>2, <2>3, NoNewToken
<1>8. ASSUME NEW t \in Launcher, LaunchFailed(t) PROVE Tokens'
  <2>1. /\ timer' = timer
        /\ \A j \in Inst, s \in Svc : owner'[j] = s => owner[j] = s
    BY <1>8, LaunchFailedDoes 
  <2>2. \A u \in Launcher, s \in Svc : th'[u].svc = s =>
           th[u].svc = s /\ (th'[u].at = "new" => th[u].at = "new")
    BY <1>8, LaunchFailedDoes, LaunchAssumption DEF Quiet
  <2>3. \A s \in Svc : svc'[s].fails > Limit => svc[s].fails > Limit
    BY <1>8, LaunchFailedDoes, LaunchAssumption 
  <2> QED BY <1>0, <1>a, <2>1, <2>2, <2>3, NoNewToken
<1>9. ASSUME NEW i \in Inst, HostExit(i) PROVE Tokens'
  <2>1. /\ timer' = timer
        /\ \A j \in Inst, s \in Svc : owner'[j] = s => owner[j] = s
    BY <1>0, <1>9 DEF HostExit, svcVars, procVars
  <2>2. \A u \in Launcher, s \in Svc : th'[u].svc = s =>
           th[u].svc = s /\ (th'[u].at = "new" => th[u].at = "new")
    BY <1>0, <1>9, LaunchAssumption DEF HostExit, procVars, Step, Quiet, Ths
  <2>3. \A s \in Svc : svc'[s].fails > Limit => svc[s].fails > Limit
    BY <1>9, LaunchAssumption DEF HostExit, svcVars
  <2> QED BY <1>0, <1>a, <2>1, <2>2, <2>3, NoNewToken
<1>10. ASSUME NEW i \in Inst, Deliver(i) PROVE Tokens'
  <2>1. /\ timer' = timer
        /\ \A j \in Inst, s \in Svc : owner'[j] = s => owner[j] = s
    BY <1>0, <1>10 DEF Deliver, svcVars, procVars
  <2>2. \A u \in Launcher, s \in Svc : th'[u].svc = s =>
           th[u].svc = s /\ (th'[u].at = "new" => th[u].at = "new")
    BY <1>0, <1>10, LaunchAssumption DEF Deliver, procVars, Step, Quiet, Ths
  <2>3. \A s \in Svc : svc'[s].fails > Limit => svc[s].fails > Limit
    BY <1>10, LaunchAssumption DEF Deliver, svcVars
  <2> QED BY <1>0, <1>a, <2>1, <2>2, <2>3, NoNewToken
<1>11. ASSUME NEW i \in Inst, TellManager(i) PROVE Tokens'
  <2>1. /\ timer' = timer
        /\ \A j \in Inst, s \in Svc : owner'[j] = s => owner[j] = s
    BY <1>0, <1>11 DEF TellManager, svcVars, procVars
  <2>2. \A u \in Launcher, s \in Svc : th'[u].svc = s =>
           th[u].svc = s /\ (th'[u].at = "new" => th[u].at = "new")
    BY <1>0, <1>11, LaunchAssumption DEF TellManager, procVars, Step, Quiet, Ths
  <2>3. \A s \in Svc : svc'[s].fails > Limit => svc[s].fails > Limit
    BY <1>11, LaunchAssumption DEF TellManager, svcVars
  <2> QED BY <1>0, <1>a, <2>1, <2>2, <2>3, NoNewToken
<1>12. ASSUME NEW i \in Inst, TellInstance(i) PROVE Tokens'
  <2>1. /\ timer' = timer
        /\ \A j \in Inst, s \in Svc : owner'[j] = s => owner[j] = s
    BY <1>0, <1>12 DEF TellInstance, svcVars, procVars
  <2>2. \A u \in Launcher, s \in Svc : th'[u].svc = s =>
           th[u].svc = s /\ (th'[u].at = "new" => th[u].at = "new")
    BY <1>0, <1>12, LaunchAssumption DEF TellInstance, procVars, Step, Quiet, Ths
  <2>3. \A s \in Svc : svc'[s].fails > Limit => svc[s].fails > Limit
    BY <1>12, LaunchAssumption DEF TellInstance, svcVars
  <2> QED BY <1>0, <1>a, <2>1, <2>2, <2>3, NoNewToken
<1>13. ASSUME NEW i \in Inst, InstanceDidExit(i) PROVE Tokens'
  <2>1. PICK s \in Svc, n \in 0 .. Limit + 1 :
         /\ owner[i] = s /\ lock[s] = None /\ ~(svc[s].fails > Limit)
         /\ timer' = [timer EXCEPT ![s] = IF n > Limit THEN @ ELSE @ + 1]
         /\ owner'[i] = None
         /\ \A j \in Inst, r \in Svc : owner'[j] = r => owner[j] = r
         /\ \A r \in Svc : svc'[r].fails \in {0, IF r = s THEN n ELSE svc[r].fails}
    BY <1>13, InstanceDidExitDoes
  <2>2. UNCHANGED th
    BY <1>13 DEF InstanceDidExit
  <2>3. SUFFICES ASSUME NEW r \in Svc PROVE Token(r)'
    BY DEF Tokens
  <2>4. Token(r)
    BY <1>a DEF Tokens
  <2>5. CASE r # s
    <3>1. timer'[r] = timer[r] /\ svc'[r].fails \in {0, svc[r].fails}
      BY <1>0, <2>1, <2>5
    <3> QED BY <2>1, <2>2, <2>4, <3>1, LaunchAssumption DEF Token
  <2>6. CASE r = s
    <3>1. timer[s] = 0 /\ \A j \in Inst : owner[j] = s => j = i
      BY <2>1, <2>4, <2>6 DEF Token
    <3>2. \A u \in Launcher : th[u].svc # s
      <4>1. \A u \in Launcher : th[u].svc = s => th[u].at \notin Stage
        BY <2>1, LaunchAssumption DEF IInv, Threads, Launcher, User, Main
      <4>2. \A u \in Launcher : th[u].svc = s => th[u].at # "new" /\ th[u].at # "idle"
        BY <2>1, <2>4, <2>6, LaunchAssumption DEF Token, IInv, Threads
      <4>3. \A u \in Launcher : th[u].at \in Stage \cup {"new", "idle"}
        BY <1>0 DEF Ths, Stage
      <4> QED BY <4>1, <4>2, <4>3
    <3>3. \A j \in Inst : owner'[j] # s
      BY <2>1, <3>1, LaunchAssumption
    <3>4. timer'[s] = IF n > Limit THEN 0 ELSE 1
      BY <1>0, <2>1, <3>1
    <3>5. svc'[s].fails > Limit => n > Limit
      BY <2>1, LaunchAssumption
    <3> QED BY <2>2, <2>6, <3>2, <3>3, <3>4, <3>5 DEF Token
  <2> QED BY <2>5, <2>6
<1>14. ASSUME NEW i \in Inst, Delivered(i) PROVE Tokens'
  <2>1. /\ timer' = timer
        /\ \A j \in Inst, s \in Svc : owner'[j] = s => owner[j] = s
    BY <1>0, <1>14 DEF Delivered, svcVars, procVars
  <2>2. \A u \in Launcher, s \in Svc : th'[u].svc = s =>
           th[u].svc = s /\ (th'[u].at = "new" => th[u].at = "new")
    BY <1>0, <1>14, LaunchAssumption DEF Delivered, procVars, Step, Quiet, Ths
  <2>3. \A s \in Svc : svc'[s].fails > Limit => svc[s].fails > Limit
    BY <1>14, LaunchAssumption DEF Delivered, svcVars
  <2> QED BY <1>0, <1>a, <2>1, <2>2, <2>3, NoNewToken
<1>15. ASSUME NEW s \in Svc, TimerFires(s) PROVE Tokens'
  <2>1. /\ UNCHANGED <<owner, svc>> /\ timer[s] > 0 /\ timer' = [timer EXCEPT ![s] = @ - 1]
        /\ th'[Main].svc = s /\ th'[User] = th[User]
    BY <1>0, <1>15 DEF TimerFires, Launcher, User, Main
  <2>2. SUFFICES ASSUME NEW r \in Svc PROVE Token(r)'
    BY DEF Tokens
  <2>3. Token(r)
    BY <1>a DEF Tokens
  <2>4. CASE r # s
    <3>1. timer'[r] = timer[r]
      BY <1>0, <2>1, <2>4
    <3>2. \A u \in Launcher : th'[u].svc = r => u = User /\ th'[u] = th[u]
      BY <2>1, <2>4 DEF Launcher
    <3> QED BY <2>1, <2>3, <3>1, <3>2 DEF Token
  <2>5. CASE r = s
    <3>1. timer[s] = 1 /\ timer'[s] = 0
      <4>1. timer[s] <= 1 /\ timer[s] \in Nat
        BY <1>0, <2>3, <2>5 DEF Token
      <4>2. timer'[s] = timer[s] - 1
        BY <1>0, <2>1
      <4> QED BY <2>1, <4>1, <4>2
    <3>2. /\ \A j \in Inst : owner[j] # s
          /\ th[User].svc # s
          /\ ~(svc[s].fails > Limit)
      BY <2>3, <2>5, <3>1 DEF Token, Launcher
    <3> QED BY <2>1, <2>5, <3>1, <3>2 DEF Token, Launcher
  <2> QED BY <2>4, <2>5
<1>16. CASE Boot
  <2>1. /\ timer' = timer
        /\ \A j \in Inst, s \in Svc : owner'[j] = s => owner[j] = s
    BY <1>0, <1>16 DEF Boot, svcVars, procVars
  <2>2. \A u \in Launcher, s \in Svc : th'[u].svc = s =>
           th[u].svc = s /\ (th'[u].at = "new" => th[u].at = "new")
    BY <1>0, <1>16, LaunchAssumption DEF Boot, procVars, Step, Quiet, Ths
  <2>3. \A s \in Svc : svc'[s].fails > Limit => svc[s].fails > Limit
    BY <1>16, LaunchAssumption DEF Boot, svcVars
  <2> QED BY <1>0, <1>a, <2>1, <2>2, <2>3, NoNewToken
<1>17. CASE ReloadDaemons
  <2>1. /\ timer' = timer
        /\ \A j \in Inst, s \in Svc : owner'[j] = s => owner[j] = s
    BY <1>0, <1>17 DEF ReloadDaemons, svcVars, procVars
  <2>2. \A u \in Launcher, s \in Svc : th'[u].svc = s =>
           th[u].svc = s /\ (th'[u].at = "new" => th[u].at = "new")
    BY <1>0, <1>17, LaunchAssumption DEF ReloadDaemons, procVars, Step, Quiet, Ths
  <2>3. \A s \in Svc : svc'[s].fails > Limit => svc[s].fails > Limit
    BY <1>17, LaunchAssumption DEF ReloadDaemons, svcVars
  <2> QED BY <1>0, <1>a, <2>1, <2>2, <2>3, NoNewToken
<1>18. CASE RebootBegin
  <2>1. /\ timer' = timer
        /\ \A j \in Inst, s \in Svc : owner'[j] = s => owner[j] = s
    BY <1>0, <1>18, CollectDoes DEF RebootBegin, svcVars, procVars
  <2>2. \A u \in Launcher, s \in Svc : th'[u].svc = s =>
           th[u].svc = s /\ (th'[u].at = "new" => th[u].at = "new")
    BY <1>0, <1>18, CollectDoes, LaunchAssumption DEF RebootBegin, procVars, Step, Quiet, Ths
  <2>3. \A s \in Svc : svc'[s].fails > Limit => svc[s].fails > Limit
    BY <1>18, CollectDoes, LaunchAssumption DEF RebootBegin, svcVars
  <2> QED BY <1>0, <1>a, <2>1, <2>2, <2>3, NoNewToken
<1>19. CASE RebootKill
  <2>1. /\ timer' = timer
        /\ \A j \in Inst, s \in Svc : owner'[j] = s => owner[j] = s
    BY <1>0, <1>19 DEF RebootKill, svcVars, procVars
  <2>2. \A u \in Launcher, s \in Svc : th'[u].svc = s =>
           th[u].svc = s /\ (th'[u].at = "new" => th[u].at = "new")
    BY <1>0, <1>19, LaunchAssumption DEF RebootKill, procVars, Step, Quiet, Ths
  <2>3. \A s \in Svc : svc'[s].fails > Limit => svc[s].fails > Limit
    BY <1>19, LaunchAssumption DEF RebootKill, svcVars
  <2> QED BY <1>0, <1>a, <2>1, <2>2, <2>3, NoNewToken
<1>20. CASE Reload
  <2>1. /\ timer' = timer
        /\ \A j \in Inst, s \in Svc : owner'[j] = s => owner[j] = s
    BY <1>0, <1>20, CollectDoes DEF Reload, svcVars, procVars
  <2>2. \A u \in Launcher, s \in Svc : th'[u].svc = s =>
           th[u].svc = s /\ (th'[u].at = "new" => th[u].at = "new")
    BY <1>0, <1>20, CollectDoes, LaunchAssumption DEF Reload, procVars, Step, Quiet, Ths
  <2>3. \A s \in Svc : svc'[s].fails > Limit => svc[s].fails > Limit
    BY <1>20, CollectDoes, LaunchAssumption DEF Reload, svcVars
  <2> QED BY <1>0, <1>a, <2>1, <2>2, <2>3, NoNewToken
<1>21. CASE LoadNext
  <2>1. PICK p \in todo, s \in Svc :
       /\ ~Referenced(s)
       /\ svc' = [svc EXCEPT ![s] = [plist |-> p, fails |-> 0, refused |-> FALSE]]
       /\ th' = [th EXCEPT ![User] = [at |-> "new", svc |-> s, inst |-> None]]
    BY <1>21 DEF LoadNext
  <2>2. UNCHANGED <<timer, owner>>
    BY <1>21 DEF LoadNext
  <2>3. th'[User].svc = s /\ th'[Main] = th[Main]
    BY <1>0, <2>1 DEF Launcher, User, Main
  <2>4. timer[s] = 0 /\ th[Main].svc # s /\ \A j \in Inst : owner[j] # s
    BY <1>0, <2>1 DEF Referenced, IInv, Instances, Launcher
  <2>5. svc'[s].fails = 0 /\ \A r \in Svc \ {s} : svc'[r] = svc[r]
    BY <1>0, <2>1
  <2>6. SUFFICES ASSUME NEW r \in Svc PROVE Token(r)'
    BY DEF Tokens
  <2>7. Token(r)
    BY <1>a DEF Tokens
  <2>8. CASE r # s
    <3>1. \A u \in Launcher : th'[u].svc = r => u = Main /\ th'[u] = th[u]
      BY <2>3, <2>8 DEF Launcher
    <3> QED BY <2>2, <2>5, <2>7, <2>8, <3>1 DEF Token
  <2>9. CASE r = s
    BY <2>2, <2>3, <2>4, <2>5, <2>9, LaunchAssumption DEF Token, Launcher
  <2> QED BY <2>8, <2>9
<1>22. CASE LoadEnd
  <2>1. /\ timer' = timer
        /\ \A j \in Inst, s \in Svc : owner'[j] = s => owner[j] = s
    BY <1>0, <1>22 DEF LoadEnd, svcVars, procVars
  <2>2. \A u \in Launcher, s \in Svc : th'[u].svc = s =>
           th[u].svc = s /\ (th'[u].at = "new" => th[u].at = "new")
    BY <1>0, <1>22, LaunchAssumption DEF LoadEnd, procVars, Step, Quiet, Ths
  <2>3. \A s \in Svc : svc'[s].fails > Limit => svc[s].fails > Limit
    BY <1>22, LaunchAssumption DEF LoadEnd, svcVars
  <2> QED BY <1>0, <1>a, <2>1, <2>2, <2>3, NoNewToken
<1> QED BY <1>1, <1>2, <1>3, <1>4, <1>5, <1>6, <1>7, <1>8, <1>9, <1>10, <1>11,
        <1>12, <1>13, <1>14, <1>15, <1>16, <1>17, <1>18, <1>19, <1>20, <1>21,
        <1>22
        DEF Next, Launch, Exiting, Userspace

-----------------------------------------------------------------------------
(* Signals                                                                 *)

\* Services that go take their running processes with them; an instance that
\* is not running has a launcher or a delivery that keeps its service.
LEMMA Terminates ==
  ASSUME IInv, Collect(owner, svc), Terminate(owner), UNCHANGED <<host, exit>>,
         \A j \in Inst : st[j] = "launching" => \E u \in Launcher : th'[u].inst = j
  PROVE  /\ killed \subseteq killed' /\ killed' \subseteq Alive'
         /\ \A j \in Alive : owner[j] # None =>
              owner'[j] # None \/ j \in killed' \/ \E u \in Launcher : th'[u].inst = j
<1>0. st \in [Inst -> Sts] /\ owner \in [Inst -> Svc \cup {None}]
  BY Parts DEF IInv
<1>1. killed' = killed \cup {j \in Freed(owner) \cap Alive : st[j] = "running"}
  BY DEF Terminate
<1>2. Alive' = Alive
  BY DEF Alive
<1>3. killed \subseteq killed' /\ killed' \subseteq Alive'
  BY <1>1, <1>2 DEF IInv, Signals
<1>4. ASSUME NEW j \in Alive, owner[j] # None, owner'[j] = None, j \notin killed'
      PROVE  \E u \in Launcher : th'[u].inst = j
  <2>1. j \in Inst
    BY DEF Alive
  <2>2. PICK s \in Svc : owner[j] = s
    BY <1>0, <1>4, <2>1
  <2>3. ~Referenced(s)'
    BY <1>4, <2>1, <2>2, CollectDoes, LaunchAssumption
  <2>4. j \in Freed(owner)
    BY <2>1, <2>2, <2>3 DEF Freed
  <2>5. st[j] # "running"
    BY <1>1, <1>4, <2>4
  <2>6. st[j] # "idle" /\ st[j] # "exited"
    <3>1. st[j] # "idle"
      BY <2>1, <2>2 DEF IInv, Instances
    <3>2. st[j] = "exited" => exit[j].svc = s
      BY <2>1, <2>2 DEF IInv, Instances, Exits
    <3>3. exit'[j].svc # s
      BY <2>1, <2>3 DEF Referenced
    <3> QED BY <3>1, <3>2, <3>3
  <2>7. st[j] = "launching"
    BY <1>0, <2>1, <2>5, <2>6 DEF Sts
  <2> QED BY <2>1, <2>7
<1> QED BY <1>3, <1>4

\* No process is left to itself.
LEMMA SignalSteps == IInv /\ Next => (Signals /\ NoStrays)'
<1> SUFFICES ASSUME IInv, Next PROVE (Signals /\ NoStrays)'
  OBVIOUS
<1>0. /\ TypeOK
      /\ th \in [Launcher -> Ths] /\ exit \in [Inst -> Ends] /\ svc \in [Svc -> Svcs]
      /\ st \in [Inst -> Sts] /\ obs \in [Inst -> Obs]
      /\ loaded \subseteq Svc /\ timer \in [Svc -> Nat]
      /\ lock \in [Svc -> Launcher \cup {None}] /\ owner \in [Inst -> Svc \cup {None}]
      /\ host \in [Inst -> {"none", "running", "dead"}]
      /\ killed \subseteq Inst /\ dict \subseteq Inst /\ missed \subseteq Inst
      /\ todo \subseteq Plist
  BY Parts DEF IInv
<1>a. Signals /\ NoStrays
  BY DEF IInv
<1>1. ASSUME NEW t \in Launcher, NewInstance(t) PROVE (Signals /\ NoStrays)'
  <2>1. PICK i \in Inst :
          /\ owner' = [owner EXCEPT ![i] = th[t].svc]
          /\ th' = [th EXCEPT ![t].at = "spawn", ![t].inst = i]
    BY <1>1 DEF NewInstance
  <2>2. UNCHANGED <<host, killed>> /\ th[t].svc \in Svc /\ th[t].inst = None
    BY <1>1 DEF NewInstance, IInv, Threads
  <2>3. /\ th'[t].at = "spawn" /\ \A u \in Launcher \ {t} : th'[u] = th[u]
        /\ owner'[i] = th[t].svc /\ \A j \in Inst \ {i} : owner'[j] = owner[j]
    BY <1>0, <2>1 DEF Ths
  <2> QED BY <1>a, <2>2, <2>3, LaunchAssumption DEF Signals, NoStrays, Alive
<1>2. ASSUME NEW t \in Launcher, CountRefused(t) PROVE (Signals /\ NoStrays)'
  <2>1. /\ UNCHANGED <<host, killed, loaded, timer, exit>>
        /\ th[t].at = "new" /\ th[t].svc \in Svc
        /\ th'[t] = Quiet /\ \A u \in Launcher \ {t} : th'[u] = th[u]
        /\ \A j \in Inst, r \in Svc : owner[j] = r /\ Referenced(r)' => owner'[j] = r
    BY <1>2, CountRefusedDoes
  <2>2. th[t].inst = None /\ \A j \in Inst : owner[j] # th[t].svc
    BY <1>2, <2>1 DEF IInv, Threads, Tokens, Token
  <2>3. \A j \in Inst, r \in Svc : owner[j] = r => Referenced(r)'
    <3>1. \A j \in Inst, r \in Svc : owner[j] = r => Referenced(r) /\ r # th[t].svc
      BY <2>2 DEF IInv, Instances
    <3>2. \A r \in Svc : Referenced(r) /\ r # th[t].svc => Referenced(r)'
      BY <2>1 DEF Referenced
    <3> QED BY <3>1, <3>2
  <2>4. \A j \in Inst : owner[j] # None => owner'[j] # None
    BY <1>0, <2>1, <2>3, LaunchAssumption
  <2>5. Signals'
    BY <1>a, <2>1 DEF Signals, Alive, Quiet
  <2>6. NoStrays'
    BY <1>a, <2>1, <2>2, <2>4, LaunchAssumption DEF NoStrays, Alive
  <2> QED BY <2>5, <2>6
<1>3. ASSUME NEW t \in Launcher, SpawnHost(t) PROVE (Signals /\ NoStrays)'
  <2>1. PICK i \in Inst : i = th[t].inst
    BY <1>3 DEF SpawnHost, IInv, Threads, Stage
  <2>2. /\ UNCHANGED owner
        /\ \A u \in Launcher : th'[u].inst = th[u].inst
        /\ \A u \in Launcher \ {t} : th'[u] = th[u]
    BY <1>0, <1>3 DEF SpawnHost, Step, Ths
  <2>3. /\ host[i] = "none" /\ i \notin killed
        /\ \A u \in Launcher \ {t} : th[u].at = "fail" => th[u].inst # i
    <3>1. th[t].at = "spawn"
      BY <1>3 DEF SpawnHost
    <3>2. host[i] = "none"
      BY <2>1, <3>1 DEF IInv, Entries
    <3>3. i \notin killed
      BY <1>a, <3>2 DEF Signals, Alive
    <3>4. \A u \in Launcher : th[u].at \in Stage => lock[th[u].svc] = u /\ owner[th[u].inst] = th[u].svc
      BY DEF IInv, Threads
    <3> QED BY <2>1, <3>1, <3>2, <3>3, <3>4 DEF Stage
  <2>4. CASE Step(t, "fail") /\ UNCHANGED <<host, obs, killed>>
    BY <1>0, <1>a, <2>1, <2>2, <2>3, <2>4 DEF Signals, NoStrays, Alive, Step, Ths
  <2>5. CASE /\ Step(t, "observe") /\ host' = [host EXCEPT ![th[t].inst] = "running"]
             /\ UNCHANGED killed
    <3>1. th'[t].at = "observe" /\ Alive' = Alive \cup {i}
      BY <1>0, <2>1, <2>5 DEF Alive, Step, Ths
    <3> QED BY <1>a, <2>1, <2>2, <2>3, <2>5, <3>1 DEF Signals, NoStrays
  <2>6. CASE /\ Step(t, "fail") /\ host' = [host EXCEPT ![th[t].inst] = "running"]
             /\ killed' = killed \cup {th[t].inst}
    <3>1. th'[t].at = "fail" /\ Alive' = Alive \cup {i}
      BY <1>0, <2>1, <2>6 DEF Alive, Step, Ths
    <3> QED BY <1>a, <2>1, <2>2, <2>3, <2>6, <3>1 DEF Signals, NoStrays
  <2> QED BY <1>3, <2>4, <2>5, <2>6 DEF SpawnHost
<1>4. ASSUME NEW t \in Launcher, ManagerObserves(t) PROVE (Signals /\ NoStrays)'
  <2>1. /\ UNCHANGED <<owner, host, killed>>
        /\ th'[t].at = "insert" /\ \A u \in Launcher \ {t} : th'[u] = th[u]
        /\ \A u \in Launcher : th'[u].inst = th[u].inst
    BY <1>0, <1>4 DEF ManagerObserves, Step, Ths
  <2> QED BY <1>a, <2>1 DEF Signals, NoStrays, Alive
<1>5. ASSUME NEW t \in Launcher, ManagerInserts(t) PROVE (Signals /\ NoStrays)'
  <2>1. /\ UNCHANGED <<owner, host, killed>>
        /\ th'[t].at = "find" /\ \A u \in Launcher \ {t} : th'[u] = th[u]
        /\ \A u \in Launcher : th'[u].inst = th[u].inst
    BY <1>0, <1>5 DEF ManagerInserts, Step, Ths
  <2> QED BY <1>a, <2>1 DEF Signals, NoStrays, Alive
<1>6. ASSUME NEW t \in Launcher, FindProcess(t) PROVE (Signals /\ NoStrays)'
  <2>1. /\ UNCHANGED <<owner, host>>
        /\ \A u \in Launcher \ {t} : th'[u] = th[u]
        /\ \A u \in Launcher : th'[u].inst = th[u].inst
        /\ killed' \in {killed, killed \cup ({th[t].inst} \cap Alive)}
        /\ th'[t].at = "fail" => killed' = killed \cup ({th[t].inst} \cap Alive)
    <3>1. UNCHANGED <<owner, host>>
      BY <1>6 DEF FindProcess, procVars
    <3>2. CASE Step(t, "watch") /\ UNCHANGED killed
      BY <1>0, <3>1, <3>2 DEF Step, Ths
    <3>3. CASE Step(t, "fail") /\ killed' = killed \cup ({th[t].inst} \cap Alive)
      BY <1>0, <3>1, <3>3 DEF Step, Ths
    <3> QED BY <1>6, <3>2, <3>3, Zenon DEF FindProcess
  <2> QED BY <1>a, <2>1 DEF Signals, NoStrays, Alive
<1>7. ASSUME NEW t \in Launcher, Launched(t) PROVE (Signals /\ NoStrays)'
  <2>1. /\ UNCHANGED <<host, exit>> /\ Collect(owner, svc) /\ Terminate(owner)
        /\ th'[t] = Quiet /\ \A u \in Launcher \ {t} : th'[u] = th[u]
    BY <1>0, <1>7 DEF Launched
  <2>2. th[t].inst \in Inst /\ st[th[t].inst] = "running" /\ owner[th[t].inst] # None
    BY <1>7, LaunchAssumption DEF Launched, IInv, Threads, Stage
  <2>3. \A j \in Inst : st[j] = "launching" => \E u \in Launcher : th'[u].inst = j
    BY <2>1, <2>2 DEF IInv, Instances
  <2>4. /\ killed \subseteq killed' /\ killed' \subseteq Alive'
        /\ \A j \in Alive : owner[j] # None =>
              owner'[j] # None \/ j \in killed' \/ \E u \in Launcher : th'[u].inst = j
    BY <2>1, <2>3, Terminates
  <2>5. Alive' = Alive
    BY <2>1 DEF Alive
  <2>6. Signals'
    BY <1>a, <2>1, <2>4, <2>5 DEF Signals, Quiet
  <2>7. ASSUME NEW j \in Alive PROVE owner'[j] # None \/ j \in killed' \/ \E u \in Launcher : th'[u].inst = j
    <3>1. owner[j] # None \/ j \in killed \/ \E u \in Launcher : th[u].inst = j
      BY <1>a DEF NoStrays
    <3>2. owner[j] # None \/ j \in killed \/ \E u \in Launcher \ {t} : th[u].inst = j
      BY <2>2, <3>1
    <3> QED BY <2>1, <2>4, <3>2
  <2>8. NoStrays'
    BY <2>5, <2>7 DEF NoStrays
  <2> QED BY <2>6, <2>8
<1>8. ASSUME NEW t \in Launcher, LaunchFailed(t) PROVE (Signals /\ NoStrays)'
  <2>1. /\ UNCHANGED <<host, killed, loaded, timer, exit>>
        /\ th[t].at = "fail" /\ th[t].svc \in Svc /\ th[t].inst \in Inst
        /\ owner[th[t].inst] = th[t].svc
        /\ th'[t] = Quiet /\ \A u \in Launcher \ {t} : th'[u] = th[u]
        /\ \A j \in Inst \ {th[t].inst}, r \in Svc : owner[j] = r /\ Referenced(r)' => owner'[j] = r
    BY <1>8, LaunchFailedDoes
  <2>2. /\ th[t].inst \notin Alive \ killed
        /\ \A j \in Inst \ {th[t].inst} : owner[j] # th[t].svc
    BY <1>a, <2>1 DEF IInv, Signals, Tokens, Token
  <2>3. \A j \in Inst \ {th[t].inst}, r \in Svc : owner[j] = r => Referenced(r)'
    <3>1. \A j \in Inst \ {th[t].inst}, r \in Svc : owner[j] = r => Referenced(r) /\ r # th[t].svc
      BY <2>2 DEF IInv, Instances
    <3>2. \A r \in Svc : Referenced(r) /\ r # th[t].svc => Referenced(r)'
      BY <2>1 DEF Referenced
    <3> QED BY <3>1, <3>2
  <2>4. \A j \in Inst \ {th[t].inst} : owner[j] # None => owner'[j] # None
    BY <1>0, <2>1, <2>3, LaunchAssumption
  <2>5. Signals'
    BY <1>a, <2>1 DEF Signals, Alive, Quiet
  <2>6. NoStrays'
    BY <1>a, <2>1, <2>2, <2>4, LaunchAssumption DEF NoStrays, Alive
  <2> QED BY <2>5, <2>6
<1>9. ASSUME NEW i \in Inst, HostExit(i) PROVE (Signals /\ NoStrays)'
  <2>1. /\ UNCHANGED <<owner, th>> /\ killed' = killed \ {i} /\ host[i] = "running"
        /\ host'[i] # "running" /\ \A j \in Inst \ {i} : host'[j] = host[j]
    BY <1>0, <1>9 DEF HostExit
  <2> QED BY <1>a, <2>1 DEF Signals, NoStrays, Alive
<1>10. ASSUME NEW i \in Inst, Deliver(i) PROVE (Signals /\ NoStrays)'
  BY <1>0, <1>a, <1>10 DEF Deliver, Signals, NoStrays, Alive, svcVars, procVars, userVars
<1>11. ASSUME NEW i \in Inst, TellManager(i) PROVE (Signals /\ NoStrays)'
  BY <1>0, <1>a, <1>11 DEF TellManager, Signals, NoStrays, Alive, svcVars, procVars, userVars
<1>12. ASSUME NEW i \in Inst, TellInstance(i) PROVE (Signals /\ NoStrays)'
  BY <1>0, <1>a, <1>12 DEF TellInstance, Signals, NoStrays, Alive, svcVars, procVars, userVars
<1>13. ASSUME NEW i \in Inst, InstanceDidExit(i) PROVE (Signals /\ NoStrays)'
  <2>1. PICK s \in Svc :
         /\ owner[i] = s /\ s = exit[i].svc /\ exit[i].at = "delegate"
         /\ UNCHANGED <<loaded, killed, host>>
         /\ \A j \in Inst \ {i} : exit'[j] = exit[j]
         /\ \A j \in Inst \ {i}, r \in Svc : owner[j] = r /\ Referenced(r)' => owner'[j] = r
         /\ \A r \in Svc : r # s => timer'[r] = timer[r]
    <3>1. PICK s \in Svc, n \in 0 .. Limit + 1 :
         /\ owner[i] = s /\ s = exit[i].svc /\ exit[i].at = "delegate"
         /\ UNCHANGED <<loaded, killed, host>>
         /\ \A j \in Inst \ {i} : exit'[j] = exit[j]
         /\ \A j \in Inst \ {i}, r \in Svc : owner[j] = r /\ Referenced(r)' => owner'[j] = r
         /\ timer' = [timer EXCEPT ![s] = IF n > Limit THEN @ ELSE @ + 1]
      BY <1>13, InstanceDidExitDoes
    <3>2. \A r \in Svc : r # s => timer'[r] = timer[r]
      BY <1>0, <3>1
    <3> QED BY <3>1, <3>2
  <2>2. host[i] = "dead" /\ \A j \in Inst \ {i} : owner[j] # s
    BY <2>1 DEF IInv, Exits, Tokens, Token
  <2>3. UNCHANGED th
    BY <1>13 DEF InstanceDidExit
  <2>4. \A j \in Inst \ {i}, r \in Svc : owner[j] = r => Referenced(r)'
    <3>1. \A j \in Inst \ {i}, r \in Svc : owner[j] = r => Referenced(r) /\ r # s
      BY <2>2 DEF IInv, Instances
    <3>2. \A r \in Svc : Referenced(r) /\ r # s => Referenced(r)'
      BY <2>1, <2>3 DEF Referenced
    <3> QED BY <3>1, <3>2
  <2>5. \A j \in Inst \ {i} : owner[j] # None => owner'[j] # None
    BY <1>0, <2>1, <2>4, LaunchAssumption
  <2> QED BY <1>a, <2>1, <2>2, <2>3, <2>5 DEF Signals, NoStrays, Alive
<1>14. ASSUME NEW i \in Inst, Delivered(i) PROVE (Signals /\ NoStrays)'
  <2>1. /\ UNCHANGED <<owner, th, killed>>
        /\ host'[i] = "none" /\ \A j \in Inst \ {i} : host'[j] = host[j]
        /\ exit[i].at = "notify"
    BY <1>0, <1>14 DEF Delivered
  <2>2. host[i] = "dead"
    BY <2>1 DEF IInv, Exits
  <2> QED BY <1>a, <2>1, <2>2 DEF Signals, NoStrays, Alive
<1>15. ASSUME NEW s \in Svc, TimerFires(s) PROVE (Signals /\ NoStrays)'
  <2>1. /\ UNCHANGED <<owner, host, killed>> /\ th[Main].inst = None
        /\ th'[Main].at = "new" /\ th'[User] = th[User]
    BY <1>0, <1>15 DEF TimerFires, procVars, Launcher, User, Main, IInv, Threads
  <2> QED BY <1>a, <2>1, LaunchAssumption DEF Signals, NoStrays, Alive, Launcher
<1>16. CASE Boot
  BY <1>0, <1>a, <1>16 DEF Boot, Signals, NoStrays, Alive, svcVars, procVars, userVars
<1>17. CASE ReloadDaemons
  BY <1>0, <1>a, <1>17 DEF ReloadDaemons, Signals, NoStrays, Alive, svcVars, procVars, userVars
<1>18. CASE RebootBegin
  <2>1. UNCHANGED <<host, exit, th>> /\ Collect(owner, svc) /\ Terminate(owner)
    BY <1>18 DEF RebootBegin, procVars
  <2>2. \A j \in Inst : st[j] = "launching" => \E u \in Launcher : th'[u].inst = j
    BY <2>1 DEF IInv, Instances
  <2>3. /\ killed \subseteq killed' /\ killed' \subseteq Alive'
        /\ \A j \in Alive : owner[j] # None =>
              owner'[j] # None \/ j \in killed' \/ \E u \in Launcher : th'[u].inst = j
    BY <2>1, <2>2, Terminates
  <2>4. Alive' = Alive
    BY <2>1 DEF Alive
  <2>5. Signals'
    BY <1>a, <2>1, <2>3, <2>4 DEF Signals
  <2>6. NoStrays'
    BY <1>a, <2>1, <2>3, <2>4 DEF NoStrays
  <2> QED BY <2>5, <2>6
<1>19. CASE RebootKill
  BY <1>0, <1>a, <1>19 DEF RebootKill, Signals, NoStrays, Alive, svcVars, procVars, userVars
<1>20. CASE Reload
  <2>1. UNCHANGED <<host, exit, th>> /\ Collect(owner, svc) /\ Terminate(owner)
    BY <1>20 DEF Reload, procVars
  <2>2. \A j \in Inst : st[j] = "launching" => \E u \in Launcher : th'[u].inst = j
    BY <2>1 DEF IInv, Instances
  <2>3. /\ killed \subseteq killed' /\ killed' \subseteq Alive'
        /\ \A j \in Alive : owner[j] # None =>
              owner'[j] # None \/ j \in killed' \/ \E u \in Launcher : th'[u].inst = j
    BY <2>1, <2>2, Terminates
  <2>4. Alive' = Alive
    BY <2>1 DEF Alive
  <2>5. Signals'
    BY <1>a, <2>1, <2>3, <2>4 DEF Signals
  <2>6. NoStrays'
    BY <1>a, <2>1, <2>3, <2>4 DEF NoStrays
  <2> QED BY <2>5, <2>6
<1>21. CASE LoadNext
  <2>1. /\ UNCHANGED <<owner, host, killed>> /\ th[User].inst = None
        /\ th'[User].at = "new" /\ th'[Main] = th[Main]
    BY <1>0, <1>21 DEF LoadNext, procVars, Launcher, User, Main, IInv, Threads
  <2> QED BY <1>a, <2>1, LaunchAssumption DEF Signals, NoStrays, Alive, Launcher
<1>22. CASE LoadEnd
  BY <1>0, <1>a, <1>22 DEF LoadEnd, Signals, NoStrays, Alive, svcVars, procVars, userVars
<1> QED BY <1>1, <1>2, <1>3, <1>4, <1>5, <1>6, <1>7, <1>8, <1>9, <1>10, <1>11,
        <1>12, <1>13, <1>14, <1>15, <1>16, <1>17, <1>18, <1>19, <1>20, <1>21,
        <1>22
        DEF Next, Launch, Exiting, Userspace

-----------------------------------------------------------------------------
(* The list of services                                                    *)

\* Steps that neither load nor unload, and let the services in the list and in
\* the hands of User be.
LEMMA SameList ==
  ASSUME Loading, OneServicePerPlist, TypeOK, UNCHANGED <<phase, todo, loaded>>,
         \A s \in loaded : svc'[s].plist = svc[s].plist,
         \/ th'[User].at = "idle"
         \/ /\ th'[User].svc = th[User].svc /\ th[User].at # "idle"
            /\ svc'[th[User].svc].plist = svc[th[User].svc].plist
  PROVE  Loading' /\ OneServicePerPlist'
<1>1. Loading'
  BY DEF Loading
<1>2. OneServicePerPlist'
  BY DEF OneServicePerPlist
<1> QED BY <1>1, <1>2

\* A service is loaded when no other of its property list is.
LEMMA ListSteps == IInv /\ Next => (Loading /\ OneServicePerPlist)'
<1> SUFFICES ASSUME IInv, Next PROVE (Loading /\ OneServicePerPlist)'
  OBVIOUS
<1>0. /\ TypeOK
      /\ th \in [Launcher -> Ths] /\ exit \in [Inst -> Ends] /\ svc \in [Svc -> Svcs]
      /\ st \in [Inst -> Sts] /\ obs \in [Inst -> Obs]
      /\ loaded \subseteq Svc /\ timer \in [Svc -> Nat]
      /\ lock \in [Svc -> Launcher \cup {None}] /\ owner \in [Inst -> Svc \cup {None}]
      /\ host \in [Inst -> {"none", "running", "dead"}]
      /\ killed \subseteq Inst /\ dict \subseteq Inst /\ missed \subseteq Inst
      /\ todo \subseteq Plist
  BY Parts DEF IInv
<1>a. Loading /\ OneServicePerPlist
  BY DEF IInv
<1>1. ASSUME NEW t \in Launcher, NewInstance(t) PROVE (Loading /\ OneServicePerPlist)'
  <2>1. UNCHANGED <<phase, todo, loaded, svc>>
    BY <1>1 DEF NewInstance, svcVars, userVars
  <2>2. th'[User].svc = th[User].svc /\ (th'[User].at # "idle" => th[User].at # "idle")
    BY <1>0, <1>1 DEF NewInstance, Step, Ths, Launcher, User
  <2> QED BY <1>0, <1>a, <2>1, <2>2, SameList
<1>2. ASSUME NEW t \in Launcher, CountRefused(t) PROVE (Loading /\ OneServicePerPlist)'
  <2>1. /\ UNCHANGED <<phase, todo, loaded>>
        /\ th'[t] = Quiet /\ \A u \in Launcher \ {t} : th'[u] = th[u]
        /\ \A s \in Svc : Referenced(s)' => svc'[s].plist = svc[s].plist
    BY <1>0, <1>2, CountRefusedDoes
  <2>2. \A s \in loaded : svc'[s].plist = svc[s].plist
    BY <1>0, <2>1 DEF Referenced
  <2>3. th[User].at # "idle" => th[User].svc \in Svc
    BY <1>0 DEF IInv, Threads, Stage, Ths, Launcher
  <2>4. CASE t = User
    BY <1>0, <1>a, <2>1, <2>2, <2>4, SameList DEF Quiet
  <2>5. CASE t # User
    <3>1. th'[User] = th[User]
      BY <2>1, <2>5 DEF Launcher
    <3>2. \A s \in Svc : th[User].svc = s => svc'[s].plist = svc[s].plist
      BY <2>1, <3>1 DEF Referenced, Launcher
    <3> QED BY <1>0, <1>a, <2>1, <2>2, <2>3, <3>1, <3>2, SameList
  <2> QED BY <2>4, <2>5
<1>3. ASSUME NEW t \in Launcher, SpawnHost(t) PROVE (Loading /\ OneServicePerPlist)'
  <2>1. UNCHANGED <<phase, todo, loaded, svc>>
    BY <1>3 DEF SpawnHost, svcVars, userVars
  <2>2. th'[User].svc = th[User].svc /\ (th'[User].at # "idle" => th[User].at # "idle")
    BY <1>0, <1>3 DEF SpawnHost, Step, Ths, Launcher, User
  <2> QED BY <1>0, <1>a, <2>1, <2>2, SameList
<1>4. ASSUME NEW t \in Launcher, ManagerObserves(t) PROVE (Loading /\ OneServicePerPlist)'
  <2>1. UNCHANGED <<phase, todo, loaded, svc>>
    BY <1>4 DEF ManagerObserves, svcVars, userVars
  <2>2. th'[User].svc = th[User].svc /\ (th'[User].at # "idle" => th[User].at # "idle")
    BY <1>0, <1>4 DEF ManagerObserves, Step, Ths, Launcher, User
  <2> QED BY <1>0, <1>a, <2>1, <2>2, SameList
<1>5. ASSUME NEW t \in Launcher, ManagerInserts(t) PROVE (Loading /\ OneServicePerPlist)'
  <2>1. UNCHANGED <<phase, todo, loaded, svc>>
    BY <1>5 DEF ManagerInserts, svcVars, userVars
  <2>2. th'[User].svc = th[User].svc /\ (th'[User].at # "idle" => th[User].at # "idle")
    BY <1>0, <1>5 DEF ManagerInserts, Step, Ths, Launcher, User
  <2> QED BY <1>0, <1>a, <2>1, <2>2, SameList
<1>6. ASSUME NEW t \in Launcher, FindProcess(t) PROVE (Loading /\ OneServicePerPlist)'
  <2>1. UNCHANGED <<phase, todo, loaded, svc>>
    BY <1>6 DEF FindProcess, svcVars, userVars
  <2>2. th'[User].svc = th[User].svc /\ (th'[User].at # "idle" => th[User].at # "idle")
    BY <1>0, <1>6 DEF FindProcess, Step, Ths, Launcher, User
  <2> QED BY <1>0, <1>a, <2>1, <2>2, SameList
<1>7. ASSUME NEW t \in Launcher, Launched(t) PROVE (Loading /\ OneServicePerPlist)'
  <2>1. /\ UNCHANGED <<phase, todo>> /\ th[t].at = "watch"
        /\ loaded' = IF t = User THEN loaded \cup {th[t].svc} ELSE loaded
        /\ th'[t] = Quiet /\ \A u \in Launcher \ {t} : th'[u] = th[u]
        /\ \A s \in Svc : Referenced(s)' => svc'[s] = svc[s]
    BY <1>0, <1>7, CollectDoes DEF Launched, userVars
  <2>2. th[t].svc \in Svc
    BY <2>1 DEF IInv, Threads, Stage
  <2>3. \A s \in loaded' : svc'[s] = svc[s]
    BY <1>0, <2>1, <2>2 DEF Referenced
  <2>4. CASE t = User
    <3>1. /\ phase = "load" /\ svc[th[t].svc].plist \notin todo
          /\ \A s \in loaded : svc[s].plist # svc[th[t].svc].plist
      BY <1>a, <2>1, <2>4 DEF Loading
    <3>2. th'[User].at = "idle"
      BY <2>1, <2>4 DEF Quiet
    <3>3. Loading'
      BY <1>a, <2>1, <2>3, <2>4, <3>1, <3>2 DEF Loading
    <3>4. OneServicePerPlist'
      BY <1>a, <2>1, <2>3, <2>4, <3>1 DEF OneServicePerPlist
    <3> QED BY <3>3, <3>4
  <2>5. CASE t # User
    <3>1. th'[User] = th[User]
      BY <2>1, <2>5 DEF Launcher
    <3>2. \A s \in Svc : th[User].svc = s => svc'[s] = svc[s]
      BY <2>1, <3>1 DEF Referenced, Launcher
    <3>3. th[User].at # "idle" => th[User].svc \in Svc
      BY <1>0 DEF IInv, Threads, Stage, Ths, Launcher
    <3> QED BY <1>0, <1>a, <2>1, <2>3, <2>5, <3>1, <3>2, <3>3, SameList
  <2> QED BY <2>4, <2>5
<1>8. ASSUME NEW t \in Launcher, LaunchFailed(t) PROVE (Loading /\ OneServicePerPlist)'
  <2>1. /\ UNCHANGED <<phase, todo, loaded>>
        /\ th'[t] = Quiet /\ \A u \in Launcher \ {t} : th'[u] = th[u]
        /\ \A s \in Svc : Referenced(s)' => svc'[s].plist = svc[s].plist
    BY <1>0, <1>8, LaunchFailedDoes
  <2>2. \A s \in loaded : svc'[s].plist = svc[s].plist
    BY <1>0, <2>1 DEF Referenced
  <2>3. th[User].at # "idle" => th[User].svc \in Svc
    BY <1>0 DEF IInv, Threads, Stage, Ths, Launcher
  <2>4. CASE t = User
    BY <1>0, <1>a, <2>1, <2>2, <2>4, SameList DEF Quiet
  <2>5. CASE t # User
    <3>1. th'[User] = th[User]
      BY <2>1, <2>5 DEF Launcher
    <3>2. \A s \in Svc : th[User].svc = s => svc'[s].plist = svc[s].plist
      BY <2>1, <3>1 DEF Referenced, Launcher
    <3> QED BY <1>0, <1>a, <2>1, <2>2, <2>3, <3>1, <3>2, SameList
  <2> QED BY <2>4, <2>5
<1>9. ASSUME NEW i \in Inst, HostExit(i) PROVE (Loading /\ OneServicePerPlist)'
  <2>1. UNCHANGED <<phase, todo, loaded, svc, th>>
    BY <1>9 DEF HostExit, svcVars, userVars
  <2> QED BY <1>0, <1>a, <2>1, SameList
<1>10. ASSUME NEW i \in Inst, Deliver(i) PROVE (Loading /\ OneServicePerPlist)'
  <2>1. UNCHANGED <<phase, todo, loaded, svc, th>>
    BY <1>10 DEF Deliver, svcVars, userVars
  <2> QED BY <1>0, <1>a, <2>1, SameList
<1>11. ASSUME NEW i \in Inst, TellManager(i) PROVE (Loading /\ OneServicePerPlist)'
  <2>1. UNCHANGED <<phase, todo, loaded, svc, th>>
    BY <1>11 DEF TellManager, svcVars, userVars
  <2> QED BY <1>0, <1>a, <2>1, SameList
<1>12. ASSUME NEW i \in Inst, TellInstance(i) PROVE (Loading /\ OneServicePerPlist)'
  <2>1. UNCHANGED <<phase, todo, loaded, svc, th>>
    BY <1>12 DEF TellInstance, svcVars, userVars
  <2> QED BY <1>0, <1>a, <2>1, SameList
<1>13. ASSUME NEW i \in Inst, InstanceDidExit(i) PROVE (Loading /\ OneServicePerPlist)'
  <2>1. /\ UNCHANGED <<phase, todo, loaded>>
        /\ \A s \in Svc : Referenced(s)' => svc'[s].plist = svc[s].plist
    BY <1>13, InstanceDidExitDoes
  <2>2. UNCHANGED th
    BY <1>13 DEF InstanceDidExit
  <2>3. \A s \in loaded : svc'[s].plist = svc[s].plist
    BY <1>0, <2>1 DEF Referenced
  <2>4. \A s \in Svc : th[User].svc = s => svc'[s].plist = svc[s].plist
    BY <2>1, <2>2 DEF Referenced, Launcher
  <2>5. th[User].at # "idle" => th[User].svc \in Svc
    BY <1>0 DEF IInv, Threads, Stage, Ths, Launcher
  <2> QED BY <1>0, <1>a, <2>1, <2>2, <2>3, <2>4, <2>5, SameList
<1>14. ASSUME NEW i \in Inst, Delivered(i) PROVE (Loading /\ OneServicePerPlist)'
  <2>1. UNCHANGED <<phase, todo, loaded, svc, th>>
    BY <1>14 DEF Delivered, svcVars, userVars
  <2> QED BY <1>0, <1>a, <2>1, SameList
<1>15. ASSUME NEW s \in Svc, TimerFires(s) PROVE (Loading /\ OneServicePerPlist)'
  <2>1. UNCHANGED <<phase, todo, loaded, svc>> /\ th'[User] = th[User]
    BY <1>0, <1>15 DEF TimerFires, userVars, Launcher, User, Main
  <2> QED BY <1>0, <1>a, <2>1, SameList
<1>16. CASE Boot
  <2>1. UNCHANGED <<loaded, svc, th>>
    BY <1>16 DEF Boot, svcVars
  <2>2. th[User].at = "idle" /\ phase' # "off"
    BY <1>a, <1>16 DEF Boot, Loading
  <2>3. phase' = "load" => loaded = {}
    BY <1>a, <1>16 DEF Boot, Loading
  <2> QED BY <1>a, <2>1, <2>2, <2>3 DEF Loading, OneServicePerPlist
<1>17. CASE ReloadDaemons
  <2>1. UNCHANGED <<loaded, svc, th>>
    BY <1>17 DEF ReloadDaemons, svcVars
  <2>2. th[User].at = "idle" /\ phase' # "off"
    BY <1>a, <1>17 DEF ReloadDaemons, Loading
  <2>3. phase' = "load" => loaded = {}
    BY <1>a, <1>17 DEF ReloadDaemons, Loading
  <2> QED BY <1>a, <2>1, <2>2, <2>3 DEF Loading, OneServicePerPlist
<1>18. CASE RebootBegin
  <2>1. loaded' = {} /\ UNCHANGED th /\ phase # "load"
    BY <1>18 DEF RebootBegin
  <2>2. th'[User].at = "idle"
    BY <1>a, <2>1 DEF Loading
  <2> QED BY <2>1, <2>2 DEF Loading, OneServicePerPlist
<1>19. CASE RebootKill
  <2>1. UNCHANGED <<loaded, svc, th>>
    BY <1>19 DEF RebootKill, svcVars
  <2>2. th[User].at = "idle" /\ phase' # "off"
    BY <1>a, <1>19 DEF RebootKill, Loading
  <2>3. phase' = "load" => loaded = {}
    BY <1>a, <1>19 DEF RebootKill, Loading
  <2> QED BY <1>a, <2>1, <2>2, <2>3 DEF Loading, OneServicePerPlist
<1>20. CASE Reload
  <2>1. loaded' = {} /\ UNCHANGED th /\ phase # "load"
    BY <1>20 DEF Reload
  <2>2. th'[User].at = "idle"
    BY <1>a, <2>1 DEF Loading
  <2> QED BY <2>1, <2>2 DEF Loading, OneServicePerPlist
<1>21. CASE LoadNext
  <2>1. PICK p \in todo, s \in Svc :
       /\ ~Referenced(s) /\ todo' = todo \ {p}
       /\ svc' = [svc EXCEPT ![s] = [plist |-> p, fails |-> 0, refused |-> FALSE]]
       /\ th' = [th EXCEPT ![User] = [at |-> "new", svc |-> s, inst |-> None]]
    BY <1>21 DEF LoadNext
  <2>2. UNCHANGED <<loaded, phase>> /\ phase = "load" /\ s \notin loaded
    BY <1>21, <2>1 DEF LoadNext, Referenced
  <2>3. /\ svc'[s].plist = p /\ \A r \in loaded : svc'[r] = svc[r]
        /\ th'[User].svc = s
    BY <1>0, <2>1, <2>2 DEF Launcher
  <2>4. \A r \in loaded : svc'[r].plist \notin todo
    BY <1>a, <2>2, <2>3 DEF Loading
  <2>5. Loading'
    BY <2>1, <2>2, <2>3, <2>4 DEF Loading
  <2>6. OneServicePerPlist'
    BY <1>a, <2>2, <2>3 DEF OneServicePerPlist
  <2> QED BY <2>5, <2>6
<1>22. CASE LoadEnd
  <2>1. UNCHANGED <<loaded, svc, th>>
    BY <1>22 DEF LoadEnd, svcVars
  <2>2. th[User].at = "idle" /\ phase' # "off"
    BY <1>a, <1>22 DEF LoadEnd, Loading
  <2>3. phase' = "load" => loaded = {}
    BY <1>a, <1>22 DEF LoadEnd, Loading
  <2> QED BY <1>a, <2>1, <2>2, <2>3 DEF Loading, OneServicePerPlist
<1> QED BY <1>1, <1>2, <1>3, <1>4, <1>5, <1>6, <1>7, <1>8, <1>9, <1>10, <1>11,
        <1>12, <1>13, <1>14, <1>15, <1>16, <1>17, <1>18, <1>19, <1>20, <1>21,
        <1>22
        DEF Next, Launch, Exiting, Userspace

-----------------------------------------------------------------------------
(* The manager's dictionary                                                *)

\* Two launchers have two instances in their hands.
LEMMA Apart ==
  Threads => \A t, u \in Launcher :
    th[t].at \in Stage /\ th[u].at \in Stage /\ th[t].inst = th[u].inst => t = u
BY DEF Threads

\* Steps of one launcher that change nothing of the deliveries.
LEMMA LauncherOnly ==
  ASSUME Entries, NEW t \in Launcher, UNCHANGED <<host, obs, dict, exit, missed>>,
         \A u \in Launcher \ {t} : th'[u] = th[u],
         \/ th'[t].at \notin Stage
         \/ /\ th[t].at \in {"spawn", "find"} /\ th'[t].inst = th[t].inst
            /\ \/ th'[t].at = "fail"
               \/ th[t].at = "find" /\ th'[t].at = "watch"
  PROVE  Entries'
<1>1. \A i \in dict' : i \notin missed' =>
       /\ Watched(i)'
       /\ exit'[i].at = "none" => "manager" \in obs'[i]
       /\ exit'[i].at # "none" => "manager" \in exit'[i].left
  BY DEF Entries, Watched
<1>2. \A u \in Launcher : th'[u].at \in Stage =>
        /\ th'[u].inst = th[u].inst /\ th[u].at \in Stage
        /\ \/ th'[u].at \in {th[u].at, "fail"}
           \/ th[u].at = "find" /\ th'[u].at = "watch"
  BY DEF Stage
<1>3. /\ \A u \in Launcher : th'[u].at \in Stage =>
           "instance" \notin obs'[th'[u].inst] \cup exit'[th'[u].inst].left
      /\ \A u \in Launcher : th'[u].at \in {"spawn", "observe", "insert"} =>
           th'[u].inst \notin dict'
      /\ \A u \in Launcher : th'[u].at = "spawn" => host'[th'[u].inst] = "none"
  BY <1>2 DEF Entries, Stage
<1>4. \A u \in Launcher :
        th'[u].at \in {"observe", "insert", "find", "watch"} /\ th'[u].inst \notin missed' =>
          /\ Watched(th[u].inst) /\ exit[th[u].inst].at = "none"
          /\ th'[u].at = "insert" => "manager" \in obs[th[u].inst]
  BY <1>2 DEF Entries, Stage
<1>5. \A u \in Launcher :
        th'[u].at \in {"observe", "insert", "find", "watch"} /\ th'[u].inst \notin missed' =>
          /\ "front" \in obs'[th'[u].inst] /\ host'[th'[u].inst] # "none"
          /\ exit'[th'[u].inst].at = "none"
          /\ th'[u].at = "insert" => "manager" \in obs'[th'[u].inst]
  BY <1>2, <1>4 DEF Watched, Stage
<1> QED BY <1>1, <1>3, <1>5 DEF Entries, Watched

\* Every entry of the dictionary has its exit before it.
LEMMA EntrySteps == IInv /\ Next => Entries'
<1> SUFFICES ASSUME IInv, Next PROVE Entries'
  OBVIOUS
<1>0. /\ TypeOK
      /\ th \in [Launcher -> Ths] /\ exit \in [Inst -> Ends] /\ svc \in [Svc -> Svcs]
      /\ st \in [Inst -> Sts] /\ obs \in [Inst -> Obs]
      /\ loaded \subseteq Svc /\ timer \in [Svc -> Nat]
      /\ lock \in [Svc -> Launcher \cup {None}] /\ owner \in [Inst -> Svc \cup {None}]
      /\ host \in [Inst -> {"none", "running", "dead"}]
      /\ killed \subseteq Inst /\ dict \subseteq Inst /\ missed \subseteq Inst
      /\ todo \subseteq Plist
  BY Parts DEF IInv
<1>a. Entries
  BY DEF IInv
<1>1. ASSUME NEW t \in Launcher, NewInstance(t) PROVE Entries'
  <2>1. PICK i \in Inst :
          /\ Fresh(i)
          /\ missed' = missed \ {i} /\ obs' = [obs EXCEPT ![i] = {}]
          /\ th' = [th EXCEPT ![t].at = "spawn", ![t].inst = i]
    BY <1>1 DEF NewInstance
  <2>2. /\ host[i] = "none" /\ i \notin dict /\ "instance" \notin exit[i].left
        /\ \A u \in Launcher : th[u].inst # i
    BY <2>1 DEF Fresh, InstanceAlive
  <2>3. UNCHANGED <<host, dict, exit>>
    BY <1>1 DEF NewInstance
  <2>4. /\ th'[t].at = "spawn" /\ th'[t].inst = i
        /\ \A u \in Launcher \ {t} : th'[u] = th[u]
        /\ obs'[i] = {} /\ \A j \in Inst \ {i} : obs'[j] = obs[j]
    BY <1>0, <2>1 DEF Ths
  <2>5. \A u \in Launcher : th[u].at \in Stage => th[u].inst \in Inst
    BY DEF IInv, Threads
  <2>6. \A j \in dict : j \notin missed' =>
       /\ Watched(j)'
       /\ exit'[j].at = "none" => "manager" \in obs'[j]
       /\ exit'[j].at # "none" => "manager" \in exit'[j].left
    BY <1>0, <1>a, <2>1, <2>2, <2>3, <2>4 DEF Entries, Watched
  <2>7. \A u \in Launcher \ {t} : th[u].at \in Stage =>
          "instance" \notin obs'[th[u].inst] \cup exit[th[u].inst].left
    BY <1>a, <2>2, <2>4, <2>5 DEF Entries
  <2>8. \A u \in Launcher \ {t} :
          th[u].at \in {"observe", "insert", "find", "watch"} /\ th[u].inst \notin missed' =>
            /\ "front" \in obs'[th[u].inst] /\ host[th[u].inst] # "none"
            /\ exit[th[u].inst].at = "none"
            /\ th[u].at = "insert" => "manager" \in obs'[th[u].inst]
    BY <1>a, <2>1, <2>2, <2>4, <2>5 DEF Entries, Stage, Watched
  <2>9. \A u \in Launcher : th'[u].at \in Stage =>
          "instance" \notin obs'[th'[u].inst] \cup exit'[th'[u].inst].left
    BY <2>2, <2>3, <2>4, <2>7
  <2>10. \A u \in Launcher :
          th'[u].at \in {"observe", "insert", "find", "watch"} /\ th'[u].inst \notin missed' =>
            /\ "front" \in obs'[th'[u].inst] /\ host'[th'[u].inst] # "none"
            /\ exit'[th'[u].inst].at = "none"
            /\ th'[u].at = "insert" => "manager" \in obs'[th'[u].inst]
    BY <2>3, <2>4, <2>8
  <2>11. /\ \A u \in Launcher : th'[u].at \in {"spawn", "observe", "insert"} => th'[u].inst \notin dict'
         /\ \A u \in Launcher : th'[u].at = "spawn" => host'[th'[u].inst] = "none"
    BY <1>a, <2>2, <2>3, <2>4 DEF Entries
  <2> QED BY <2>3, <2>6, <2>9, <2>10, <2>11 DEF Entries, Watched
<1>2. ASSUME NEW t \in Launcher, CountRefused(t) PROVE Entries'
  <2>1. /\ UNCHANGED <<host, obs, dict, exit, missed>>
        /\ th'[t] = Quiet /\ \A u \in Launcher \ {t} : th'[u] = th[u]
    BY <1>2, CountRefusedDoes
  <2> QED BY <1>a, <2>1, LauncherOnly DEF Quiet, Stage
<1>3. ASSUME NEW t \in Launcher, SpawnHost(t) PROVE Entries'
  <2>1. PICK i \in Inst : i = th[t].inst
    BY <1>3 DEF SpawnHost, IInv, Threads, Stage
  <2>2. th[t].at = "spawn" /\ UNCHANGED <<exit, missed>>
    BY <1>3 DEF SpawnHost, procVars
  <2>3. \A u \in Launcher \ {t} : th[u].at \in Stage => th[u].inst \in Inst \ {i}
    BY <2>1, <2>2, Apart DEF IInv, Threads, Stage
  <2>4. /\ \A u \in Launcher \ {t} : th'[u] = th[u]
        /\ \A j \in Inst \ {i} : host'[j] = host[j] /\ obs'[j] = obs[j]
        /\ th'[t].at \in {"fail", "observe"} /\ th'[t].inst = i
        /\ \A j \in dict' : j \in dict 
    BY <1>0, <1>3, <2>1 DEF SpawnHost, Step, Ths
  <2>5. /\ i \notin dict /\ exit[i].at = "none" /\ exit[i].left = {}
        /\ "instance" \notin obs'[i]
        /\ th'[t].at = "observe" => "front" \in obs'[i] /\ host'[i] # "none"
    <3>1. /\ i \notin dict /\ host[i] = "none" /\ "instance" \notin obs[i]
      BY <1>a, <2>1, <2>2 DEF Entries, Stage
    <3>2. exit[i].at = "none" /\ exit[i].left = {}
      BY <3>1 DEF IInv, Exits
    <3>3. obs'[i] \in {obs[i], {"front"}}
      BY <1>0, <1>3, <2>1 DEF SpawnHost
    <3>4. th'[t].at = "observe" => "front" \in obs'[i] /\ host'[i] # "none"
      BY <1>0, <1>3, <2>1 DEF SpawnHost, Step, Ths
    <3> QED BY <3>1, <3>2, <3>3, <3>4

  <2>6. /\ \A u \in Launcher \ {t} : th[u].at \in Stage =>
             "instance" \notin obs'[th[u].inst] \cup exit[th[u].inst].left
        /\ \A u \in Launcher \ {t} : th[u].at \in {"spawn", "observe", "insert"} => th[u].inst \notin dict'
        /\ \A u \in Launcher \ {t} : th[u].at = "spawn" => host'[th[u].inst] = "none"
    BY <1>a, <2>3, <2>4 DEF Entries, Stage
  <2>7. \A u \in Launcher \ {t} :
          th[u].at \in {"observe", "insert", "find", "watch"} /\ th[u].inst \notin missed =>
            /\ "front" \in obs'[th[u].inst] /\ host'[th[u].inst] # "none"
            /\ exit[th[u].inst].at = "none"
            /\ th[u].at = "insert" => "manager" \in obs'[th[u].inst]
    BY <1>a, <2>3, <2>4 DEF Entries, Stage, Watched
  <2>8. \A u \in Launcher : th'[u].at \in Stage =>
          "instance" \notin obs'[th'[u].inst] \cup exit'[th'[u].inst].left
    BY <2>1, <2>2, <2>4, <2>5, <2>6
  <2>9. \A u \in Launcher :
          th'[u].at \in {"observe", "insert", "find", "watch"} /\ th'[u].inst \notin missed' =>
            /\ "front" \in obs'[th'[u].inst] /\ host'[th'[u].inst] # "none"
            /\ exit'[th'[u].inst].at = "none"
            /\ th'[u].at = "insert" => "manager" \in obs'[th'[u].inst]
    BY <2>1, <2>2, <2>4, <2>5, <2>7
  <2>10. /\ \A u \in Launcher : th'[u].at \in {"spawn", "observe", "insert"} => th'[u].inst \notin dict'
         /\ \A u \in Launcher : th'[u].at = "spawn" => host'[th'[u].inst] = "none"
    BY <2>1, <2>2, <2>4, <2>5, <2>6
  <2>11. \A j \in dict' : j \notin missed' =>
       /\ "front" \in obs'[j] /\ host'[j] # "none"
       /\ exit'[j].at = "none" => "manager" \in obs'[j]
       /\ exit'[j].at # "none" => "manager" \in exit'[j].left
    BY <1>0, <1>a, <2>1, <2>2, <2>4, <2>5 DEF Entries, Watched
  <2> QED BY <2>8, <2>9, <2>10, <2>11 DEF Entries, Watched
<1>4. ASSUME NEW t \in Launcher, ManagerObserves(t) PROVE Entries'
  <2>1. PICK i \in Inst : i = th[t].inst
    BY <1>4 DEF ManagerObserves, IInv, Threads, Stage
  <2>2. th[t].at = "observe" /\ UNCHANGED <<exit, missed>>
    BY <1>4 DEF ManagerObserves, procVars
  <2>3. \A u \in Launcher \ {t} : th[u].at \in Stage => th[u].inst \in Inst \ {i}
    BY <2>1, <2>2, Apart DEF IInv, Threads, Stage
  <2>4. /\ \A u \in Launcher \ {t} : th'[u] = th[u]
        /\ \A j \in Inst \ {i} : host'[j] = host[j] /\ obs'[j] = obs[j]
        /\ th'[t].at \in {"insert"} /\ th'[t].inst = i
        /\ \A j \in dict' : j \in dict 
    BY <1>0, <1>4, <2>1 DEF ManagerObserves, Step, Ths
  <2>5. /\ i \notin dict /\ "instance" \notin obs'[i] \cup exit[i].left
        /\ i \notin missed => /\ "front" \in obs'[i] /\ host'[i] # "none" /\ exit[i].at = "none"
                              /\ "manager" \in obs'[i]
    <3>1. obs'[i] = obs[i] \cup {"manager"} /\ UNCHANGED host
      BY <1>0, <1>4, <2>1 DEF ManagerObserves
    <3> QED BY <1>a, <2>1, <2>2, <3>1 DEF Entries, Stage, Watched

  <2>6. /\ \A u \in Launcher \ {t} : th[u].at \in Stage =>
             "instance" \notin obs'[th[u].inst] \cup exit[th[u].inst].left
        /\ \A u \in Launcher \ {t} : th[u].at \in {"spawn", "observe", "insert"} => th[u].inst \notin dict'
        /\ \A u \in Launcher \ {t} : th[u].at = "spawn" => host'[th[u].inst] = "none"
    BY <1>a, <2>3, <2>4 DEF Entries, Stage
  <2>7. \A u \in Launcher \ {t} :
          th[u].at \in {"observe", "insert", "find", "watch"} /\ th[u].inst \notin missed =>
            /\ "front" \in obs'[th[u].inst] /\ host'[th[u].inst] # "none"
            /\ exit[th[u].inst].at = "none"
            /\ th[u].at = "insert" => "manager" \in obs'[th[u].inst]
    BY <1>a, <2>3, <2>4 DEF Entries, Stage, Watched
  <2>8. \A u \in Launcher : th'[u].at \in Stage =>
          "instance" \notin obs'[th'[u].inst] \cup exit'[th'[u].inst].left
    BY <2>1, <2>2, <2>4, <2>5, <2>6
  <2>9. \A u \in Launcher :
          th'[u].at \in {"observe", "insert", "find", "watch"} /\ th'[u].inst \notin missed' =>
            /\ "front" \in obs'[th'[u].inst] /\ host'[th'[u].inst] # "none"
            /\ exit'[th'[u].inst].at = "none"
            /\ th'[u].at = "insert" => "manager" \in obs'[th'[u].inst]
    BY <2>1, <2>2, <2>4, <2>5, <2>7
  <2>10. /\ \A u \in Launcher : th'[u].at \in {"spawn", "observe", "insert"} => th'[u].inst \notin dict'
         /\ \A u \in Launcher : th'[u].at = "spawn" => host'[th'[u].inst] = "none"
    BY <2>1, <2>2, <2>4, <2>5, <2>6
  <2>11. \A j \in dict' : j \notin missed' =>
       /\ "front" \in obs'[j] /\ host'[j] # "none"
       /\ exit'[j].at = "none" => "manager" \in obs'[j]
       /\ exit'[j].at # "none" => "manager" \in exit'[j].left
    BY <1>0, <1>a, <2>1, <2>2, <2>4, <2>5 DEF Entries, Watched
  <2> QED BY <2>8, <2>9, <2>10, <2>11 DEF Entries, Watched
<1>5. ASSUME NEW t \in Launcher, ManagerInserts(t) PROVE Entries'
  <2>1. PICK i \in Inst : i = th[t].inst
    BY <1>5 DEF ManagerInserts, IInv, Threads, Stage
  <2>2. th[t].at = "insert" /\ UNCHANGED <<exit, missed>>
    BY <1>5 DEF ManagerInserts, procVars
  <2>3. \A u \in Launcher \ {t} : th[u].at \in Stage => th[u].inst \in Inst \ {i}
    BY <2>1, <2>2, Apart DEF IInv, Threads, Stage
  <2>4. /\ \A u \in Launcher \ {t} : th'[u] = th[u]
        /\ \A j \in Inst \ {i} : host'[j] = host[j] /\ obs'[j] = obs[j]
        /\ th'[t].at \in {"find"} /\ th'[t].inst = i
        /\ \A j \in dict' : j \in dict \/ j = i
    BY <1>0, <1>5, <2>1 DEF ManagerInserts, Step, Ths
  <2>5. /\ UNCHANGED <<obs, host>> /\ "instance" \notin obs[i] \cup exit[i].left
        /\ i \notin missed => /\ "front" \in obs[i] /\ host[i] # "none" /\ exit[i].at = "none"
                              /\ "manager" \in obs[i]
    BY <1>a, <1>5, <2>1, <2>2 DEF ManagerInserts, Entries, Stage, Watched

  <2>6. /\ \A u \in Launcher \ {t} : th[u].at \in Stage =>
             "instance" \notin obs'[th[u].inst] \cup exit[th[u].inst].left
        /\ \A u \in Launcher \ {t} : th[u].at \in {"spawn", "observe", "insert"} => th[u].inst \notin dict'
        /\ \A u \in Launcher \ {t} : th[u].at = "spawn" => host'[th[u].inst] = "none"
    BY <1>a, <2>3, <2>4 DEF Entries, Stage
  <2>7. \A u \in Launcher \ {t} :
          th[u].at \in {"observe", "insert", "find", "watch"} /\ th[u].inst \notin missed =>
            /\ "front" \in obs'[th[u].inst] /\ host'[th[u].inst] # "none"
            /\ exit[th[u].inst].at = "none"
            /\ th[u].at = "insert" => "manager" \in obs'[th[u].inst]
    BY <1>a, <2>3, <2>4 DEF Entries, Stage, Watched
  <2>8. \A u \in Launcher : th'[u].at \in Stage =>
          "instance" \notin obs'[th'[u].inst] \cup exit'[th'[u].inst].left
    BY <2>1, <2>2, <2>4, <2>5, <2>6
  <2>9. \A u \in Launcher :
          th'[u].at \in {"observe", "insert", "find", "watch"} /\ th'[u].inst \notin missed' =>
            /\ "front" \in obs'[th'[u].inst] /\ host'[th'[u].inst] # "none"
            /\ exit'[th'[u].inst].at = "none"
            /\ th'[u].at = "insert" => "manager" \in obs'[th'[u].inst]
    BY <2>1, <2>2, <2>4, <2>5, <2>7
  <2>10. /\ \A u \in Launcher : th'[u].at \in {"spawn", "observe", "insert"} => th'[u].inst \notin dict'
         /\ \A u \in Launcher : th'[u].at = "spawn" => host'[th'[u].inst] = "none"
    BY <2>1, <2>2, <2>4, <2>5, <2>6
  <2>11. \A j \in dict' : j \notin missed' =>
       /\ "front" \in obs'[j] /\ host'[j] # "none"
       /\ exit'[j].at = "none" => "manager" \in obs'[j]
       /\ exit'[j].at # "none" => "manager" \in exit'[j].left
    BY <1>0, <1>a, <2>1, <2>2, <2>4, <2>5 DEF Entries, Watched
  <2> QED BY <2>8, <2>9, <2>10, <2>11 DEF Entries, Watched
<1>6. ASSUME NEW t \in Launcher, FindProcess(t) PROVE Entries'
  <2>1. /\ UNCHANGED <<host, obs, dict, exit, missed>> /\ th[t].at = "find"
        /\ \A u \in Launcher \ {t} : th'[u] = th[u]
        /\ th'[t].inst = th[t].inst /\ th'[t].at \in {"watch", "fail"}
    BY <1>0, <1>6 DEF FindProcess, procVars, Step, Ths
  <2> QED BY <1>a, <2>1, LauncherOnly
<1>7. ASSUME NEW t \in Launcher, Launched(t) PROVE Entries'
  <2>1. PICK i \in Inst : i = th[t].inst
    BY <1>7 DEF Launched, IInv, Threads, Stage
  <2>2. th[t].at = "watch" /\ UNCHANGED <<host, dict, exit, missed>>
    BY <1>7 DEF Launched
  <2>3. \A u \in Launcher \ {t} : th[u].at \in Stage => th[u].inst \in Inst \ {i}
    BY <2>1, <2>2, Apart DEF IInv, Threads, Stage
  <2>4. /\ th'[t] = Quiet /\ \A u \in Launcher \ {t} : th'[u] = th[u]
        /\ \A j \in Inst \ {i} : obs'[j] = obs[j]
        /\ \A j \in Inst : obs[j] \subseteq obs'[j]
    BY <1>0, <1>7, <2>1 DEF Launched
  <2>5. \A u \in Launcher : th'[u].at \in Stage => u # t /\ th'[u] = th[u]
    BY <2>4 DEF Quiet, Stage
  <2>6. \A u \in Launcher : th'[u].at \in Stage =>
          "instance" \notin obs'[th'[u].inst] \cup exit'[th'[u].inst].left
    BY <1>a, <2>2, <2>3, <2>4, <2>5 DEF Entries
  <2>7. \A u \in Launcher :
          th'[u].at \in {"observe", "insert", "find", "watch"} /\ th'[u].inst \notin missed' =>
            /\ "front" \in obs'[th'[u].inst] /\ host'[th'[u].inst] # "none"
            /\ exit'[th'[u].inst].at = "none"
            /\ th'[u].at = "insert" => "manager" \in obs'[th'[u].inst]
    BY <1>a, <2>2, <2>3, <2>4, <2>5 DEF Entries, Stage, Watched
  <2>8. /\ \A u \in Launcher : th'[u].at \in {"spawn", "observe", "insert"} => th'[u].inst \notin dict'
        /\ \A u \in Launcher : th'[u].at = "spawn" => host'[th'[u].inst] = "none"
    BY <1>a, <2>2, <2>5 DEF Entries, Stage
  <2>9. \A j \in dict' : j \notin missed' =>
       /\ "front" \in obs'[j] /\ host'[j] # "none"
       /\ exit'[j].at = "none" => "manager" \in obs'[j]
       /\ exit'[j].at # "none" => "manager" \in exit'[j].left
    BY <1>0, <1>a, <2>2, <2>4 DEF Entries, Watched
  <2> QED BY <2>6, <2>7, <2>8, <2>9 DEF Entries, Watched
<1>8. ASSUME NEW t \in Launcher, LaunchFailed(t) PROVE Entries'
  <2>1. /\ UNCHANGED <<host, obs, dict, exit, missed>>
        /\ th'[t] = Quiet /\ \A u \in Launcher \ {t} : th'[u] = th[u]
    BY <1>8, LaunchFailedDoes
  <2> QED BY <1>a, <2>1, LauncherOnly DEF Quiet, Stage
<1>9. ASSUME NEW i \in Inst, HostExit(i) PROVE Entries'
  <2>1. /\ UNCHANGED <<obs, dict, exit, missed, th>> /\ host[i] = "running"
        /\ host'[i] = (IF "front" \in obs[i] THEN "dead" ELSE "none")
        /\ \A j \in Inst \ {i} : host'[j] = host[j]
    BY <1>0, <1>9 DEF HostExit, procVars, Ends, NoExit
  <2>2. \A u \in Launcher : th[u].at \in Stage => th[u].inst \in Inst
    BY DEF IInv, Threads
  <2>4. \A j \in dict' : j \notin missed' =>
       /\ "front" \in obs'[j] /\ host'[j] # "none"
       /\ exit'[j].at = "none" => "manager" \in obs'[j]
       /\ exit'[j].at # "none" => "manager" \in exit'[j].left
    BY <1>0, <1>a, <2>1 DEF Entries, Watched
  <2>5. \A u \in Launcher : th[u].at \in Stage =>
          "instance" \notin obs'[th[u].inst] \cup exit'[th[u].inst].left
    BY <1>a, <2>1, <2>2 DEF Entries
  <2>6. \A u \in Launcher :
          th[u].at \in {"observe", "insert", "find", "watch"} /\ th[u].inst \notin missed' =>
            /\ "front" \in obs'[th[u].inst] /\ host'[th[u].inst] # "none"
            /\ exit'[th[u].inst].at = "none"
            /\ th[u].at = "insert" => "manager" \in obs'[th[u].inst]
    BY <1>a, <2>1, <2>2 DEF Entries, Stage, Watched
  <2>7. /\ \A u \in Launcher : th[u].at \in {"spawn", "observe", "insert"} => th[u].inst \notin dict'
        /\ \A u \in Launcher : th[u].at = "spawn" => host'[th[u].inst] = "none"
    BY <1>a, <2>1, <2>2 DEF Entries, Stage
  <2> QED BY <2>1, <2>4, <2>5, <2>6, <2>7 DEF Entries, Watched
<1>10. ASSUME NEW i \in Inst, Deliver(i) PROVE Entries'
  <2>1. /\ UNCHANGED <<obs, host, dict, th>> /\ exit[i].at = "none"
        /\ exit'[i].at = "notify" /\ \A j \in Inst \ {i} : exit'[j] = exit[j]
        /\ exit'[i].left = {o \in obs[i] \ {"front"} : o = "instance" => InstanceAlive(i)}
        /\ missed' = IF "instance" \in obs[i] THEN missed ELSE missed \cup {i}
    BY <1>0, <1>10 DEF Deliver, procVars, Ends, NoExit
  <2>2. \A u \in Launcher : th[u].at \in Stage => th[u].inst \in Inst
    BY DEF IInv, Threads
  <2>3. /\ "manager" \in obs[i] => "manager" \in exit'[i].left
        /\ "instance" \notin obs[i] => "instance" \notin exit'[i].left /\ i \in missed'
        /\ missed \subseteq missed'
    BY <2>1
  <2>4. \A j \in dict' : j \notin missed' =>
       /\ "front" \in obs'[j] /\ host'[j] # "none"
       /\ exit'[j].at = "none" => "manager" \in obs'[j]
       /\ exit'[j].at # "none" => "manager" \in exit'[j].left
    BY <1>0, <1>a, <2>1, <2>3 DEF Entries, Watched
  <2>5. \A u \in Launcher : th[u].at \in Stage =>
          "instance" \notin obs'[th[u].inst] \cup exit'[th[u].inst].left
    BY <1>a, <2>1, <2>2, <2>3 DEF Entries
  <2>6. \A u \in Launcher :
          th[u].at \in {"observe", "insert", "find", "watch"} /\ th[u].inst \notin missed' =>
            /\ "front" \in obs'[th[u].inst] /\ host'[th[u].inst] # "none"
            /\ exit'[th[u].inst].at = "none"
            /\ th[u].at = "insert" => "manager" \in obs'[th[u].inst]
    BY <1>a, <2>1, <2>2, <2>3 DEF Entries, Stage, Watched
  <2>7. /\ \A u \in Launcher : th[u].at \in {"spawn", "observe", "insert"} => th[u].inst \notin dict'
        /\ \A u \in Launcher : th[u].at = "spawn" => host'[th[u].inst] = "none"
    BY <1>a, <2>1, <2>2, <2>3 DEF Entries, Stage
  <2> QED BY <2>1, <2>4, <2>5, <2>6, <2>7 DEF Entries, Watched
<1>11. ASSUME NEW i \in Inst, TellManager(i) PROVE Entries'
  <2>1. /\ UNCHANGED <<host, missed, th>> /\ exit[i].at = "notify" /\ exit'[i].at = "notify"
        /\ exit'[i].left = exit[i].left \ {"manager"} /\ obs'[i] = obs[i] \ {"manager"}
        /\ \A j \in Inst \ {i} : exit'[j] = exit[j] /\ obs'[j] = obs[j]
        /\ dict' = dict \ {i}
    BY <1>0, <1>11 DEF TellManager, procVars, Ends, NoExit
  <2>2. \A u \in Launcher : th[u].at \in Stage => th[u].inst \in Inst
    BY DEF IInv, Threads
  <2>4. \A j \in dict' : j \notin missed' =>
       /\ "front" \in obs'[j] /\ host'[j] # "none"
       /\ exit'[j].at = "none" => "manager" \in obs'[j]
       /\ exit'[j].at # "none" => "manager" \in exit'[j].left
    BY <1>0, <1>a, <2>1 DEF Entries, Watched
  <2>5. \A u \in Launcher : th[u].at \in Stage =>
          "instance" \notin obs'[th[u].inst] \cup exit'[th[u].inst].left
    BY <1>a, <2>1, <2>2 DEF Entries
  <2>6. \A u \in Launcher :
          th[u].at \in {"observe", "insert", "find", "watch"} /\ th[u].inst \notin missed' =>
            /\ "front" \in obs'[th[u].inst] /\ host'[th[u].inst] # "none"
            /\ exit'[th[u].inst].at = "none"
            /\ th[u].at = "insert" => "manager" \in obs'[th[u].inst]
    BY <1>a, <2>1, <2>2 DEF Entries, Stage, Watched
  <2>7. /\ \A u \in Launcher : th[u].at \in {"spawn", "observe", "insert"} => th[u].inst \notin dict'
        /\ \A u \in Launcher : th[u].at = "spawn" => host'[th[u].inst] = "none"
    BY <1>a, <2>1, <2>2 DEF Entries, Stage
  <2> QED BY <2>1, <2>4, <2>5, <2>6, <2>7 DEF Entries, Watched
<1>12. ASSUME NEW i \in Inst, TellInstance(i) PROVE Entries'
  <2>1. /\ UNCHANGED <<host, missed, th, dict>> /\ exit[i].at = "notify" /\ exit'[i].at # "none"
        /\ exit'[i].left = exit[i].left \ {"instance"} /\ obs'[i] = obs[i] \ {"instance"}
        /\ \A j \in Inst \ {i} : exit'[j] = exit[j] /\ obs'[j] = obs[j]
    BY <1>0, <1>12 DEF TellInstance, procVars, Ends, NoExit
  <2>2. \A u \in Launcher : th[u].at \in Stage => th[u].inst \in Inst
    BY DEF IInv, Threads
  <2>4. \A j \in dict' : j \notin missed' =>
       /\ "front" \in obs'[j] /\ host'[j] # "none"
       /\ exit'[j].at = "none" => "manager" \in obs'[j]
       /\ exit'[j].at # "none" => "manager" \in exit'[j].left
    BY <1>0, <1>a, <2>1 DEF Entries, Watched
  <2>5. \A u \in Launcher : th[u].at \in Stage =>
          "instance" \notin obs'[th[u].inst] \cup exit'[th[u].inst].left
    BY <1>a, <2>1, <2>2 DEF Entries
  <2>6. \A u \in Launcher :
          th[u].at \in {"observe", "insert", "find", "watch"} /\ th[u].inst \notin missed' =>
            /\ "front" \in obs'[th[u].inst] /\ host'[th[u].inst] # "none"
            /\ exit'[th[u].inst].at = "none"
            /\ th[u].at = "insert" => "manager" \in obs'[th[u].inst]
    BY <1>a, <2>1, <2>2 DEF Entries, Stage, Watched
  <2>7. /\ \A u \in Launcher : th[u].at \in {"spawn", "observe", "insert"} => th[u].inst \notin dict'
        /\ \A u \in Launcher : th[u].at = "spawn" => host'[th[u].inst] = "none"
    BY <1>a, <2>1, <2>2 DEF Entries, Stage
  <2> QED BY <2>1, <2>4, <2>5, <2>6, <2>7 DEF Entries, Watched
<1>13. ASSUME NEW i \in Inst, InstanceDidExit(i) PROVE Entries'
  <2>1. /\ UNCHANGED <<host, obs, dict, missed>>
        /\ exit'[i].at = "notify" /\ exit'[i].left = exit[i].left /\ exit[i].at = "delegate"
        /\ \A j \in Inst \ {i} : exit'[j] = exit[j]
    BY <1>13, InstanceDidExitDoes
  <2>8. UNCHANGED th
    BY <1>13 DEF InstanceDidExit
  <2>2. \A u \in Launcher : th[u].at \in Stage => th[u].inst \in Inst
    BY DEF IInv, Threads
  <2>4. \A j \in dict' : j \notin missed' =>
       /\ "front" \in obs'[j] /\ host'[j] # "none"
       /\ exit'[j].at = "none" => "manager" \in obs'[j]
       /\ exit'[j].at # "none" => "manager" \in exit'[j].left
    BY <1>0, <1>a, <2>1 DEF Entries, Watched
  <2>5. \A u \in Launcher : th[u].at \in Stage =>
          "instance" \notin obs'[th[u].inst] \cup exit'[th[u].inst].left
    BY <1>a, <2>1, <2>2 DEF Entries
  <2>6. \A u \in Launcher :
          th[u].at \in {"observe", "insert", "find", "watch"} /\ th[u].inst \notin missed' =>
            /\ "front" \in obs'[th[u].inst] /\ host'[th[u].inst] # "none"
            /\ exit'[th[u].inst].at = "none"
            /\ th[u].at = "insert" => "manager" \in obs'[th[u].inst]
    BY <1>a, <2>1, <2>2 DEF Entries, Stage, Watched
  <2>7. /\ \A u \in Launcher : th[u].at \in {"spawn", "observe", "insert"} => th[u].inst \notin dict'
        /\ \A u \in Launcher : th[u].at = "spawn" => host'[th[u].inst] = "none"
    BY <1>a, <2>1, <2>2 DEF Entries, Stage
  <2> QED BY <2>1, <2>8, <2>4, <2>5, <2>6, <2>7 DEF Entries, Watched
<1>14. ASSUME NEW i \in Inst, Delivered(i) PROVE Entries'
  <2>1. /\ UNCHANGED <<missed, th, dict>> /\ exit[i].at = "notify" /\ exit[i].left = {}
        /\ exit'[i].left = {} /\ obs'[i] = {} /\ host'[i] = "none" /\ exit'[i].at = "none"
        /\ \A j \in Inst \ {i} : exit'[j] = exit[j] /\ obs'[j] = obs[j] /\ host'[j] = host[j]
    BY <1>0, <1>14 DEF Delivered, procVars, Ends, NoExit
  <2>2. \A u \in Launcher : th[u].at \in Stage => th[u].inst \in Inst
    BY DEF IInv, Threads
  <2>4. \A j \in dict' : j \notin missed' =>
       /\ "front" \in obs'[j] /\ host'[j] # "none"
       /\ exit'[j].at = "none" => "manager" \in obs'[j]
       /\ exit'[j].at # "none" => "manager" \in exit'[j].left
    BY <1>0, <1>a, <2>1 DEF Entries, Watched
  <2>5. \A u \in Launcher : th[u].at \in Stage =>
          "instance" \notin obs'[th[u].inst] \cup exit'[th[u].inst].left
    BY <1>a, <2>1, <2>2 DEF Entries
  <2>6. \A u \in Launcher :
          th[u].at \in {"observe", "insert", "find", "watch"} /\ th[u].inst \notin missed' =>
            /\ "front" \in obs'[th[u].inst] /\ host'[th[u].inst] # "none"
            /\ exit'[th[u].inst].at = "none"
            /\ th[u].at = "insert" => "manager" \in obs'[th[u].inst]
    BY <1>a, <2>1, <2>2 DEF Entries, Stage, Watched
  <2>7. /\ \A u \in Launcher : th[u].at \in {"spawn", "observe", "insert"} => th[u].inst \notin dict'
        /\ \A u \in Launcher : th[u].at = "spawn" => host'[th[u].inst] = "none"
    BY <1>a, <2>1, <2>2 DEF Entries, Stage
  <2> QED BY <2>1, <2>4, <2>5, <2>6, <2>7 DEF Entries, Watched
<1>15. ASSUME NEW s \in Svc, TimerFires(s) PROVE Entries'
  <2>1. UNCHANGED <<host, obs, dict, exit, missed>>
    BY <1>15 DEF TimerFires, procVars
  <2>2. th'[Main].at \notin Stage /\ \A u \in Launcher \ {Main} : th'[u] = th[u]
    BY <1>0, <1>15 DEF TimerFires, Stage, Launcher
  <2> QED BY <1>a, <2>1, <2>2, LauncherOnly DEF Launcher
<1>16. CASE Boot
  <2>1. UNCHANGED <<host, obs, dict, exit, missed, th>>
    BY <1>16 DEF Boot, procVars
  <2> QED BY <1>a, <2>1 DEF Entries, Watched
<1>17. CASE ReloadDaemons
  <2>1. UNCHANGED <<host, obs, dict, exit, missed, th>>
    BY <1>17 DEF ReloadDaemons, procVars
  <2> QED BY <1>a, <2>1 DEF Entries, Watched
<1>18. CASE RebootBegin
  <2>1. UNCHANGED <<host, obs, dict, exit, missed, th>>
    BY <1>18 DEF RebootBegin, procVars
  <2> QED BY <1>a, <2>1 DEF Entries, Watched
<1>19. CASE RebootKill
  <2>1. UNCHANGED <<host, obs, dict, exit, missed, th>>
    BY <1>19 DEF RebootKill, procVars
  <2> QED BY <1>a, <2>1 DEF Entries, Watched
<1>20. CASE Reload
  <2>1. UNCHANGED <<host, obs, dict, exit, missed, th>>
    BY <1>20 DEF Reload, procVars
  <2> QED BY <1>a, <2>1 DEF Entries, Watched
<1>21. CASE LoadNext
  <2>1. UNCHANGED <<host, obs, dict, exit, missed>>
    BY <1>21 DEF LoadNext, procVars
  <2>2. th'[User].at \notin Stage /\ \A u \in Launcher \ {User} : th'[u] = th[u]
    BY <1>0, <1>21 DEF LoadNext, Stage, Launcher
  <2> QED BY <1>a, <2>1, <2>2, LauncherOnly DEF Launcher
<1>22. CASE LoadEnd
  <2>1. UNCHANGED <<host, obs, dict, exit, missed, th>>
    BY <1>22 DEF LoadEnd, procVars
  <2> QED BY <1>a, <2>1 DEF Entries, Watched
<1> QED BY <1>1, <1>2, <1>3, <1>4, <1>5, <1>6, <1>7, <1>8, <1>9, <1>10, <1>11,
        <1>12, <1>13, <1>14, <1>15, <1>16, <1>17, <1>18, <1>19, <1>20, <1>21,
        <1>22
        DEF Next, Launch, Exiting, Userspace

-----------------------------------------------------------------------------
(* Supervision                                                             *)

\* A running instance whose exit its service has been, or will be, told of.
Known(s, i) == owner[i] = s /\ st[i] = "running" /\ (Announced(i) \/ i \in missed)

\* Steps that leave the services in the list, their restarts, launchers and
\* running instances as they are.
LEMMA StillUp ==
  ASSUME Supervised, TypeOK, loaded' = loaded, timer' = timer,
         \A s \in loaded : /\ svc'[s].fails = svc[s].fails
                           /\ svc[s].refused => svc'[s].refused
                           /\ Launching(s) => Launching(s)' \/ svc'[s].refused,
         \A i \in Inst : \A s \in loaded : exit[i].svc = s => exit'[i].svc = s,
         \A i \in Inst : \A s \in loaded :
           Known(s, i) => Known(s, i)' \/ exit'[i].svc = s
  PROVE  Supervised'
<1> SUFFICES ASSUME NEW s \in loaded PROVE
      \/ Launching(s)' \/ timer'[s] > 0
      \/ svc'[s].fails > Limit \/ svc'[s].refused
      \/ \E i \in Inst : exit'[i].svc = s
      \/ \E i \in Inst : Known(s, i)'
  BY DEF Supervised, Known
<1>1. \/ Launching(s) \/ timer[s] > 0
      \/ svc[s].fails > Limit \/ svc[s].refused
      \/ \E i \in Inst : exit[i].svc = s
      \/ \E i \in Inst : Known(s, i)
  BY DEF Supervised, Known
<1> QED BY <1>1

\* A loaded service is never forgotten.
LEMMA SupervisedSteps == IInv /\ Next => Supervised'
<1> SUFFICES ASSUME IInv, Next PROVE Supervised'
  OBVIOUS
<1>0. /\ TypeOK
      /\ th \in [Launcher -> Ths] /\ exit \in [Inst -> Ends] /\ svc \in [Svc -> Svcs]
      /\ st \in [Inst -> Sts] /\ obs \in [Inst -> Obs]
      /\ loaded \subseteq Svc /\ timer \in [Svc -> Nat]
      /\ lock \in [Svc -> Launcher \cup {None}] /\ owner \in [Inst -> Svc \cup {None}]
      /\ host \in [Inst -> {"none", "running", "dead"}]
      /\ killed \subseteq Inst /\ dict \subseteq Inst /\ missed \subseteq Inst
      /\ todo \subseteq Plist
  BY Parts DEF IInv
<1>a. Supervised
  BY DEF IInv
<1>1. ASSUME NEW t \in Launcher, NewInstance(t) PROVE Supervised'
  <2>1. PICK i \in Inst :
          /\ Fresh(i)
          /\ owner' = [owner EXCEPT ![i] = th[t].svc]
          /\ st' = [st EXCEPT ![i] = "launching"]
          /\ missed' = missed \ {i} /\ obs' = [obs EXCEPT ![i] = {}]
          /\ th' = [th EXCEPT ![t].at = "spawn", ![t].inst = i]
    BY <1>1 DEF NewInstance
  <2>2. UNCHANGED <<loaded, timer, svc, exit>>
    BY <1>1 DEF NewInstance
  <2>3. \A u \in Launcher : th'[u].svc = th[u].svc
    BY <1>0, <2>1 DEF Ths
  <2>4. \A r \in loaded : Launching(r) => Launching(r)'
    BY <2>3 DEF Launching
  <2>5. owner[i] = None
    BY <2>1 DEF Fresh, InstanceAlive
  <2>6. \A j \in Inst : \A r \in loaded : Known(r, j) => j # i
    BY <1>0, <2>5, LaunchAssumption DEF Known
  <2>7. /\ missed' = missed \ {i}
        /\ \A j \in Inst \ {i} : owner'[j] = owner[j] /\ st'[j] = st[j] /\ obs'[j] = obs[j]
    BY <1>0, <2>1
  <2>8. \A j \in Inst : \A r \in loaded : Known(r, j) => Known(r, j)'
    BY <2>2, <2>6, <2>7 DEF Known, Announced
  <2> QED BY <1>0, <1>a, <2>2, <2>4, <2>8, StillUp
<1>2. ASSUME NEW t \in Launcher, CountRefused(t) PROVE Supervised'
  <2>1. /\ UNCHANGED <<loaded, timer, obs, exit, missed>>
        /\ \A u \in Launcher \ {t} : th'[u] = th[u]
        /\ \A j \in Inst : owner[j] # th[t].svc \/ st[j] # "running"
        /\ \A j \in Inst, r \in Svc : owner[j] = r /\ r # th[t].svc /\ Referenced(r)' => owner'[j] = r
        /\ \A j \in Inst : InstanceAlive(j)' => st'[j] = st[j]
        /\ \A r \in Svc : Referenced(r)' =>
              /\ svc'[r].fails = svc[r].fails
              /\ svc'[r].refused <=> svc[r].refused \/ r = th[t].svc
    <3>1. \A j \in Inst : owner[j] # th[t].svc
      BY CountRefusedDoes, <1>2 DEF IInv, Tokens, Token
    <3> QED BY <1>2, <3>1, CountRefusedDoes
  <2>2. \A r \in loaded : r \in Svc /\ Referenced(r)'
    BY <1>0, <2>1 DEF Referenced
  <2>3. \A r \in loaded : /\ svc'[r].fails = svc[r].fails
                          /\ svc[r].refused => svc'[r].refused
                          /\ r = th[t].svc => svc'[r].refused
    BY <2>1, <2>2
  <2>4. \A r \in loaded : Launching(r) => Launching(r)' \/ r = th[t].svc
    BY <2>1 DEF Launching
  <2>5. \A j \in Inst, r \in Svc : owner'[j] = r => InstanceAlive(j)'
    BY LaunchAssumption DEF InstanceAlive
  <2>6. \A j \in Inst : \A r \in loaded : Known(r, j) => owner'[j] = r /\ st'[j] = st[j]
    BY <2>1, <2>2, <2>5 DEF Known
  <2>7. \A j \in Inst : \A r \in loaded : Known(r, j) => Known(r, j)'
    BY <2>1, <2>6 DEF Known, Announced
  <2> QED BY <1>0, <1>a, <2>1, <2>3, <2>4, <2>7, StillUp
<1>3. ASSUME NEW t \in Launcher, SpawnHost(t) PROVE Supervised'
  <2>1. UNCHANGED <<loaded, timer, svc, owner>>
    BY <1>3 DEF SpawnHost, svcVars
  <2>2. \A u \in Launcher : th'[u].svc = th[u].svc
    BY <1>0, <1>3 DEF SpawnHost, Step, Ths
  <2>3. \A r \in loaded : Launching(r) => Launching(r)'
    BY <2>2 DEF Launching
  <2>8. \A j \in Inst : \A r \in loaded : exit[j].svc = r => exit'[j].svc = r
    BY <1>0, <1>3, LaunchAssumption DEF SpawnHost, procVars
  <2>9. \A j \in Inst : \A r \in loaded : Known(r, j) => Known(r, j)' \/ exit'[j].svc = r
    <3>1. UNCHANGED <<st, exit, missed>> /\ \A j \in Inst : j # th[t].inst => obs'[j] = obs[j]
      BY <1>0, <1>3 DEF SpawnHost
    <3>2. st[th[t].inst] = "launching"
      BY <1>3 DEF SpawnHost, IInv, Threads, Stage
    <3> QED BY <2>1, <3>1, <3>2 DEF Known, Announced
  <2> QED BY <1>0, <1>a, <2>1, <2>3, <2>8, <2>9, StillUp
<1>4. ASSUME NEW t \in Launcher, ManagerObserves(t) PROVE Supervised'
  <2>1. UNCHANGED <<loaded, timer, svc, owner>>
    BY <1>4 DEF ManagerObserves, svcVars
  <2>2. \A u \in Launcher : th'[u].svc = th[u].svc
    BY <1>0, <1>4 DEF ManagerObserves, Step, Ths
  <2>3. \A r \in loaded : Launching(r) => Launching(r)'
    BY <2>2 DEF Launching
  <2>8. \A j \in Inst : \A r \in loaded : exit[j].svc = r => exit'[j].svc = r
    BY <1>0, <1>4, LaunchAssumption DEF ManagerObserves, procVars
  <2>9. \A j \in Inst : \A r \in loaded : Known(r, j) => Known(r, j)' \/ exit'[j].svc = r
    <3>1. UNCHANGED <<st, exit, missed>> /\ \A j \in Inst : obs[j] \subseteq obs'[j]
      BY <1>0, <1>4 DEF ManagerObserves
    <3> QED BY <2>1, <3>1 DEF Known, Announced
  <2> QED BY <1>0, <1>a, <2>1, <2>3, <2>8, <2>9, StillUp
<1>5. ASSUME NEW t \in Launcher, ManagerInserts(t) PROVE Supervised'
  <2>1. UNCHANGED <<loaded, timer, svc, owner>>
    BY <1>5 DEF ManagerInserts, svcVars
  <2>2. \A u \in Launcher : th'[u].svc = th[u].svc
    BY <1>0, <1>5 DEF ManagerInserts, Step, Ths
  <2>3. \A r \in loaded : Launching(r) => Launching(r)'
    BY <2>2 DEF Launching
  <2>8. \A j \in Inst : \A r \in loaded : exit[j].svc = r => exit'[j].svc = r
    BY <1>0, <1>5, LaunchAssumption DEF ManagerInserts, procVars
  <2>9. \A j \in Inst : \A r \in loaded : Known(r, j) => Known(r, j)' \/ exit'[j].svc = r
    <3>1. UNCHANGED <<st, exit, missed, obs>>
      BY <1>5 DEF ManagerInserts
    <3> QED BY <2>1, <3>1 DEF Known, Announced
  <2> QED BY <1>0, <1>a, <2>1, <2>3, <2>8, <2>9, StillUp
<1>6. ASSUME NEW t \in Launcher, FindProcess(t) PROVE Supervised'
  <2>1. UNCHANGED <<loaded, timer, svc, owner>>
    BY <1>6 DEF FindProcess, svcVars
  <2>2. \A u \in Launcher : th'[u].svc = th[u].svc
    BY <1>0, <1>6 DEF FindProcess, Step, Ths
  <2>3. \A r \in loaded : Launching(r) => Launching(r)'
    BY <2>2 DEF Launching
  <2>8. \A j \in Inst : \A r \in loaded : exit[j].svc = r => exit'[j].svc = r
    BY <1>0, <1>6, LaunchAssumption DEF FindProcess, procVars
  <2>9. \A j \in Inst : \A r \in loaded : Known(r, j) => Known(r, j)' \/ exit'[j].svc = r
    <3>1. UNCHANGED <<exit, missed, obs>> /\ \A j \in Inst : st[j] = "running" => st'[j] = "running"
      BY <1>0, <1>6 DEF FindProcess, procVars
    <3> QED BY <2>1, <3>1 DEF Known, Announced
  <2> QED BY <1>0, <1>a, <2>1, <2>3, <2>8, <2>9, StillUp
<1>7. ASSUME NEW t \in Launcher, Launched(t) PROVE Supervised'
  <2>1. PICK i \in Inst, s \in Svc : i = th[t].inst /\ s = th[t].svc
    BY <1>7 DEF Launched, IInv, Threads, Stage
  <2>2. /\ th[t].at = "watch" /\ owner[i] = s /\ st[i] = "running"
        /\ i \notin missed => "front" \in obs[i] /\ exit[i].at = "none"
    BY <1>7, <2>1 DEF Launched, IInv, Threads, Entries, Stage, Watched
  <2>3. /\ UNCHANGED <<timer, exit, missed>> /\ loaded' \subseteq loaded \cup {s}
        /\ \A u \in Launcher \ {t} : th'[u] = th[u]
        /\ obs'[i] = obs[i] \cup {"instance"} /\ \A j \in Inst \ {i} : obs'[j] = obs[j]
        /\ \A j \in Inst, r \in Svc : owner[j] = r /\ Referenced(r)' => owner'[j] = r
        /\ \A j \in Inst : InstanceAlive(j)' => st'[j] = st[j]
        /\ \A r \in Svc : Referenced(r)' => svc'[r] = svc[r]
    BY <1>0, <1>7, <2>1, CollectDoes DEF Launched
  <2>4. \A r \in loaded' : r \in Svc /\ Referenced(r)'
    BY <1>0, <2>1, <2>3 DEF Referenced
  <2>5. \A j \in Inst, r \in Svc : owner'[j] = r => InstanceAlive(j)'
    BY LaunchAssumption DEF InstanceAlive
  <2>6. s \in loaded' => Known(s, i)'
    <3>1. s \in loaded' => owner'[i] = s /\ st'[i] = "running"
      BY <2>2, <2>3, <2>4, <2>5
    <3>2. Announced(i)' \/ i \in missed'
      BY <2>2, <2>3 DEF Announced
    <3> QED BY <3>1, <3>2 DEF Known
  <2>7. ASSUME NEW r \in loaded', r # s
        PROVE  \/ Launching(r)' \/ timer'[r] > 0
               \/ svc'[r].fails > Limit \/ svc'[r].refused
               \/ \E j \in Inst : exit'[j].svc = r
               \/ \E j \in Inst : Known(r, j)'
    <3>1. r \in loaded /\ svc'[r] = svc[r]
      BY <2>3, <2>4, <2>7
    <3>2. \/ Launching(r) \/ timer[r] > 0
          \/ svc[r].fails > Limit \/ svc[r].refused
          \/ \E j \in Inst : exit[j].svc = r
          \/ \E j \in Inst : Known(r, j)
      BY <1>a, <3>1 DEF Supervised, Known
    <3>3. Launching(r) => Launching(r)'
      BY <2>1, <2>3, <2>7 DEF Launching
    <3>4. \A j \in Inst : Known(r, j) => Known(r, j)'
      BY <2>2, <2>3, <2>4, <2>5, <2>7 DEF Known, Announced
    <3> QED BY <2>3, <3>1, <3>2, <3>3, <3>4
  <2> QED BY <2>1, <2>6, <2>7 DEF Supervised, Known
<1>8. ASSUME NEW t \in Launcher, LaunchFailed(t) PROVE Supervised'
  <2>1. /\ UNCHANGED <<loaded, timer, obs, exit, missed>>
        /\ \A u \in Launcher \ {t} : th'[u] = th[u]
        /\ \A j \in Inst : owner[j] # th[t].svc \/ st[j] # "running"
        /\ \A j \in Inst, r \in Svc : owner[j] = r /\ r # th[t].svc /\ Referenced(r)' => owner'[j] = r
        /\ \A j \in Inst : InstanceAlive(j)' => st'[j] = st[j]
        /\ \A r \in Svc : Referenced(r)' =>
              /\ svc'[r].fails = svc[r].fails
              /\ svc'[r].refused <=> svc[r].refused \/ r = th[t].svc
    <3>1. /\ th[t].svc \in Svc /\ owner[th[t].inst] = th[t].svc /\ th[t].inst \in Inst
          /\ st[th[t].inst] = "launching"
      BY <1>8, LaunchFailedDoes
    <3>2. \A j \in Inst : owner[j] # th[t].svc \/ st[j] # "running"
      BY <3>1 DEF IInv, Tokens, Token
    <3>3. \A j \in Inst, r \in Svc : owner[j] = r /\ r # th[t].svc => j # th[t].inst
      BY <3>1
    <3> QED BY <1>8, <3>2, <3>3, LaunchFailedDoes
  <2>2. \A r \in loaded : r \in Svc /\ Referenced(r)'
    BY <1>0, <2>1 DEF Referenced
  <2>3. \A r \in loaded : /\ svc'[r].fails = svc[r].fails
                          /\ svc[r].refused => svc'[r].refused
                          /\ r = th[t].svc => svc'[r].refused
    BY <2>1, <2>2
  <2>4. \A r \in loaded : Launching(r) => Launching(r)' \/ r = th[t].svc
    BY <2>1 DEF Launching
  <2>5. \A j \in Inst, r \in Svc : owner'[j] = r => InstanceAlive(j)'
    BY LaunchAssumption DEF InstanceAlive
  <2>6. \A j \in Inst : \A r \in loaded : Known(r, j) => owner'[j] = r /\ st'[j] = st[j]
    BY <2>1, <2>2, <2>5 DEF Known
  <2>7. \A j \in Inst : \A r \in loaded : Known(r, j) => Known(r, j)'
    BY <2>1, <2>6 DEF Known, Announced
  <2> QED BY <1>0, <1>a, <2>1, <2>3, <2>4, <2>7, StillUp
<1>9. ASSUME NEW i \in Inst, HostExit(i) PROVE Supervised'
  <2>1. UNCHANGED <<loaded, timer, svc, owner>>
    BY <1>9 DEF HostExit, svcVars
  <2>2. \A u \in Launcher : th'[u].svc = th[u].svc
    BY <1>0, <1>9 DEF HostExit, Step, Ths
  <2>3. \A r \in loaded : Launching(r) => Launching(r)'
    BY <2>2 DEF Launching
  <2>8. \A j \in Inst : \A r \in loaded : exit[j].svc = r => exit'[j].svc = r
    BY <1>0, <1>9, LaunchAssumption DEF HostExit, procVars
  <2>9. \A j \in Inst : \A r \in loaded : Known(r, j) => Known(r, j)' \/ exit'[j].svc = r
    <3>1. UNCHANGED <<st, exit, missed, obs>>
      BY <1>9 DEF HostExit
    <3> QED BY <2>1, <3>1 DEF Known, Announced
  <2> QED BY <1>0, <1>a, <2>1, <2>3, <2>8, <2>9, StillUp
<1>10. ASSUME NEW i \in Inst, Deliver(i) PROVE Supervised'
  <2>1. UNCHANGED <<loaded, timer, svc, owner>>
    BY <1>10 DEF Deliver, svcVars
  <2>2. \A u \in Launcher : th'[u].svc = th[u].svc
    BY <1>0, <1>10 DEF Deliver, Step, Ths
  <2>3. \A r \in loaded : Launching(r) => Launching(r)'
    BY <2>2 DEF Launching
  <2>8. \A j \in Inst : \A r \in loaded : exit[j].svc = r => exit'[j].svc = r
    BY <1>0, <1>10, LaunchAssumption DEF Deliver, IInv, Exits, Ends
  <2>9. \A j \in Inst : \A r \in loaded : Known(r, j) => Known(r, j)' \/ exit'[j].svc = r
    <3>1. /\ UNCHANGED <<st, obs>> /\ exit[i].at = "none" /\ missed \subseteq missed'
          /\ exit'[i].left = {o \in obs[i] \ {"front"} : o = "instance" => InstanceAlive(i)}
          /\ \A j \in Inst \ {i} : exit'[j] = exit[j]
      BY <1>0, <1>10 DEF Deliver
    <3>2. exit[i].left = {}
      BY <3>1 DEF IInv, Exits
    <3>3. \A r \in loaded : owner[i] = r => InstanceAlive(i)
      BY <1>0, LaunchAssumption DEF InstanceAlive
    <3> QED BY <2>1, <3>1, <3>2, <3>3 DEF Known, Announced
  <2> QED BY <1>0, <1>a, <2>1, <2>3, <2>8, <2>9, StillUp
<1>11. ASSUME NEW i \in Inst, TellManager(i) PROVE Supervised'
  <2>1. UNCHANGED <<loaded, timer, svc, owner>>
    BY <1>11 DEF TellManager, svcVars
  <2>2. \A u \in Launcher : th'[u].svc = th[u].svc
    BY <1>0, <1>11 DEF TellManager, Step, Ths
  <2>3. \A r \in loaded : Launching(r) => Launching(r)'
    BY <2>2 DEF Launching
  <2>8. \A j \in Inst : \A r \in loaded : exit[j].svc = r => exit'[j].svc = r
    BY <1>0, <1>11, LaunchAssumption DEF TellManager, Ends
  <2>9. \A j \in Inst : \A r \in loaded : Known(r, j) => Known(r, j)' \/ exit'[j].svc = r
    <3>1. /\ UNCHANGED <<st, missed>> /\ exit[i].at = "notify"
          /\ exit'[i].left = exit[i].left \ {"manager"} /\ obs'[i] = obs[i] \ {"manager"}
          /\ \A j \in Inst \ {i} : exit'[j] = exit[j] /\ obs'[j] = obs[j]
      BY <1>0, <1>11 DEF TellManager, Ends
    <3> QED BY <2>1, <3>1 DEF Known, Announced
  <2> QED BY <1>0, <1>a, <2>1, <2>3, <2>8, <2>9, StillUp
<1>12. ASSUME NEW i \in Inst, TellInstance(i) PROVE Supervised'
  <2>1. UNCHANGED <<loaded, timer, svc, owner>>
    BY <1>12 DEF TellInstance, svcVars
  <2>2. \A u \in Launcher : th'[u].svc = th[u].svc
    BY <1>0, <1>12 DEF TellInstance, Step, Ths
  <2>3. \A r \in loaded : Launching(r) => Launching(r)'
    BY <2>2 DEF Launching
  <2>8. \A j \in Inst : \A r \in loaded : exit[j].svc = r => exit'[j].svc = r
    BY <1>0, <1>12, LaunchAssumption DEF TellInstance, IInv, Exits, Ends
  <2>9. \A j \in Inst : \A r \in loaded : Known(r, j) => Known(r, j)' \/ exit'[j].svc = r
    <3>1. /\ UNCHANGED missed /\ exit'[i].svc = owner[i]
          /\ \A j \in Inst \ {i} : exit'[j] = exit[j] /\ obs'[j] = obs[j] /\ st'[j] = st[j]
      BY <1>0, <1>12 DEF TellInstance
    <3> QED BY <2>1, <3>1 DEF Known, Announced
  <2> QED BY <1>0, <1>a, <2>1, <2>3, <2>8, <2>9, StillUp
<1>13. ASSUME NEW i \in Inst, InstanceDidExit(i) PROVE Supervised'
  <2>1. PICK s \in Svc, n \in 0 .. Limit + 1 :
         /\ s = exit[i].svc /\ owner[i] = s /\ st[i] = "exited"
         /\ timer' = [timer EXCEPT ![s] = IF n > Limit THEN @ ELSE @ + 1]
         /\ UNCHANGED <<loaded, obs, missed>>
         /\ \A j \in Inst \ {i} : exit'[j] = exit[j]
         /\ \A j \in Inst \ {i}, r \in Svc : owner[j] = r /\ Referenced(r)' => owner'[j] = r
         /\ \A j \in Inst : InstanceAlive(j)' => st'[j] = st[j]
         /\ Referenced(s)' => svc'[s].fails = n
         /\ \A r \in Svc : Referenced(r)' =>
              /\ svc'[r].refused = svc[r].refused
              /\ r # s => svc'[r].fails = svc[r].fails
    BY <1>13, InstanceDidExitDoes
  <2>2. UNCHANGED th
    BY <1>13 DEF InstanceDidExit
  <2>3. \A r \in loaded : r \in Svc /\ Referenced(r)'
    BY <1>0, <2>1 DEF Referenced
  <2>4. s \in loaded => timer'[s] > 0 \/ svc'[s].fails > Limit
    <3>1. timer'[s] = IF n > Limit THEN timer[s] ELSE timer[s] + 1
      BY <1>0, <2>1
    <3>2. timer[s] \in Nat
      BY <1>0
    <3> QED BY <2>1, <2>3, <3>1, <3>2, LaunchAssumption
  <2>5. \A j \in Inst, r \in Svc : owner'[j] = r => InstanceAlive(j)'
    BY LaunchAssumption DEF InstanceAlive
  <2>6. ASSUME NEW r \in loaded, r # s
        PROVE  \/ Launching(r)' \/ timer'[r] > 0
               \/ svc'[r].fails > Limit \/ svc'[r].refused
               \/ \E j \in Inst : exit'[j].svc = r
               \/ \E j \in Inst : Known(r, j)'
    <3>1. timer'[r] = timer[r] /\ svc'[r].fails = svc[r].fails /\ svc'[r].refused = svc[r].refused
      BY <1>0, <2>1, <2>3, <2>6
    <3>2. \/ Launching(r) \/ timer[r] > 0
          \/ svc[r].fails > Limit \/ svc[r].refused
          \/ \E j \in Inst : exit[j].svc = r
          \/ \E j \in Inst : Known(r, j)
      BY <1>a DEF Supervised, Known
    <3>3. Launching(r) => Launching(r)'
      BY <2>2 DEF Launching
    <3>4. \A j \in Inst : exit[j].svc = r => exit'[j].svc = r
      BY <2>1, <2>6
    <3>5. \A j \in Inst : Known(r, j) => Known(r, j)'
      BY <2>1, <2>3, <2>5, <2>6 DEF Known, Announced
    <3> QED BY <3>1, <3>2, <3>3, <3>4, <3>5
  <2> QED BY <2>1, <2>4, <2>6 DEF Supervised, Known
<1>14. ASSUME NEW i \in Inst, Delivered(i) PROVE Supervised'
  <2>1. UNCHANGED <<loaded, timer, svc, owner>>
    BY <1>14 DEF Delivered, svcVars
  <2>2. \A u \in Launcher : th'[u].svc = th[u].svc
    BY <1>0, <1>14 DEF Delivered, Step, Ths
  <2>3. \A r \in loaded : Launching(r) => Launching(r)'
    BY <2>2 DEF Launching
  <2>8. \A j \in Inst : \A r \in loaded : exit[j].svc = r => exit'[j].svc = r
    BY <1>0, <1>14, LaunchAssumption DEF Delivered, IInv, Exits, Ends
  <2>9. \A j \in Inst : \A r \in loaded : Known(r, j) => Known(r, j)' \/ exit'[j].svc = r
    <3>1. /\ UNCHANGED <<missed, st>> /\ exit[i].at = "notify" /\ exit[i].left = {}
          /\ \A j \in Inst \ {i} : exit'[j] = exit[j] /\ obs'[j] = obs[j]
      BY <1>0, <1>14 DEF Delivered
    <3> QED BY <2>1, <3>1 DEF Known, Announced
  <2> QED BY <1>0, <1>a, <2>1, <2>3, <2>8, <2>9, StillUp
<1>15. ASSUME NEW s \in Svc, TimerFires(s) PROVE Supervised'
  <2>1. /\ UNCHANGED <<loaded, svc, owner, st, exit, missed, obs>>
        /\ \A r \in Svc \ {s} : timer'[r] = timer[r]
        /\ th[Main].svc = None /\ th'[Main].svc = s /\ th'[User] = th[User]
    BY <1>0, <1>15 DEF TimerFires, procVars, Launcher, User, Main, IInv, Threads
  <2>2. Launching(s)'
    BY <2>1 DEF Launching, Launcher
  <2>3. \A r \in Svc : Launching(r) => Launching(r)'
    BY <2>1, LaunchAssumption DEF Launching, Launcher
  <2> QED BY <1>0, <1>a, <2>1, <2>2, <2>3 DEF Supervised, Announced
<1>16. CASE Boot
  <2>1. UNCHANGED <<loaded, timer, svc, owner, st, exit, missed, obs, th>>
    BY <1>16 DEF Boot, svcVars, procVars
  <2> QED BY <1>a, <2>1 DEF Supervised, Launching, Announced
<1>17. CASE ReloadDaemons
  <2>1. UNCHANGED <<loaded, timer, svc, owner, st, exit, missed, obs, th>>
    BY <1>17 DEF ReloadDaemons, svcVars, procVars
  <2> QED BY <1>a, <2>1 DEF Supervised, Launching, Announced
<1>18. CASE RebootBegin
  BY <1>18 DEF RebootBegin, Supervised
<1>19. CASE RebootKill
  <2>1. UNCHANGED <<loaded, timer, svc, owner, st, exit, missed, obs, th>>
    BY <1>19 DEF RebootKill, svcVars, procVars
  <2> QED BY <1>a, <2>1 DEF Supervised, Launching, Announced
<1>20. CASE Reload
  BY <1>20 DEF Reload, Supervised
<1>21. CASE LoadNext
  <2>1. PICK p \in todo, s \in Svc :
       /\ ~Referenced(s)
       /\ svc' = [svc EXCEPT ![s] = [plist |-> p, fails |-> 0, refused |-> FALSE]]
    BY <1>21 DEF LoadNext
  <2>2. UNCHANGED <<loaded, timer, owner, st, exit, missed, obs>> /\ s \notin loaded
    BY <1>21, <2>1 DEF LoadNext, procVars, Referenced
  <2>3. th[User].svc = None /\ th'[Main] = th[Main]
    BY <1>0, <1>21 DEF LoadNext, Launcher, User, Main, IInv, Threads
  <2>4. \A r \in loaded : Launching(r) => Launching(r)'
    BY <1>0, <2>3, LaunchAssumption DEF Launching, Launcher
  <2>5. \A r \in loaded : svc'[r] = svc[r]
    BY <1>0, <2>1, <2>2
  <2> QED BY <1>a, <2>2, <2>4, <2>5 DEF Supervised, Announced
<1>22. CASE LoadEnd
  <2>1. UNCHANGED <<loaded, timer, svc, owner, st, exit, missed, obs, th>>
    BY <1>22 DEF LoadEnd, svcVars, procVars
  <2> QED BY <1>a, <2>1 DEF Supervised, Launching, Announced
<1> QED BY <1>1, <1>2, <1>3, <1>4, <1>5, <1>6, <1>7, <1>8, <1>9, <1>10, <1>11,
        <1>12, <1>13, <1>14, <1>15, <1>16, <1>17, <1>18, <1>19, <1>20, <1>21,
        <1>22
        DEF Next, Launch, Exiting, Userspace

-----------------------------------------------------------------------------
(* The invariant and what follows from it                                  *)

LEMMA Start == Init => IInv
<1> SUFFICES ASSUME Init PROVE IInv
  OBVIOUS
<1>1. TypeOK
  BY LaunchAssumption DEF Init, TypeOK, NoService, NoExit, Quiet
<1>2. Threads /\ Exits /\ Instances
  BY LaunchAssumption DEF Init, Threads, Exits, Instances, NoExit, Quiet, Stage, Launcher
<1>3. Tokens
  BY LaunchAssumption DEF Init, Tokens, Token, NoService, Quiet
<1>4. Signals /\ NoStrays /\ Loading /\ OneServicePerPlist /\ Supervised
  BY DEF Init, Signals, NoStrays, Loading, OneServicePerPlist, Supervised, Alive, Quiet, Launcher
<1>5. Entries
  BY DEF Init, Entries, Quiet, Stage
<1> QED BY <1>1, <1>2, <1>3, <1>4, <1>5 DEF IInv

LEMMA Stutter == IInv /\ UNCHANGED vars => IInv'
<1> SUFFICES ASSUME IInv, UNCHANGED vars PROVE IInv'
  OBVIOUS
<1>1. UNCHANGED <<loaded, svc, timer, lock, owner, st, killed, host, obs, dict, exit,
                  missed, th, phase, todo, mode>>
  BY DEF vars, svcVars, procVars, userVars
<1>2. TypeOK'
  BY <1>1 DEF IInv, TypeOK
<1>3. Threads' /\ Exits' /\ Instances'
  BY <1>1 DEF IInv, Threads, Exits, Instances, Referenced
<1>4. Tokens'
  BY <1>1 DEF IInv, Tokens, Token
<1>5. Signals' /\ NoStrays' /\ Loading' /\ OneServicePerPlist'
  BY <1>1 DEF IInv, Signals, NoStrays, Loading, OneServicePerPlist, Alive
<1>6. Entries'
  BY <1>1 DEF IInv, Entries, Watched
<1>7. Supervised'
  BY <1>1 DEF IInv, Supervised, Launching, Announced
<1> QED BY <1>2, <1>3, <1>4, <1>5, <1>6, <1>7 DEF IInv

\* The inductive invariant holds in every reachable state.
THEOREM Invariance == Spec => []IInv
<1>1. IInv /\ [Next]_vars => IInv'
  BY TypeSteps, ThreadSteps, ExitSteps, InstanceSteps, TokenSteps, SignalSteps,
     ListSteps, EntrySteps, SupervisedSteps, Stutter DEF IInv
<1> QED BY <1>1, Start, PTL DEF Spec

\* Every variable keeps its type; in particular a service's count of failures
\* never exceeds Limit + 1.
THEOREM Typing == Spec => []TypeOK
<1>1. IInv => TypeOK
  BY DEF IInv
<1> QED BY <1>1, Invariance, PTL

\* A service has at most one token.
LEMMA TokensAreOne == TypeOK /\ Tokens => OneSuccessor
<1> SUFFICES ASSUME TypeOK, Tokens, NEW s \in Svc
             PROVE  Cardinality({i \in Inst : owner[i] = s}) + timer[s]
                      + Cardinality({t \in Launcher : th[t].svc = s /\ th[t].at = "new"}) <= 1
  BY DEF OneSuccessor
<1> DEFINE own == {i \in Inst : owner[i] = s}
           new == {t \in Launcher : th[t].svc = s /\ th[t].at = "new"}
<1>0. timer[s] \in Nat
  BY DEF TypeOK
<1>1. Token(s)
  BY DEF Tokens
<1>2. /\ timer[s] <= 1
      /\ timer[s] = 1 => own = {} /\ new = {}
      /\ own # {} => timer[s] = 0 /\ new = {}
  BY <1>1 DEF Token
<1>3. \A i, j \in own : i = j
  BY <1>1 DEF Token
<1>4. \A t, u \in new : t = u
  BY <1>1 DEF Token
<1> HIDE DEF own, new
<1>5. Cardinality(own) = IF own = {} THEN 0 ELSE 1
  <2>1. CASE own = {}
    BY <2>1, FS_EmptySet
  <2>2. CASE own # {}
    <3>1. PICK i : own = {i}
      BY <1>3, <2>2
    <3> QED BY <2>2, <3>1, FS_Singleton
  <2> QED BY <2>1, <2>2
<1>6. Cardinality(new) = IF new = {} THEN 0 ELSE 1
  <2>1. CASE new = {}
    BY <2>1, FS_EmptySet
  <2>2. CASE new # {}
    <3>1. PICK t : new = {t}
      BY <1>4, <2>2
    <3> QED BY <2>2, <3>1, FS_Singleton
  <2> QED BY <2>1, <2>2
<1>7. Cardinality(own) + timer[s] + Cardinality(new) <= 1
  BY <1>0, <1>2, <1>5, <1>6
<1> QED BY <1>7 DEF own, new

\* However exits, timers, reloads and reboots interleave, a service object never
\* has two instances, nor an instance and a restart under way.
THEOREM Successor == Spec => []OneSuccessor
<1>1. IInv => OneSuccessor
  BY TokensAreOne DEF IInv
<1> QED BY <1>1, Invariance, PTL

\* The manager's list never holds two services of one property list.
THEOREM OnePerPlist == Spec => []OneServicePerPlist
<1>1. IInv => OneServicePerPlist
  BY DEF IInv
<1> QED BY <1>1, Invariance, PTL

\* A process in the dictionary is alive or its exit is about to remove it,
\* unless it died before the instance observed it.
THEOREM DeadEntries == Spec => []EntriesDie
<1>1. IInv => EntriesDie
  BY DEF IInv, Entries, Watched, EntriesDie
<1> QED BY <1>1, Invariance, PTL

\* A running process has an owner, a launcher, or a signal on its way.
THEOREM Strays == Spec => []NoStrays
<1>1. IInv => NoStrays
  BY DEF IInv
<1> QED BY <1>1, Invariance, PTL

\* A loaded service is up, coming up, or down for a reason the code accepts.
THEOREM Supervision == Spec => []Supervised
<1>1. IInv => Supervised
  BY DEF IInv
<1> QED BY <1>1, Invariance, PTL
=============================================================================
