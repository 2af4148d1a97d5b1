------------------------- MODULE Wait4Locks_proofs -------------------------
(***************************************************************************)
(* Proofs about Wait4, for any sets of children, senders, listers and      *)
(* waiters: the lock cycles are never left, the threads get stuck in no    *)
(* other way, no reap loses a death, and the whole implements ExitReport.  *)
(***************************************************************************)
EXTENDS Wait4Events_proofs

(***************************************************************************)
(* Mutexes: the children mutex belongs to the waiter that scans or to the  *)
(* actor that handles.  Reaped: whoever reaps has reported the death or is *)
(* a waiter that still has to, and a detached thread is created for a      *)
(* death that has been reported.                                           *)
(***************************************************************************)
Scans == {"scan", "look", "register"}

Mutexes ==
  /\ \A w \in Waiter : wpc[w] \in Scans <=> mtx = w
  /\ \A a \in Actor : cpc[a] = "handle" => mtx = a

Told(c) == told[c] # <<>>

\* A waiter is at one of the points in s of a reap of c.
ReapedAt(c, s) == \E w \in Waiter : busy[w] = c /\ wpc[w] \in s

Reaped ==
  /\ \A c \in Child : reapers[c] > 0 \/ rpc[c] # "none" => Told(c)
  /\ \A c \in Child \ linked : Told(c) \/ ReapedAt(c, {"remove", "relock"})
  /\ \A c \in Child \ valid : Told(c) \/ ReapedAt(c, {"relock"})

LInv == EInv /\ Mutexes /\ Reaped

-----------------------------------------------------------------------------
(* What every step does to the waiters and to the reports                  *)

\* What begins, or walks the table, changes no waiter and no report.
Quiet ==
  \/ \E c \in Child : Exit(c)
  \/ \E a \in Sender : Signal(a) \/ Setpgid(a)
  \/ \E l \in Lister : List(l) \/ ListEnd(l)
  \/ UNCHANGED vars

LEMMA QuietSteps ==
  ASSUME Quiet, cpc \in [Actor -> ActorPlace]
  PROVE  /\ UNCHANGED <<mtx, ev, tab, readers, linked, valid, zombie, status,
                         told, overtaken, events, wpc, sel, opts, todo, busy,
                         walk, reapers, rpc>>
         /\ \A a \in Actor : cpc'[a] # cpc[a] =>
              cpc[a] = "idle" /\ cpc'[a] \in {"state", "send", "lock"}
<1>1. ASSUME NEW c \in Child, Exit(c)
      PROVE  /\ UNCHANGED <<mtx, ev, tab, readers, linked, valid, zombie, status,
                             told, overtaken, events, wpc, sel, opts, todo, busy,
                             walk, reapers, rpc>>
             /\ cpc[c] = "idle" /\ CGoto(c, "state")
  BY <1>1 DEF Exit, lockVars, waitVars, reapVars, hist
<1>2. ASSUME NEW a \in Sender, Signal(a) \/ Setpgid(a)
      PROVE  /\ UNCHANGED <<mtx, ev, tab, readers, linked, valid, zombie, status,
                             told, overtaken, events, wpc, sel, opts, todo, busy,
                             walk, reapers, rpc>>
             /\ cpc[a] = "idle" /\ (CGoto(a, "send") \/ CGoto(a, "lock"))
  <2>1. PICK c, k : Calls(a, c, k)
    BY <1>2, CallBegins
  <2> QED BY <1>2, <2>1 DEF Calls, Signal, Setpgid, lockVars, childVars, waitVars,
                            reapVars, hist
<1>3. ASSUME (\E l \in Lister : List(l) \/ ListEnd(l)) \/ UNCHANGED vars
      PROVE  UNCHANGED <<mtx, ev, tab, readers, linked, valid, zombie, status,
                         told, overtaken, events, wpc, sel, opts, todo, busy,
                         walk, reapers, rpc, cpc>>
  BY <1>3 DEF List, ListEnd, vars, lockVars, childVars, waitVars, actorVars,
              reapVars, hist
<1> QED BY <1>1, <1>2, <1>3 DEF Quiet, CGoto

LEMMA Types ==
  ASSUME EInv
  PROVE  /\ wpc \in [Waiter -> WaiterPlace] /\ busy \in [Waiter -> Child \cup {None}]
         /\ cpc \in [Actor -> ActorPlace]
         /\ told \in [Child -> Seq(Status)] /\ status \in [Child -> Status]
         /\ zombie \subseteq Child
         /\ subj \in [Actor -> Child \cup {None}]
BY DEF EInv, IInv, Fields

LEMMA ReportKeeps ==
  ASSUME EInv, NEW c \in Child, ReportDeath(c)
  PROVE  /\ told'[c] # <<>>
         /\ \A d \in Child : Told(d) => told'[d] # <<>>
<1>1. told \in [Child -> Seq(Status)] /\ status \in [Child -> Status]
  BY Types
<1>2. Death(c) \in Status
  BY <1>1 DEF Death, Status
<1>3. told[c] \in Seq(Status)
  BY <1>1
<1>4. Append(told[c], Death(c)) # <<>>
  BY <1>2, <1>3, AppendProperties
<1> QED BY <1>1, <1>4 DEF ReportDeath, Told

\* The waiter that a handler answers sleeps.
LEMMA Answered ==
  ASSUME EInv, NEW a \in Actor, cpc[a] = "handle"
  PROVE  Head(walk[a]) \in Waiter /\ wpc[Head(walk[a])] = "blocked"
<1>1. walk[a] \in Seq(Waiter) /\ walk[a] # <<>> /\ AllBlocked(walk[a])
  BY DEF EInv, Lists, Walkers
<1>2. Len(walk[a]) > 0 /\ Len(walk[a]) \in Nat /\ Head(walk[a]) = walk[a][1]
      /\ Head(walk[a]) \in Waiter
  BY <1>1, Rests
<1> QED BY <1>1, <1>2 DEF AllBlocked

\* A reap in progress goes on, or its death is reported.
LEMMA Steady ==
  ASSUME Reaped,
         \A c \in Child : Told(c) => Told(c)',
         \A c \in Child : reapers'[c] > 0 \/ rpc'[c] # "none" =>
           Told(c)' \/ reapers[c] > 0 \/ rpc[c] # "none",
         \A c \in linked \ linked' :
           Told(c)' \/ \E w \in Waiter : busy'[w] = c /\ wpc'[w] \in {"remove", "relock"},
         \A c \in valid \ valid' :
           Told(c)' \/ \E w \in Waiter : busy'[w] = c /\ wpc'[w] = "relock",
         \A w \in Waiter : wpc[w] = "relock" =>
           \/ busy[w] \in Child => told'[busy[w]] # <<>>
           \/ wpc'[w] = "relock" /\ busy'[w] = busy[w],
         \A w \in Waiter : wpc[w] = "remove" =>
           wpc'[w] \in {"remove", "relock"} /\ busy'[w] = busy[w]
  PROVE  Reaped'
<1>1. ASSUME NEW c \in Child, reapers'[c] > 0 \/ rpc'[c] # "none" PROVE Told(c)'
  BY <1>1 DEF Reaped
<1>2. ASSUME NEW c \in Child \ linked'
      PROVE  Told(c)' \/ ReapedAt(c, {"remove", "relock"})'
  <2>1. CASE c \in linked
    BY <1>2, <2>1 DEF ReapedAt
  <2>2. CASE c \notin linked
    <3>1. Told(c) \/ ReapedAt(c, {"remove", "relock"})
      BY <1>2, <2>2 DEF Reaped
    <3>2. ASSUME NEW w \in Waiter, busy[w] = c, wpc[w] \in {"remove", "relock"}
          PROVE  Told(c)' \/ (busy'[w] = c /\ wpc'[w] \in {"remove", "relock"})
      BY <1>2, <3>2 DEF Told
    <3> QED BY <1>2, <3>1, <3>2 DEF ReapedAt
  <2> QED BY <2>1, <2>2
<1>3. ASSUME NEW c \in Child \ valid'
      PROVE  Told(c)' \/ ReapedAt(c, {"relock"})'
  <2>1. CASE c \in valid
    BY <1>3, <2>1 DEF ReapedAt
  <2>2. CASE c \notin valid
    <3>1. Told(c) \/ ReapedAt(c, {"relock"})
      BY <1>3, <2>2 DEF Reaped
    <3>2. ASSUME NEW w \in Waiter, busy[w] = c, wpc[w] = "relock"
          PROVE  Told(c)' \/ (busy'[w] = c /\ wpc'[w] = "relock")
      BY <1>3, <3>2 DEF Told
    <3> QED BY <1>3, <3>1, <3>2 DEF ReapedAt
  <2> QED BY <2>1, <2>2
<1> QED BY <1>1, <1>2, <1>3 DEF Reaped

\* Steps that report nothing, reap nothing and leave the reaping waiters alone.
LEMMA Calm ==
  ASSUME Reaped, UNCHANGED <<told, reapers, rpc, linked, valid, busy>>,
         \A w \in Waiter : wpc[w] \in {"remove", "relock"} => wpc'[w] = wpc[w]
  PROVE  Reaped'
BY DEF Reaped, ReapedAt, Told

-----------------------------------------------------------------------------
(* The steps keep Reaped                                                   *)

LEMMA WaiterReaped ==
  ASSUME LInv, NEW w \in Waiter, Call(w) \/ WaiterStep(w)
  PROVE  Reaped'
<1>0. /\ EInv /\ Reaped /\ wpc \in [Waiter -> WaiterPlace]
      /\ busy \in [Waiter -> Child \cup {None}]
  BY Types DEF LInv
<1>1. CASE Call(w)
  <2>1. UNCHANGED <<told, reapers, rpc, linked, valid, busy>>
    BY <1>1 DEF Call, childVars, reapVars, hist
  <2>2. wpc[w] = "user" /\ WGoto(w, "scan")
    BY <1>1 DEF Call
  <2> QED BY <1>0, <2>1, <2>2, Calm DEF WGoto
<1>2. CASE \/ ScanNext(w) \/ ScanChild(w) \/ ScanEnd(w) \/ Prepare(w)
           \/ Register(w)
  <2>1. UNCHANGED <<told, reapers, rpc, linked, valid>> /\ wpc[w] \in Scans
    BY <1>2 DEF ScanNext, ScanChild, ScanEnd, Prepare, Register, ReportChange,
                childVars, reapVars, hist, Scans
  <2>2. \A v \in Waiter \ {w} : wpc'[v] = wpc[v] /\ busy'[v] = busy[v]
    BY <1>0, <1>2 DEF ScanNext, ScanChild, ScanEnd, Prepare, Register, Answer, WGoto
  <2> QED BY <1>0, <2>1, <2>2, Steady DEF Told, Scans
<1>3. CASE WaiterReaps(w)
  <2>1. /\ UNCHANGED <<told, reapers, rpc, busy>>
        /\ \E l \in {"unlink", "remove", "relock"} : WGoto(w, l)
    BY <1>3 DEF WaiterReaps, reapVars, hist
  <2>2. \A v \in Waiter \ {w} : wpc'[v] = wpc[v]
    BY <1>0, <2>1 DEF WGoto
  <2>3. wpc[w] # "relock" /\ (wpc[w] = "remove" => wpc'[w] = "relock")
    BY <1>0, <1>3 DEF WaiterReaps, WGoto
  <2>4. \A c \in linked \ linked' : busy'[w] = c /\ wpc'[w] = "remove"
    BY <1>0, <1>3 DEF WaiterReaps, ReapUnlink, ReapRemove, WGoto
  <2>5. \A c \in valid \ valid' : busy'[w] = c /\ wpc'[w] = "relock"
    BY <1>0, <1>3 DEF WaiterReaps, ReapUnlink, ReapRemove, WGoto
  <2> QED BY <1>0, <2>1, <2>2, <2>3, <2>4, <2>5, Steady DEF Told
<1>4. CASE ReapReport(w)
  <2>1. /\ UNCHANGED <<reapers, rpc, linked, valid>> /\ wpc[w] = "relock"
        /\ ReportDeath(busy[w])
    BY <1>4 DEF ReapReport, reapVars
  <2>2. busy[w] \in Child
    BY <1>0, <2>1 DEF EInv, IInv, Reaping, Fields
  <2>3. told'[busy[w]] # <<>> /\ \A d \in Child : Told(d) => Told(d)'
    <3>1. PICK c \in Child : c = busy[w]
      BY <2>2
    <3>2. ReportDeath(c)
      BY <2>1, <3>1
    <3>3. told'[c] # <<>> /\ \A d \in Child : Told(d) => told'[d] # <<>>
      BY <1>0, <3>2, ReportKeeps
    <3>4. told'[busy[w]] # <<>>
      BY <3>1, <3>3
    <3> QED BY <3>3, <3>4 DEF Told
  <2>4. \A v \in Waiter \ {w} : wpc'[v] = wpc[v] /\ busy'[v] = busy[v]
    BY <1>0, <1>4 DEF ReapReport, Answer
  <2> QED BY <1>0, <2>1, <2>3, <2>4, Steady DEF Told
<1> QED BY <1>1, <1>2, <1>3, <1>4 DEF WaiterStep

LEMMA ActorReaped ==
  ASSUME LInv, NEW a \in Actor, ActorStep(a)
  PROVE  Reaped'
<1>0. /\ EInv /\ Reaped /\ wpc \in [Waiter -> WaiterPlace]
      /\ busy \in [Waiter -> Child \cup {None}]
  BY Types DEF LInv
<1>1. CASE ~Handle(a)
  <2>1. UNCHANGED <<told, reapers, rpc, linked, valid, busy, wpc>>
    BY <1>1 DEF ActorStep, FindParent, NoParent, StateChange, Trigger, HandlerLock,
                TriggerEnd, Send, Enqueue, Write, Mark, childVars, waitVars,
                reapVars, hist
  <2> QED BY <1>0, <2>1, Calm
<1>2. CASE Handle(a)
  <2>0. PICK w : w = Head(walk[a])
    OBVIOUS
  <2>1. cpc[a] = "handle" /\ UNCHANGED <<linked, valid, rpc>>
    BY <1>2 DEF Handle
  <2>2. w \in Waiter /\ wpc[w] = "blocked"
    BY <1>0, <2>0, <2>1, Answered
  <2>3. UNCHANGED waitVars \/ Answer(w)
    BY <1>2, <2>0 DEF Handle, Fire
  <2>4. \A v \in Waiter : wpc[v] # "blocked" => wpc'[v] = wpc[v] /\ busy'[v] = busy[v]
    BY <1>0, <2>2, <2>3 DEF waitVars, Answer
  <2>5. subj[a] \in Child
    BY <1>0, <2>1 DEF EInv, IInv, Actors, Actor
  <2>6. \/ UNCHANGED <<told, reapers>>
        \/ /\ ReportDeath(subj[a])
           /\ reapers' = [reapers EXCEPT ![subj[a]] = @ + 1]
    BY <1>2 DEF Handle, ReportChange
  <2>7. CASE UNCHANGED <<told, reapers>>
    BY <1>0, <2>1, <2>4, <2>7, Steady DEF Told
  <2>8. CASE /\ ReportDeath(subj[a])
             /\ reapers' = [reapers EXCEPT ![subj[a]] = @ + 1]
    <3>1. PICK c \in Child : c = subj[a]
      BY <2>5
    <3>2. ReportDeath(c) /\ reapers' = [reapers EXCEPT ![c] = @ + 1]
      BY <2>8, <3>1
    <3>3. Told(c)' /\ \A d \in Child : Told(d) => Told(d)'
      BY <1>0, <3>2, ReportKeeps DEF Told
    <3>4. \A d \in Child : d # c => reapers'[d] = reapers[d]
      BY <1>0, <3>2 DEF EInv, OtherFields
    <3> QED BY <1>0, <2>1, <2>4, <3>3, <3>4, Steady
  <2> QED BY <2>6, <2>7, <2>8
<1> QED BY <1>1, <1>2

LEMMA OtherReaped ==
  ASSUME LInv,
         Quiet \/ \E c \in Child : ReaperReaps(c)
  PROVE  Reaped'
<1>0. EInv /\ Reaped
  BY DEF LInv
<1>1. CASE Quiet
  <2>1. UNCHANGED <<told, reapers, rpc, linked, valid, busy, wpc>>
    BY <1>0, <1>1, QuietSteps, Types
  <2> QED BY <1>0, <2>1, Calm
<1>2. ASSUME NEW c \in Child, ReaperReaps(c) PROVE Reaped'
  <2>1. UNCHANGED <<told, busy, wpc>>
    BY <1>2 DEF ReaperReaps, waitVars, hist
  <2>2. Told(c)
    BY <1>0, <1>2 DEF ReaperReaps, ReaperStarts, Reaped
  <2>3. \A d \in Child : d # c => reapers'[d] = reapers[d] /\ rpc'[d] = rpc[d]
    BY <1>0, <1>2 DEF ReaperReaps, ReaperStarts, EInv, OtherFields
  <2>4. linked \ linked' \subseteq {c} /\ valid \ valid' \subseteq {c}
    BY <1>2 DEF ReaperReaps, ReapUnlink, ReapRemove
  <2> QED BY <1>0, <2>1, <2>2, <2>3, <2>4, Steady DEF Told
<1> QED BY <1>1, <1>2

-----------------------------------------------------------------------------
(* The mutex                                                               *)

\* Steps that leave the mutex alone.
LEMMA Unlocked ==
  ASSUME Mutexes, UNCHANGED mtx,
         \A w \in Waiter : wpc'[w] \in Scans <=> wpc[w] \in Scans,
         \A a \in Actor : cpc'[a] = "handle" => cpc[a] = "handle"
  PROVE  Mutexes'
BY DEF Mutexes

LEMMA WaiterMutex ==
  ASSUME LInv, NEW w \in Waiter, Call(w) \/ WaiterStep(w)
  PROVE  Mutexes'
<1>0. /\ EInv /\ Mutexes /\ wpc \in [Waiter -> WaiterPlace]
  BY Types DEF LInv
<1>1. CASE Call(w)
  <2>1. mtx = None /\ mtx' = w /\ WGoto(w, "scan") /\ UNCHANGED cpc
    BY <1>1 DEF Call, actorVars
  <2>2. \A v \in Waiter : wpc'[v] \in Scans <=> v = w
    BY <1>0, <2>1, Wait4Assumption DEF Mutexes, WGoto, Scans
  <2>3. \A a \in Actor : cpc[a] # "handle"
    BY <1>0, <2>1, Wait4Assumption DEF Mutexes, Actor
  <2> QED BY <2>1, <2>2, <2>3 DEF Mutexes
<1>2. CASE \/ ScanNext(w) \/ ScanChild(w) \/ ScanEnd(w) \/ Prepare(w)
           \/ Register(w)
  <2>1. mtx = w /\ UNCHANGED cpc
    BY <1>0, <1>2 DEF ScanNext, ScanChild, ScanEnd, Prepare, Register, Mutexes,
                      Scans, actorVars
  <2>2. \A a \in Actor : cpc'[a] # "handle"
    BY <1>0, <2>1, Wait4Assumption DEF Mutexes, Actor
  <2>3. \A v \in Waiter \ {w} : wpc[v] \notin Scans /\ wpc'[v] = wpc[v]
    BY <1>0, <1>2, <2>1 DEF ScanNext, ScanChild, ScanEnd, Prepare, Register,
                            Answer, WGoto, Mutexes
  <2>4. \/ mtx' = w /\ wpc'[w] \in Scans
        \/ mtx' = None /\ wpc'[w] \notin Scans
    <3>1. CASE ScanNext(w) \/ Prepare(w)
      BY <1>0, <2>1, <3>1 DEF ScanNext, Prepare, WGoto, Scans, lockVars
    <3>2. CASE ScanChild(w)
      BY <1>0, <2>1, <3>2 DEF ScanChild, Answer, WGoto, Scans
    <3>3. CASE ScanEnd(w) \/ Register(w)
      BY <1>0, <2>1, <3>3 DEF ScanEnd, Register, Answer, WGoto, Scans
    <3> QED BY <1>2, <3>1, <3>2, <3>3
  <2> QED BY <2>2, <2>3, <2>4, Wait4Assumption DEF Mutexes
<1>3. CASE WaiterReaps(w) \/ ReapReport(w)
  <2>1. UNCHANGED <<mtx, cpc>>
    BY <1>3 DEF WaiterReaps, ReapReport, actorVars
  <2>2. wpc[w] \notin Scans /\ wpc'[w] \notin Scans
        /\ \A v \in Waiter \ {w} : wpc'[v] = wpc[v]
    BY <1>0, <1>3 DEF WaiterReaps, ReapReport, Answer, WGoto, Scans
  <2> QED BY <1>0, <2>1, <2>2, Unlocked
<1> QED BY <1>1, <1>2, <1>3 DEF WaiterStep

LEMMA ActorMutex ==
  ASSUME LInv, NEW a \in Actor, ActorStep(a)
  PROVE  Mutexes'
<1>0. /\ EInv /\ Mutexes /\ wpc \in [Waiter -> WaiterPlace]
      /\ cpc \in [Actor -> ActorPlace]
  BY Types DEF LInv
<1>1. CASE HandlerLock(a)
  <2>1. mtx = None /\ mtx' = a /\ CGoto(a, "handle") /\ UNCHANGED wpc
    BY <1>1 DEF HandlerLock, waitVars
  <2>2. \A w \in Waiter : wpc[w] \notin Scans /\ w # a
    BY <1>0, <2>1, Wait4Assumption DEF Mutexes, Actor
  <2>3. \A b \in Actor : cpc'[b] = "handle" => b = a
    BY <1>0, <2>1, Wait4Assumption DEF Mutexes, CGoto, Actor
  <2> QED BY <2>1, <2>2, <2>3 DEF Mutexes
<1>2. CASE Handle(a)
  <2>0. PICK w : w = Head(walk[a])
    OBVIOUS
  <2>1. cpc[a] = "handle" /\ mtx' = None /\ CGoto(a, "walk") /\ mtx = a
    BY <1>0, <1>2 DEF Handle, Mutexes
  <2>2. UNCHANGED waitVars \/ Answer(w)
    BY <1>2, <2>0 DEF Handle, Fire
  <2>3. \A v \in Waiter : wpc[v] \notin Scans
    BY <1>0, <2>1, Wait4Assumption DEF Mutexes, Actor
  <2>4. \A v \in Waiter : wpc'[v] \notin Scans /\ v # None
    BY <1>0, <2>2, <2>3, Wait4Assumption DEF waitVars, Answer, Scans
  <2>5. \A b \in Actor : cpc'[b] # "handle"
    BY <1>0, <2>1 DEF Mutexes, CGoto
  <2> QED BY <2>1, <2>4, <2>5 DEF Mutexes
<1>3. CASE ~HandlerLock(a) /\ ~Handle(a)
  <2>1. UNCHANGED <<mtx, wpc>>
    BY <1>3 DEF ActorStep, FindParent, NoParent, StateChange, Trigger, TriggerEnd,
                Send, Enqueue, Write, Mark, lockVars, waitVars
  <2>2. UNCHANGED cpc \/ \E l : l # "handle" /\ CGoto(a, l)
    <3>1. CASE TriggerEnd(a)
      <4>1. a \in Sender \/ a \in Child \ zombie \/ a \in zombie
        BY DEF Actor
      <4>2. \E l \in {"idle", "mark", "done"} : CGoto(a, l)
        BY <3>1, <4>1, Wait4Assumption, Types DEF LInv, TriggerEnd
      <4> QED BY <4>2
    <3>2. CASE ~TriggerEnd(a)
      BY <1>3, <3>2 DEF ActorStep, FindParent, NoParent, StateChange, Trigger,
                        Send, Enqueue, Write, ReadsProc, Mark
    <3> QED BY <3>1, <3>2
  <2> QED BY <1>0, <2>1, <2>2, Unlocked DEF CGoto
<1> QED BY <1>1, <1>2, <1>3

LEMMA OtherMutex ==
  ASSUME LInv,
         Quiet \/ \E c \in Child : ReaperReaps(c)
  PROVE  Mutexes'
<1>0. cpc \in [Actor -> ActorPlace]
  BY Types DEF LInv
<1>1. CASE Quiet
  BY <1>0, <1>1, QuietSteps, Unlocked DEF LInv
<1>2. CASE \E c \in Child : ReaperReaps(c)
  BY <1>2, Unlocked DEF LInv, ReaperReaps, waitVars, actorVars
<1> QED BY <1>1, <1>2

-----------------------------------------------------------------------------
(* The invariant                                                           *)

LEMMA LocksStart == Init => LInv
<1> SUFFICES ASSUME Init PROVE LInv
  OBVIOUS
<1>1. Mutexes
  BY Wait4Assumption DEF Init, Mutexes, Actor, Scans
<1>2. Reaped
  BY DEF Init, Reaped
<1> QED BY <1>1, <1>2, EventsStart DEF LInv

LEMMA LocksStep == LInv /\ [Next]_vars => LInv'
<1> SUFFICES ASSUME LInv, [Next]_vars PROVE LInv'
  OBVIOUS
<1>0. EInv'
  BY EventsStep DEF LInv
<1>1. ASSUME NEW w \in Waiter, Call(w) \/ WaiterStep(w) PROVE LInv'
  BY <1>0, <1>1, WaiterReaped, WaiterMutex DEF LInv
<1>2. ASSUME NEW a \in Actor, ActorStep(a) PROVE LInv'
  BY <1>0, <1>2, ActorReaped, ActorMutex DEF LInv
<1>3. ASSUME Quiet \/ \E c \in Child : ReaperReaps(c)
      PROVE  LInv'
  BY <1>0, <1>3, OtherReaped, OtherMutex DEF LInv
<1> QED BY <1>1, <1>2, <1>3 DEF Next, Rest, Quiet

\* The owners of the mutex and the state of each reap, in every state.
THEOREM LocksInvariance == Spec => []LInv
<1> QED BY LocksStart, LocksStep, PTL DEF Spec

\* No death is lost by a reap, whichever of waiters, handlers and detached
\* threads come to it, in any number (wait4.c:66-119, 177-195).
THEOREM Deaths == Spec => []ReapedIsReported
<1>1. LInv => ReapedIsReported
  <2> SUFFICES ASSUME Reaped, NEW c \in Child, c \notin linked \cap valid
               PROVE  \/ told[c] # <<>>
                      \/ \E w \in Waiter : busy[w] = c /\ wpc[w] \in {"remove", "relock"}
    BY DEF LInv, ReapedIsReported
  <2> QED BY DEF Reaped, Told, ReapedAt
<1> QED BY <1>1, LocksInvariance, PTL

-----------------------------------------------------------------------------
(* Who holds a lock is at one of the points between taking it and letting  *)
(* it go; Mutexes has the waiters' side of the children mutex.             *)

Owners ==
  /\ \A a \in Actor : mtx = a => cpc[a] = "handle"
  /\ \A a \in Actor : ev = a => cpc[a] \in {"walk", "handle"}
  /\ \A w \in Waiter : tab = w => wpc[w] \in {"unlink", "remove"}
  /\ \A c \in Child : tab = c => rpc[c] \in {"unlink", "remove"}
  /\ \A c \in Child : \A w \in readers[c] :
       busy[w] = c /\ wpc[w] \in {"reap", "unlink", "remove", "relock"}

DInv == LInv /\ Owners

\* Steps that keep the locks, and whose thread holds none.
LEMMA NothingHeld ==
  ASSUME Owners, UNCHANGED <<mtx, ev, tab, readers>>,
         \A a \in Actor : cpc'[a] # cpc[a] => mtx # a /\ ev # a,
         \A w \in Waiter : wpc'[w] # wpc[w] \/ busy'[w] # busy[w] =>
           wpc[w] \notin {"reap", "unlink", "remove", "relock"},
         readers \in [Child -> SUBSET Waiter],
         UNCHANGED rpc
  PROVE  Owners'
BY DEF Owners

LEMMA WaiterOwns ==
  ASSUME DInv, NEW w \in Waiter, Call(w) \/ WaiterStep(w)
  PROVE  Owners'
<1>0. /\ EInv /\ Owners /\ wpc \in [Waiter -> WaiterPlace]
      /\ busy \in [Waiter -> Child \cup {None}]
      /\ readers \in [Child -> SUBSET Waiter]
      /\ tab \in Waiter \cup Child \cup {None}
      /\ w \notin Actor /\ None \notin Actor /\ w \notin Child /\ w # None
  BY Types, Wait4Assumption DEF DInv, LInv, EInv, OtherFields, Actor
<1>1. CASE Call(w) \/ ScanNext(w) \/ ScanChild(w) \/ ScanEnd(w) \/ Prepare(w)
           \/ Register(w)
  <2>1. /\ UNCHANGED <<ev, tab, cpc, rpc>>
        /\ mtx' \notin Actor \/ mtx' = mtx
        /\ wpc[w] \in {"user", "scan", "look", "register"}
    BY <1>0, <1>1 DEF Call, ScanNext, ScanChild, ScanEnd, Prepare, Register,
                      lockVars, actorVars, reapVars
  <2>2. \A v \in Waiter \ {w} : wpc'[v] = wpc[v] /\ busy'[v] = busy[v]
    BY <1>0, <1>1 DEF Call, ScanNext, ScanChild, ScanEnd, Prepare, Register,
                      Answer, WGoto
  <2>3. \A c \in Child : \A v \in readers'[c] :
          \/ v \in readers[c]
          \/ v = w /\ busy'[w] = c /\ wpc'[w] = "reap"
    <3>1. CASE ~ScanChild(w)
      BY <1>0, <1>1, <3>1 DEF Call, ScanNext, ScanEnd, Prepare, Register, lockVars
    <3>2. CASE ScanChild(w)
      <4>1. \/ UNCHANGED readers
            \/ /\ readers' = [readers EXCEPT ![busy[w]] = @ \cup {w}]
               /\ WGoto(w, "reap") /\ busy' = busy
        BY <3>2 DEF ScanChild
      <4> QED BY <1>0, <4>1 DEF WGoto
    <3> QED BY <3>1, <3>2
  <2>4. \A c \in Child : w \notin readers[c]
    BY <1>0, <2>1 DEF Owners
  <2>5. tab # w
    BY <1>0, <2>1 DEF Owners
  <2>6. \A c \in Child : \A v \in readers'[c] :
          busy'[v] = c /\ wpc'[v] \in {"reap", "unlink", "remove", "relock"}
    BY <1>0, <2>2, <2>3, <2>4 DEF Owners
  <2> QED BY <1>0, <2>1, <2>2, <2>5, <2>6 DEF Owners
<1>2. CASE WaiterReaps(w)
  <2>1. UNCHANGED <<mtx, ev, cpc, rpc, readers, busy>>
    BY <1>2 DEF WaiterReaps, actorVars, reapVars
  <2>2. /\ wpc[w] \in {"reap", "unlink", "remove"}
        /\ wpc'[w] \in {"unlink", "remove", "relock"}
        /\ \A v \in Waiter \ {w} : wpc'[v] = wpc[v]
    BY <1>0, <1>2 DEF WaiterReaps, WGoto
  <2>3. \/ tab' = w /\ wpc'[w] = "unlink"
        \/ tab' = tab /\ (wpc'[w] = "remove" \/ tab = None)
        \/ tab' = None
    BY <1>0, <1>2 DEF WaiterReaps, ReapBegin, ReapRefused, ReapRemove, WGoto,
      TableFree
  <2>4. \A c \in Child : \A v \in readers'[c] :
          busy'[v] = c /\ wpc'[v] \in {"reap", "unlink", "remove", "relock"}
    BY <1>0, <2>1, <2>2 DEF Owners
  <2>5. None \notin Waiter \cup Child
    BY Wait4Assumption
  <2> QED BY <1>0, <2>1, <2>2, <2>3, <2>4, <2>5 DEF Owners
<1>3. CASE ReapReport(w)
  <2>1. /\ UNCHANGED <<mtx, ev, tab, cpc, rpc>> /\ wpc[w] = "relock"
        /\ readers' = [readers EXCEPT ![busy[w]] = @ \ {w}]
    BY <1>3 DEF ReapReport, actorVars, reapVars
  <2>2. \A v \in Waiter \ {w} : wpc'[v] = wpc[v] /\ busy'[v] = busy[v]
    BY <1>0, <1>3 DEF ReapReport, Answer
  <2>3. \A c \in Child : readers'[c] \subseteq readers[c] /\ w \notin readers'[c]
    BY <1>0, <2>1 DEF Owners
  <2>4. \A c \in Child : \A v \in readers'[c] :
          busy'[v] = c /\ wpc'[v] \in {"reap", "unlink", "remove", "relock"}
    BY <1>0, <2>2, <2>3 DEF Owners
  <2>5. tab # w
    BY <1>0, <2>1 DEF Owners
  <2> QED BY <1>0, <2>1, <2>2, <2>4, <2>5 DEF Owners
<1> QED BY <1>1, <1>2, <1>3 DEF WaiterStep

LEMMA ActorOwns ==
  ASSUME DInv, NEW a \in Actor, ActorStep(a)
  PROVE  Owners'
<1>0. /\ EInv /\ Owners /\ wpc \in [Waiter -> WaiterPlace]
      /\ cpc \in [Actor -> ActorPlace]
      /\ readers \in [Child -> SUBSET Waiter] /\ a # None
  BY Types, Wait4Assumption DEF DInv, LInv, EInv, OtherFields, Actor
<1>1. CASE \/ FindParent(a) \/ NoParent(a) \/ StateChange(a)
           \/ (a \in Sender /\ (Send(a) \/ Enqueue(a) \/ Write(a)))
           \/ (a \in Child /\ Mark(a))
  <2>1. /\ UNCHANGED <<mtx, ev, tab, readers, wpc, busy, rpc>>
        /\ cpc[a] \notin {"walk", "handle"}
    BY <1>1 DEF FindParent, NoParent, StateChange, Send, Enqueue, Write, Mark,
                lockVars, waitVars, reapVars
  <2>2. \A b \in Actor : b # a => cpc'[b] = cpc[b]
    BY <1>0, <1>1 DEF FindParent, NoParent, StateChange, Send, Enqueue, Write,
                      ReadsProc, Mark, CGoto
  <2>3. mtx # a /\ ev # a
    BY <1>0, <2>1 DEF Owners
  <2> QED BY <1>0, <2>1, <2>2, <2>3, NothingHeld
<1>2. CASE Trigger(a) \/ TriggerEnd(a)
  <2>1. /\ UNCHANGED <<mtx, tab, readers, wpc, busy, rpc>>
        /\ cpc[a] # "handle"
        /\ ev' = None \/ (ev' = a /\ CGoto(a, "walk"))
    BY <1>2 DEF Trigger, TriggerEnd, waitVars, reapVars
  <2>2. \A b \in Actor : b # a => cpc'[b] = cpc[b]
    BY <1>0, <1>2 DEF Trigger, TriggerEnd, CGoto
  <2>3. mtx # a /\ None \notin Actor
    BY <1>0, <2>1, Wait4Assumption DEF Owners, Actor
  <2>4. \A b \in Actor : ev' = b => cpc'[b] \in {"walk", "handle"}
    BY <1>0, <2>1, <2>3 DEF CGoto
  <2> QED BY <1>0, <2>1, <2>2, <2>3, <2>4 DEF Owners
<1>3. CASE HandlerLock(a)
  <2>1. /\ UNCHANGED <<ev, tab, readers, wpc, busy, rpc>>
        /\ mtx' = a /\ CGoto(a, "handle")
    BY <1>3 DEF HandlerLock, waitVars, reapVars
  <2> QED BY <1>0, <2>1 DEF Owners, CGoto
<1>4. CASE Handle(a)
  <2>0. PICK w : w = Head(walk[a])
    OBVIOUS
  <2>1. /\ UNCHANGED <<ev, tab, readers, rpc>> /\ cpc[a] = "handle"
        /\ mtx' = None /\ CGoto(a, "walk") /\ (UNCHANGED waitVars \/ Answer(w))
    BY <1>4, <2>0 DEF Handle, Fire
  <2>2. wpc[w] = "blocked"
    BY <1>0, <2>0, <2>1, Answered
  <2>3. \A v \in Waiter : wpc[v] # "blocked" => wpc'[v] = wpc[v] /\ busy'[v] = busy[v]
    BY <1>0, <2>1, <2>2, Types DEF waitVars, Answer
  <2>4. None \notin Actor
    BY Wait4Assumption DEF Actor
  <2>5. \A c \in Child : \A v \in readers'[c] :
          busy'[v] = c /\ wpc'[v] \in {"reap", "unlink", "remove", "relock"}
    BY <1>0, <2>1, <2>3 DEF Owners
  <2> QED BY <1>0, <2>1, <2>3, <2>4, <2>5 DEF Owners, CGoto
<1> QED BY <1>1, <1>2, <1>3, <1>4 DEF ActorStep

LEMMA OtherOwns ==
  ASSUME DInv,
         Quiet \/ \E c \in Child : ReaperReaps(c)
  PROVE  Owners'
<1>0. /\ Owners /\ readers \in [Child -> SUBSET Waiter]
      /\ cpc \in [Actor -> ActorPlace]
      /\ rpc \in [Child -> {"none", "unlink", "remove"}]
  BY Types DEF DInv, LInv, EInv, OtherFields
<1>1. CASE Quiet
  <2>1. UNCHANGED <<mtx, ev, tab, readers, wpc, busy, rpc>>
    BY <1>0, <1>1, QuietSteps
  <2>2. \A a \in Actor : cpc'[a] # cpc[a] => cpc[a] = "idle"
    BY <1>0, <1>1, QuietSteps
  <2>3. \A a \in Actor : cpc'[a] # cpc[a] => mtx # a /\ ev # a
    BY <1>0, <2>2 DEF Owners
  <2> QED BY <1>0, <2>1, <2>3, NothingHeld
<1>2. ASSUME NEW c \in Child, ReaperReaps(c) PROVE Owners'
  <2>1. UNCHANGED <<mtx, ev, readers, wpc, busy, cpc>>
    BY <1>2 DEF ReaperReaps, waitVars, actorVars
  <2>2. \A d \in Child \ {c} : rpc'[d] = rpc[d]
    BY <1>0, <1>2 DEF ReaperReaps
  <2>3. \/ tab' = c /\ rpc'[c] = "unlink"
        \/ tab' = tab /\ (rpc'[c] = "remove" \/ tab = None)
        \/ tab' = None
    BY <1>0, <1>2 DEF ReaperReaps, ReapBegin, ReapRefused, ReapRemove,
      TableFree
  <2>4. None \notin Waiter \cup Child /\ c \notin Waiter
    BY Wait4Assumption
  <2> QED BY <1>0, <2>1, <2>2, <2>3, <2>4 DEF Owners
<1> QED BY <1>1, <1>2

LEMMA OwnersStart == Init => DInv
<1> SUFFICES ASSUME Init PROVE DInv
  OBVIOUS
<1>1. Owners
  BY Wait4Assumption DEF Init, Owners, Actor
<1> QED BY <1>1, LocksStart DEF DInv

LEMMA OwnersStep == DInv /\ [Next]_vars => DInv'
<1> SUFFICES ASSUME DInv, [Next]_vars PROVE DInv'
  OBVIOUS
<1>0. LInv'
  BY LocksStep DEF DInv
<1>1. ASSUME NEW w \in Waiter, Call(w) \/ WaiterStep(w) PROVE DInv'
  BY <1>0, <1>1, WaiterOwns DEF DInv
<1>2. ASSUME NEW a \in Actor, ActorStep(a) PROVE DInv'
  BY <1>0, <1>2, ActorOwns DEF DInv
<1>3. ASSUME Quiet \/ \E c \in Child : ReaperReaps(c)
      PROVE  DInv'
  BY <1>0, <1>3, OtherOwns DEF DInv
<1> QED BY <1>1, <1>2, <1>3 DEF Next, Rest, Quiet

-----------------------------------------------------------------------------
(* The cycles                                                              *)

\* A writer that waits for readers waits on as long as there are any.
LEMMA WriterWaits ==
  ASSUME LInv, NEW b \in Actor, cpc[b] \in {"queue", "handle"},
         readers[subj[b]] # {}, [Next]_vars
  PROVE  cpc'[b] = cpc[b] /\ subj'[b] = subj[b]
<1>0. /\ cpc \in [Actor -> ActorPlace] /\ subj \in [Actor -> Child \cup {None}]
      /\ Child \subseteq Actor /\ Sender \subseteq Actor
  BY Types DEF LInv, Actor
<1>1. ASSUME NEW w \in Waiter, Call(w) \/ WaiterStep(w) PROVE UNCHANGED <<cpc, subj>>
  BY <1>1 DEF Call, WaiterStep, ScanNext, ScanChild, ScanEnd, Prepare, Register,
              WaiterReaps, ReapReport, actorVars
<1>2. ASSUME NEW a \in Actor, ActorStep(a) PROVE cpc'[b] = cpc[b] /\ subj'[b] = subj[b]
  <2>1. UNCHANGED subj
    BY <1>2 DEF ActorStep, FindParent, NoParent, StateChange, Trigger, HandlerLock,
                Handle, TriggerEnd, Send, Enqueue, Write, Mark
  <2>2. UNCHANGED cpc \/ (a # b /\ \E l : CGoto(a, l))
    BY <1>2 DEF ActorStep, FindParent, NoParent, StateChange, Trigger, HandlerLock,
                Handle, TriggerEnd, Send, Enqueue, Write, ReadsProc, Mark
  <2> QED BY <1>0, <2>1, <2>2 DEF CGoto
<1>3. ASSUME NEW c \in Child, Exit(c) \/ ReaperReaps(c)
      PROVE  cpc'[b] = cpc[b] /\ subj'[b] = subj[b]
  <2>1. UNCHANGED subj /\ (UNCHANGED cpc \/ (c # b /\ CGoto(c, "state")))
    BY <1>3 DEF Exit, ReaperReaps, actorVars
  <2> QED BY <1>0, <2>1 DEF CGoto
<1>4. ASSUME NEW a \in Sender, Signal(a) \/ Setpgid(a)
      PROVE  cpc'[b] = cpc[b] /\ subj'[b] = subj[b]
  <2>1. PICK c, l : a # b /\ CGoto(a, l) /\ subj' = [subj EXCEPT ![a] = c]
    BY <1>4, CallBegins DEF Calls
  <2> QED BY <1>0, <2>1 DEF CGoto
<1>5. ASSUME (\E l \in Lister : List(l) \/ ListEnd(l)) \/ UNCHANGED vars
      PROVE  UNCHANGED <<cpc, subj>>
  BY <1>5 DEF List, ListEnd, vars, actorVars
<1> QED BY <1>1, <1>2, <1>3, <1>4, <1>5 DEF Next, Rest

\* The owner of the children mutex waits for event_rwlock or for a child's rwlock.
OwnerWaits ==
  \/ mtx \in Waiter /\ wpc[mtx] = "register" /\ ev # None
  \/ ScanCycle
  \/ mtx \in Actor /\ readers[subj[mtx]] # {}

\* ... then nobody takes the mutex over, or starts or ends reading.
LEMMA OwnerStays ==
  ASSUME LInv, OwnerWaits, [Next]_vars
  PROVE  /\ UNCHANGED <<mtx, readers>>
         /\ \A w \in Waiter : w = mtx => wpc'[w] = wpc[w] /\ busy'[w] = busy[w]
<1>0. /\ Mutexes /\ wpc \in [Waiter -> WaiterPlace] /\ mtx # None
      /\ \A w \in Waiter : wpc[w] = "blocked" => w # mtx
      /\ EInv
  BY Types, Wait4Assumption DEF LInv, OwnerWaits, ScanCycle, Actor, Mutexes, Scans
<1>1. ASSUME NEW w \in Waiter, Call(w) \/ WaiterStep(w)
      PROVE  WaiterReaps(w) /\ w # mtx
  <2>1. ~Call(w) /\ ~ReapReport(w)
    BY <1>0 DEF Call, ReapReport
  <2>2. CASE w = mtx
    <3>1. \/ wpc[w] = "register" /\ ev # None
          \/ wpc[w] = "look" /\ Queued(busy[w])
      BY <2>2, Wait4Assumption DEF OwnerWaits, ScanCycle, Actor
    <3> QED BY <1>1, <2>1, <3>1 DEF WaiterStep, ScanNext, ScanChild, ScanEnd,
                                    Prepare, Register, WaiterReaps
  <2>3. CASE w # mtx
    <3>1. wpc[w] \notin {"scan", "look", "register"}
      BY <1>0, <2>3 DEF Mutexes, Scans
    <3> QED BY <1>1, <2>1, <2>3, <3>1 DEF WaiterStep, ScanNext, ScanChild, ScanEnd,
                                    Prepare, Register
  <2> QED BY <2>2, <2>3
<1>2. ASSUME NEW w \in Waiter, Call(w) \/ WaiterStep(w)
      PROVE  /\ UNCHANGED <<mtx, readers>>
             /\ \A v \in Waiter : v = mtx => wpc'[v] = wpc[v] /\ busy'[v] = busy[v]
  <2>1. WaiterReaps(w) /\ w # mtx
    BY <1>1, <1>2
  <2> QED BY <1>0, <2>1 DEF WaiterReaps, WGoto
<1>3. ASSUME NEW a \in Actor, ActorStep(a) PROVE UNCHANGED <<mtx, readers, wpc, busy>>
  <2>1. ~StateChange(a) /\ ~HandlerLock(a)
    BY <1>0 DEF StateChange, HandlerLock
  <2>2. ~Handle(a)
    <3>1. SUFFICES ASSUME Handle(a) PROVE FALSE
      OBVIOUS
    <3>2. mtx = a /\ readers[subj[a]] = {}
      BY <1>0, <3>1 DEF Handle, Mutexes
    <3> QED BY <3>2, Wait4Assumption DEF OwnerWaits, ScanCycle, Actor
  <2> QED BY <1>3, <2>1, <2>2 DEF ActorStep, FindParent, NoParent, Trigger,
             TriggerEnd, Send, Enqueue, Write, Mark, lockVars, waitVars
<1>4. ASSUME NEW c \in Child, ReaperReaps(c) PROVE UNCHANGED <<mtx, readers, wpc, busy>>
  BY <1>4 DEF ReaperReaps, waitVars
<1>5. CASE Quiet
  BY <1>0, <1>5, QuietSteps, Types
<1> QED BY <1>2, <1>3, <1>4, <1>5 DEF Next, Rest, Quiet

\* A trigger whose next handler waits for the mutex waits on while it is taken.
LEMMA WalkerWaits ==
  ASSUME LInv, NEW a \in Actor, cpc[a] = "walk", walk[a] # <<>>, mtx # None,
         [Next]_vars
  PROVE  cpc'[a] = "walk" /\ walk'[a] = walk[a]
<1>0. /\ cpc \in [Actor -> ActorPlace] /\ walk \in [Actor -> Seq(Waiter)]
      /\ ev = a /\ ev # None
      /\ \A b \in Actor : cpc[b] \in {"walk", "handle"} => b = a
  BY Types, Wait4Assumption DEF LInv, EInv, Lists, Walkers, Actor
<1>1. ASSUME NEW w \in Waiter, Call(w) \/ WaiterStep(w) PROVE UNCHANGED <<cpc, walk>>
  BY <1>1 DEF Call, WaiterStep, ScanNext, ScanChild, ScanEnd, Prepare, Register,
              WaiterReaps, ReapReport, actorVars
<1>2. ASSUME NEW b \in Actor, ActorStep(b) PROVE cpc'[a] = "walk" /\ walk'[a] = walk[a]
  <2>1. ~Trigger(b) /\ ~HandlerLock(b) /\ ~TriggerEnd(b) /\ ~Handle(b)
    BY <1>0 DEF Trigger, HandlerLock, TriggerEnd, Handle
  <2>2. /\ UNCHANGED walk
        /\ UNCHANGED cpc \/ (cpc[b] # "walk" /\ \E l : CGoto(b, l))
    BY <1>2, <2>1 DEF ActorStep, FindParent, NoParent, StateChange, Send, Enqueue,
                      Write, ReadsProc, Mark
  <2> QED BY <1>0, <2>2 DEF CGoto
<1>3. ASSUME NEW c \in Child, ReaperReaps(c) PROVE UNCHANGED <<cpc, walk>>
  BY <1>3 DEF ReaperReaps, actorVars
<1>4. CASE Quiet
  BY <1>0, <1>4, QuietSteps
<1> QED BY <1>1, <1>2, <1>3, <1>4 DEF Next, Rest, Quiet

\* A waiter about to lock the table stays there while somebody walks it.
LEMMA ReaderWaits ==
  ASSUME DInv, NEW w \in Waiter, wpc[w] = "reap", ~TableFree,
         NEW c \in Child, w \in readers[c], [Next]_vars
  PROVE  wpc'[w] = "reap" /\ w \in readers'[c]
<1>0. /\ wpc \in [Waiter -> WaiterPlace] /\ readers \in [Child -> SUBSET Waiter]
      /\ busy \in [Waiter -> Child \cup {None}] /\ EInv
  BY Types DEF DInv, LInv, EInv, OtherFields
<1>1. ASSUME NEW v \in Waiter, Call(v) \/ WaiterStep(v)
      PROVE  wpc'[w] = "reap" /\ w \in readers'[c]
  <2>1. v # w
    BY <1>1 DEF Call, WaiterStep, ScanNext, ScanChild, ScanEnd, Prepare, Register,
                WaiterReaps, ReapReport, ReapBegin, ReapRefused
  <2>2. wpc' = wpc \/ \E l : wpc' = [wpc EXCEPT ![v] = l]
    BY <1>1 DEF Call, WaiterStep, ScanNext, ScanChild, ScanEnd, Prepare, Register,
                WaiterReaps, ReapReport, Answer, WGoto
  <2>3. \/ UNCHANGED readers
        \/ readers' = [readers EXCEPT ![busy[v]] = @ \cup {v}]
        \/ readers' = [readers EXCEPT ![busy[v]] = @ \ {v}]
    BY <1>1 DEF Call, WaiterStep, ScanNext, ScanChild, ScanEnd, Prepare, Register,
                WaiterReaps, ReapReport, lockVars
  <2> QED BY <1>0, <2>1, <2>2, <2>3
<1>2. ASSUME NEW a \in Actor, ActorStep(a) PROVE wpc'[w] = "reap" /\ w \in readers'[c]
  <2>1. UNCHANGED readers
    BY <1>2 DEF ActorStep, FindParent, NoParent, StateChange, Trigger, HandlerLock,
                Handle, TriggerEnd, Send, Enqueue, Write, Mark, lockVars
  <2>2. CASE ~Handle(a)
    BY <1>2, <2>1, <2>2 DEF ActorStep, FindParent, NoParent, StateChange, Trigger,
                HandlerLock, TriggerEnd, Send, Enqueue, Write, Mark, waitVars
  <2>3. CASE Handle(a)
    <3>0. PICK v : v = Head(walk[a])
      OBVIOUS
    <3>1. cpc[a] = "handle" /\ (UNCHANGED waitVars \/ Answer(v))
      BY <2>3, <3>0 DEF Handle, Fire
    <3>2. wpc[v] = "blocked"
      BY <1>0, <3>0, <3>1, Answered
    <3> QED BY <1>0, <2>1, <3>1, <3>2 DEF waitVars, Answer
  <2> QED BY <2>2, <2>3
<1>3. ASSUME NEW d \in Child, ReaperReaps(d) PROVE UNCHANGED <<wpc, readers>>
  BY <1>3 DEF ReaperReaps, waitVars
<1>4. CASE Quiet
  BY <1>0, <1>4, QuietSteps, Types
<1> QED BY <1>1, <1>2, <1>3, <1>4 DEF Next, Rest, Quiet

\* A walk of the table stays behind a writer that waits.
LEMMA ListerWaits ==
  ASSUME LInv, NEW l \in Lister, walker[l] # None, Queued(walker[l]), [Next]_vars
  PROVE  walker'[l] = walker[l]
<1>0. walker \in [Lister -> Child \cup {None}]
  BY DEF LInv, EInv, OtherFields
<1>1. ASSUME NEW k \in Lister, List(k) \/ ListEnd(k) PROVE walker'[l] = walker[l]
  <2>1. k # l /\ \E c : walker' = [walker EXCEPT ![k] = c]
    BY <1>1 DEF List, ListEnd
  <2> QED BY <1>0, <2>1
<1>2. ASSUME NEW w \in Waiter, Call(w) \/ WaiterStep(w) PROVE UNCHANGED walker
  BY <1>2 DEF Call, WaiterStep, ScanNext, ScanChild, ScanEnd, Prepare, Register,
              WaiterReaps, ReapReport, lockVars
<1>3. ASSUME NEW a \in Actor, ActorStep(a) PROVE UNCHANGED walker
  BY <1>3 DEF ActorStep, FindParent, NoParent, StateChange, Trigger, HandlerLock,
              Handle, TriggerEnd, Send, Enqueue, Write, Mark, lockVars
<1>4. ASSUME NEW c \in Child, Exit(c) \/ ReaperReaps(c) PROVE UNCHANGED walker
  BY <1>4 DEF Exit, ReaperReaps, lockVars
<1>5. ASSUME NEW a \in Sender, Signal(a) \/ Setpgid(a) PROVE UNCHANGED walker
  BY <1>5, CallBegins DEF Calls, lockVars
<1>6. CASE UNCHANGED vars
  BY <1>6 DEF vars, lockVars
<1> QED BY <1>1, <1>2, <1>3, <1>4, <1>5, <1>6 DEF Next, Rest

\* Each cycle lasts.
LEMMA RegisterLasts ==
  ASSUME LInv, RegisterCycle, [Next]_vars
  PROVE  RegisterCycle'
<1>1. PICK a \in Actor : cpc[a] = "walk" /\ walk[a] # <<>>
  BY DEF RegisterCycle
<1>2. PICK w \in Waiter : w = mtx /\ wpc[w] = "register"
  BY DEF RegisterCycle
<1>3. mtx # None /\ ev # None
  BY <1>1, <1>2, Wait4Assumption DEF LInv, EInv, Walkers, Actor
<1>4. mtx' = w /\ wpc'[w] = "register"
  BY <1>2, <1>3, OwnerStays DEF OwnerWaits
<1>5. cpc'[a] = "walk" /\ walk'[a] # <<>>
  BY <1>1, <1>3, WalkerWaits
<1> QED BY <1>4, <1>5 DEF RegisterCycle

LEMMA HandlerLasts ==
  ASSUME LInv, HandlerCycle, [Next]_vars
  PROVE  HandlerCycle'
<1>1. PICK a \in Actor : cpc[a] = "handle" /\ readers[subj[a]] # {}
  BY DEF HandlerCycle
<1>2. mtx = a
  BY <1>1 DEF LInv, Mutexes
<1>3. readers' = readers
  BY <1>1, <1>2, OwnerStays DEF OwnerWaits
<1>4. cpc'[a] = "handle" /\ subj'[a] = subj[a]
  BY <1>1, WriterWaits
<1> QED BY <1>1, <1>3, <1>4 DEF HandlerCycle

LEMMA ScanLasts ==
  ASSUME LInv, ScanCycle, [Next]_vars
  PROVE  ScanCycle'
<1>1. PICK w \in Waiter : w = mtx /\ wpc[w] = "look"
  BY DEF ScanCycle
<1>2. /\ mtx' = w /\ readers' = readers
      /\ wpc'[w] = "look" /\ busy'[w] = busy[w]
  BY <1>1, OwnerStays DEF OwnerWaits
<1>3. PICK b \in Actor : /\ subj[b] = busy[w] /\ cpc[b] \in {"queue", "handle"}
                         /\ readers[busy[w]] # {}
  BY <1>1 DEF ScanCycle, Queued
<1>4. cpc'[b] = cpc[b] /\ subj'[b] = subj[b]
  BY <1>3, WriterWaits
<1>5. PICK c : c = busy[w]
  OBVIOUS
<1>6. Queued(c)'
  BY <1>2, <1>3, <1>4, <1>5 DEF Queued
<1> QED BY <1>2, <1>5, <1>6 DEF ScanCycle, Queued

LEMMA WalkLasts ==
  ASSUME DInv, WalkCycle, [Next]_vars
  PROVE  WalkCycle'
<1>0. LInv
  BY DEF DInv
<1>1. PICK l \in Lister : /\ walker[l] # None /\ Queued(walker[l])
                          /\ \E w \in readers[walker[l]] : wpc[w] = "reap"
  BY DEF WalkCycle
<1>2. PICK c \in Child : c = walker[l]
  BY <1>0, <1>1 DEF LInv, EInv, OtherFields
<1>3. PICK w \in Waiter : w \in readers[c] /\ wpc[w] = "reap"
  BY <1>0, <1>1, <1>2 DEF LInv, EInv, OtherFields
<1>4. PICK b \in Actor : subj[b] = c /\ cpc[b] \in {"queue", "handle"}
  BY <1>1, <1>2 DEF Queued
<1>5. ~TableFree
  BY <1>1 DEF TableFree
<1>6. wpc'[w] = "reap" /\ w \in readers'[c]
  BY <1>3, <1>5, ReaderWaits
<1>7. cpc'[b] = cpc[b] /\ subj'[b] = c
  BY <1>0, <1>3, <1>4, WriterWaits
<1>8. walker'[l] = c /\ c # None
  BY <1>0, <1>1, <1>2, ListerWaits
<1>9. Queued(c)'
  BY <1>4, <1>6, <1>7 DEF Queued
<1> QED BY <1>6, <1>8, <1>9 DEF WalkCycle, Queued

\* All the cycles are deadlocks, with any number of threads around them.
THEOREM Deadlocks == Spec => CyclesLast
<1>1. Spec => []DInv
  BY OwnersStart, OwnersStep, PTL DEF Spec
<1>2. DInv /\ [Next]_vars => [LockCycle => LockCycle']_vars
  <2> SUFFICES ASSUME DInv, [Next]_vars, LockCycle PROVE LockCycle'
    OBVIOUS
  <2>1. LInv
    BY DEF DInv
  <2> QED BY <2>1, RegisterLasts, HandlerLasts, ScanLasts, WalkLasts DEF LockCycle
<1> QED BY <1>1, <1>2, PTL DEF Spec, CyclesLast

-----------------------------------------------------------------------------
(* No other deadlock                                                       *)

\* Who waits for nothing.
SomeGo ==
  \/ \E w \in Waiter : WaiterRuns(w) /\ ~WaiterHeldUp(w)
  \/ \E a \in Actor : ActorRuns(a) /\ ~ActorHeldUp(a)
  \/ \E c \in Child : ReaperRuns(c) /\ ~ReaperHeldUp(c)
  \/ \E l \in Lister : walker[l] # None /\ ~Queued(walker[l])

\* The owner of the mutex goes on, or the owner of event_rwlock it waits for.
LEMMA MutexGoes ==
  ASSUME DInv, ~LockCycle, mtx # None
  PROVE  SomeGo
<1>0. /\ Owners /\ Mutexes
      /\ mtx \in Waiter \cup Actor \cup {None} /\ ev \in Actor \cup {None}
  BY DEF DInv, LInv, EInv, OtherFields
<1>1. CASE mtx \in Actor
  <2>1. PICK a \in Actor : a = mtx
    BY <1>1
  <2>2. cpc[a] = "handle" /\ readers[subj[a]] = {}
    BY <1>0, <2>1 DEF Owners, LockCycle, HandlerCycle
  <2> QED BY <2>2 DEF SomeGo, ActorRuns, ActorHeldUp
<1>2. CASE mtx \in Waiter
  <2>1. PICK w \in Waiter : w = mtx
    BY <1>2
  <2>2. wpc[w] \in {"scan", "look", "register"}
    BY <1>0, <2>1 DEF Mutexes, Scans
  <2>3. CASE ~WaiterHeldUp(w)
    BY <2>2, <2>3 DEF SomeGo, WaiterRuns
  <2>4. CASE WaiterHeldUp(w)
    <3>1. wpc[w] = "register" /\ ev # None
      BY <2>1, <2>2, <2>4 DEF WaiterHeldUp, LockCycle, ScanCycle
    <3>2. PICK a \in Actor : a = ev
      BY <1>0, <3>1
    <3>3. cpc[a] = "walk"
      <4>1. mtx # a
        BY <1>2, Wait4Assumption DEF Actor
      <4> QED BY <1>0, <3>2, <4>1 DEF Owners, Mutexes
    <3>4. walk[a] = <<>>
      BY <2>1, <3>1, <3>3 DEF LockCycle, RegisterCycle
    <3> QED BY <3>3, <3>4 DEF SomeGo, ActorRuns, ActorHeldUp
  <2> QED BY <2>3, <2>4
<1> QED BY <1>0, <1>1, <1>2

\* With the mutex free, the table is given back: by a reap, or by a walk unless
\* it waits behind a writer whose reader goes on.
LEMMA TableGoes ==
  ASSUME DInv, ~LockCycle, mtx = None, ~TableFree
  PROVE  SomeGo
<1>0. /\ Owners /\ tab \in Waiter \cup Child \cup {None}
      /\ walker \in [Lister -> Child \cup {None}]
      /\ readers \in [Child -> SUBSET Waiter]
  BY DEF DInv, LInv, EInv, OtherFields
<1>1. CASE tab \in Waiter
  <2>1. PICK w \in Waiter : w = tab
    BY <1>1
  <2>2. wpc[w] \in {"unlink", "remove"}
    BY <1>0, <2>1 DEF Owners
  <2> QED BY <2>2 DEF SomeGo, WaiterRuns, WaiterHeldUp
<1>2. CASE tab \in Child
  <2>1. PICK c \in Child : c = tab
    BY <1>2
  <2>2. rpc[c] \in {"unlink", "remove"}
    BY <1>0, <2>1 DEF Owners
  <2> QED BY <2>2 DEF SomeGo, ReaperRuns, ReaperHeldUp
<1>3. CASE tab = None
  <2>1. PICK l \in Lister : walker[l] # None
    BY <1>3 DEF TableFree
  <2>2. CASE Queued(walker[l])
    <3>1. PICK w \in Waiter : w \in readers[walker[l]]
      BY <1>0, <2>1, <2>2 DEF Queued
    <3>2. wpc[w] \in {"unlink", "remove", "relock"}
      BY <1>0, <2>1, <2>2, <3>1 DEF Owners, LockCycle, WalkCycle
    <3> QED BY <3>2 DEF SomeGo, WaiterRuns, WaiterHeldUp
  <2> QED BY <2>1, <2>2 DEF SomeGo
<1> QED BY <1>0, <1>1, <1>2, <1>3

\* With the mutex and the table free, a child's reader and the owner of
\* event_rwlock go on.
LEMMA OthersGo ==
  ASSUME DInv, ~LockCycle, mtx = None, TableFree,
         ev # None \/ \E c \in Child : readers[c] # {}
  PROVE  SomeGo
<1>0. /\ Owners /\ Mutexes /\ None \notin Actor /\ ev \in Actor \cup {None}
      /\ readers \in [Child -> SUBSET Waiter]
  BY Wait4Assumption DEF DInv, LInv, EInv, OtherFields, Actor
<1>1. CASE ev # None
  <2>1. PICK a \in Actor : a = ev
    BY <1>0, <1>1
  <2>2. cpc[a] = "walk"
    BY <1>0, <2>1 DEF Owners, Mutexes
  <2> QED BY <2>2 DEF SomeGo, ActorRuns, ActorHeldUp
<1>2. ASSUME NEW c \in Child, readers[c] # {} PROVE SomeGo
  <2>1. PICK w \in Waiter : w \in readers[c]
    BY <1>0, <1>2
  <2>2. wpc[w] \in {"reap", "unlink", "remove", "relock"}
    BY <1>0, <2>1 DEF Owners
  <2> QED BY <2>2 DEF SomeGo, WaiterRuns, WaiterHeldUp
<1> QED BY <1>1, <1>2

\* With every lock free, nobody waits.
LEMMA NobodyWaits ==
  ASSUME DInv, mtx = None, TableFree, ev = None,
         \A c \in Child : readers[c] = {}
  PROVE  /\ \A w \in Waiter : ~WaiterHeldUp(w)
         /\ \A a \in Actor : ActorRuns(a) => ~ActorHeldUp(a)
         /\ \A c \in Child : ~ReaperHeldUp(c)
<1>1. ASSUME NEW w \in Waiter PROVE ~WaiterHeldUp(w)
  <2>1. wpc[w] # "look"
    BY Wait4Assumption DEF DInv, LInv, Mutexes, Scans
  <2> QED BY <2>1 DEF WaiterHeldUp
<1>2. ASSUME NEW a \in Actor, ActorRuns(a) PROVE ~ActorHeldUp(a)
  <2>1. cpc[a] \in {"queue", "handle", "mark"} => subj[a] \in Child
    BY <1>2 DEF DInv, LInv, EInv, IInv, Actors, Actor
  <2> QED BY <2>1 DEF ActorHeldUp
<1>3. ASSUME NEW c \in Child PROVE ~ReaperHeldUp(c)
  <2>1. tab = None
    BY DEF TableFree
  <2> QED BY <2>1 DEF ReaperHeldUp
<1> QED BY <1>1, <1>2, <1>3

\* Wait4's threads get stuck in no other way than the cycles, for any number of
\* waiters, children, walks of the table and calls of other threads: the search
\* for one that goes on leads from the children mutex to event_rwlock, the table
\* and the children's rwlocks, and ends.
THEOREM NoOtherDeadlock == Spec => []OnlyCyclesBlock
<1>1. Spec => []DInv
  BY OwnersStart, OwnersStep, PTL DEF Spec
<1>2. DInv => OnlyCyclesBlock
  <2> SUFFICES ASSUME DInv, ~LockCycle, ~SomeGo PROVE OnlyCyclesBlock
    BY DEF OnlyCyclesBlock, SomeGo
  <2>1. mtx = None
    BY MutexGoes
  <2>2. TableFree
    BY <2>1, TableGoes
  <2>3. ev = None /\ \A c \in Child : readers[c] = {}
    BY <2>1, <2>2, OthersGo
  <2>4. /\ \A w \in Waiter : ~WaiterRuns(w)
        /\ \A a \in Actor : ~ActorRuns(a)
        /\ \A c \in Child : ~ReaperRuns(c)
    BY <2>1, <2>2, <2>3, NobodyWaits DEF SomeGo
  <2>5. \A l \in Lister : walker[l] = None
    BY <2>2 DEF TableFree
  <2> QED BY <2>4, <2>5 DEF OnlyCyclesBlock
<1> QED BY <1>1, <1>2, PTL

-----------------------------------------------------------------------------
(* Wait4 implements ExitReport.  Cleared: after the first report p_status  *)
(* stays cleared.  Unbegun: an exit that has not begun has no cause, so    *)
(* that no child ends twice.                                               *)

Cleared == \A c \in Child \ overtaken : told[c] # <<>> => status[c] = "zero"
Unbegun == \A c \in Child : cpc[c] = "idle" => cause[c] = "none"

RInv == DInv /\ Cleared /\ Unbegun

\* A reported child is a zombie, and its exit is past the writing of p_status.
LEMMA DeadChild ==
  ASSUME IInv, NEW c \in Child, told[c] # <<>> \/ c \in zombie
  PROVE  c \in zombie /\ Exiting(c) /\ cpc[c] \notin {"idle", "write", "state"}
BY DEF IInv, Reports, Zombies, Causes

\* Who has left the parent's array was a zombie.
LEMMA LeftDead ==
  ASSUME LInv, NEW c \in Child, c \notin linked \cap valid
  PROVE  c \in zombie
<1>1. told[c] # <<>> \/ \E w \in Waiter : busy[w] = c
                                 /\ wpc[w] \in {"reap", "unlink", "remove", "relock"}
  BY DEF LInv, Reaped, Told, ReapedAt
<1> QED BY <1>1 DEF LInv, EInv, IInv, Reports, Reaping

\* What a waiter that reaps is busy with.
LEMMA Busy ==
  ASSUME LInv, NEW w \in Waiter, wpc[w] \in {"reap", "unlink", "remove", "relock"}
  PROVE  busy[w] \in Child /\ busy[w] \in zombie /\ Exiting(busy[w]) /\ busy[w] # None
<1>1. busy[w] \in zombie /\ zombie \subseteq Child
  BY DEF LInv, EInv, IInv, Reaping, Fields
<1>2. PICK c \in Child : c = busy[w]
  BY <1>1
<1> QED BY <1>1, <1>2, DeadChild, Wait4Assumption DEF LInv, EInv

\* The steps that write p_status or report.
LEMMA StatusSteps ==
  ASSUME LInv, [Next]_vars
  PROVE  \/ UNCHANGED <<status, told, overtaken>>
         \/ \E c \in Child : /\ ReportChange(c) \/ ReportDeath(c)
                             /\ UNCHANGED overtaken
         \/ \E a \in Actor : StateChange(a)
<1>1. ASSUME NEW w \in Waiter, \/ Call(w) \/ ScanNext(w) \/ ScanEnd(w) \/ Prepare(w)
                                \/ Register(w) \/ WaiterReaps(w)
      PROVE  UNCHANGED <<status, told, overtaken>>
  BY <1>1 DEF Call, ScanNext, ScanEnd, Prepare, Register, WaiterReaps, childVars, hist
<1>2. ASSUME NEW w \in Waiter, ScanChild(w)
      PROVE  \/ UNCHANGED <<status, told, overtaken>>
             \/ \E c \in Child : ReportChange(c) /\ UNCHANGED overtaken
  <2>1. PICK c : c = busy[w]
    OBVIOUS
  <2>2. UNCHANGED overtaken /\ (UNCHANGED <<status, told>> \/ ReportChange(c))
    BY <1>2, <2>1 DEF ScanChild
  <2>3. c \notin Child /\ ReportChange(c) => UNCHANGED <<status, told>>
    <3>1. status \in [Child -> Status]
      BY Types DEF LInv
    <3> QED BY <3>1 DEF ReportChange
  <2> QED BY <2>2, <2>3
<1>3. ASSUME NEW w \in Waiter, ReapReport(w)
      PROVE  \E c \in Child : ReportDeath(c) /\ UNCHANGED overtaken
  <2>1. busy[w] \in Child
    BY <1>3, Busy DEF ReapReport
  <2> QED BY <1>3, <2>1 DEF ReapReport
<1>4. ASSUME NEW a \in Actor, ActorStep(a), ~Handle(a), ~StateChange(a)
      PROVE  UNCHANGED <<status, told, overtaken>>
  BY <1>4 DEF ActorStep, FindParent, NoParent, Trigger, HandlerLock, TriggerEnd,
              Send, Enqueue, Write, Mark, childVars, hist
<1>5. ASSUME NEW a \in Actor, Handle(a)
      PROVE  \/ UNCHANGED <<status, told, overtaken>>
             \/ \E c \in Child : /\ ReportChange(c) \/ ReportDeath(c)
                                 /\ UNCHANGED overtaken
  <2>1. subj[a] \in Child
    BY <1>5 DEF Handle, LInv, EInv, IInv, Actors, Actor
  <2>2. UNCHANGED overtaken
    BY <1>5 DEF Handle
  <2>3. UNCHANGED <<status, told>> \/ ReportChange(subj[a]) \/ ReportDeath(subj[a])
    BY <1>5 DEF Handle
  <2> QED BY <2>1, <2>2, <2>3
<1>6. ASSUME Quiet \/ \E c \in Child : ReaperReaps(c)
      PROVE  UNCHANGED <<status, told, overtaken>>
  <2>1. CASE Quiet
    BY <2>1, QuietSteps, Types DEF LInv
  <2>2. CASE \E c \in Child : ReaperReaps(c)
    BY <2>2 DEF ReaperReaps, hist
  <2> QED BY <1>6, <2>1, <2>2
<1> QED BY <1>1, <1>2, <1>3, <1>4, <1>5, <1>6 DEF Next, Rest, WaiterStep, Quiet

LEMMA ClearedStays ==
  ASSUME LInv, Cleared, [Next]_vars
  PROVE  Cleared'
<1>0. /\ EInv /\ IInv /\ status \in [Child -> Status]
      /\ told \in [Child -> Seq(Status)] /\ overtaken \subseteq Child
  BY DEF LInv, EInv, IInv, Fields
<1>1. CASE UNCHANGED <<status, told, overtaken>>
  BY <1>1 DEF Cleared
<1>2. ASSUME NEW c \in Child, ReportChange(c) \/ ReportDeath(c), UNCHANGED overtaken
      PROVE  Cleared'
  <2>1. status' = [status EXCEPT ![c] = "zero"]
    BY <1>2 DEF ReportChange, ReportDeath
  <2>2. \A d \in Child : d # c => told'[d] = told[d]
    BY <1>0, <1>2 DEF ReportChange, ReportDeath
  <2> QED BY <1>0, <1>2, <2>1, <2>2 DEF Cleared
<1>3. ASSUME NEW a \in Actor, StateChange(a) PROVE Cleared'
  <2>1. /\ cpc[a] = "write" /\ UNCHANGED told
        /\ status' = [status EXCEPT ![subj[a]] = cause[a]]
        /\ overtaken' = IF a \in Sender /\ Exiting(subj[a])
                          THEN overtaken \cup {subj[a]} ELSE overtaken
    BY <1>3 DEF StateChange
  <2>2. PICK c \in Child : c = subj[a]
    BY <1>0, <2>1 DEF IInv, Actors, Actor
  <2>3. \A d \in Child : d # c => status'[d] = status[d]
    BY <1>0, <2>1, <2>2
  <2>4. overtaken \subseteq overtaken'
    BY <2>1
  <2>5. told[c] # <<>> => c \in overtaken'
    <3>1. SUFFICES ASSUME told[c] # <<>> PROVE c \in overtaken'
      OBVIOUS
    <3>2. Exiting(c) /\ cpc[c] # "write"
      BY <1>0, <3>1, DeadChild
    <3>3. a \in Sender
      BY <1>0, <2>1, <2>2, <3>2 DEF IInv, Actors, Actor
    <3> QED BY <2>1, <2>2, <3>2, <3>3
  <2> QED BY <2>1, <2>3, <2>4, <2>5 DEF Cleared
<1> QED BY <1>1, <1>2, <1>3, StatusSteps

LEMMA UnbegunStays ==
  ASSUME LInv, Unbegun, [Next]_vars
  PROVE  Unbegun'
<1>0. /\ cpc \in [Actor -> ActorPlace]
      /\ cause \in [Actor -> Status \cup {"none", "pgid"}]
      /\ Child \subseteq Actor /\ Child \cap Sender = {}
      /\ zombie \subseteq Child
  BY Types, Wait4Assumption DEF LInv, EInv, IInv, Fields, Actor
<1>1. ASSUME NEW w \in Waiter, Call(w) \/ WaiterStep(w) PROVE UNCHANGED <<cpc, cause>>
  BY <1>1 DEF Call, WaiterStep, ScanNext, ScanChild, ScanEnd, Prepare, Register,
              WaiterReaps, ReapReport, actorVars
<1>2. ASSUME NEW a \in Actor, ActorStep(a) PROVE Unbegun'
  <2>1. UNCHANGED cause
    BY <1>2 DEF ActorStep, FindParent, NoParent, StateChange, Trigger, HandlerLock,
                Handle, TriggerEnd, Send, Enqueue, Write, Mark
  <2>2. \A c \in Child : c # a => cpc'[c] = cpc[c]
    BY <1>0, <1>2 DEF ActorStep, FindParent, NoParent, StateChange, Trigger,
                HandlerLock, Handle, TriggerEnd, Send, Enqueue, Write, ReadsProc,
                Mark, CGoto
  <2>3. ASSUME a \in Child PROVE cpc'[a] # "idle"
    <3>1. CASE NoParent(a)
      <4>1. subj[a] = a /\ (a \in zombie => cpc[a] # "state")
        BY <2>3 DEF LInv, EInv, IInv, Actors, Zombies
      <4>2. cpc[a] = "parent"
        BY <2>3, <3>1, <4>1, LeftDead DEF NoParent
      <4> QED BY <1>0, <3>1, <4>2 DEF NoParent, CGoto
    <3>2. CASE TriggerEnd(a)
      <4>1. CASE a \in zombie
        <5>1. CGoto(a, "done")
          BY <1>0, <2>3, <3>2, <4>1 DEF TriggerEnd
        <5> QED BY <1>0, <5>1 DEF CGoto
      <4>2. CASE a \notin zombie
        <5>1. CGoto(a, "mark")
          BY <1>0, <2>3, <3>2, <4>2 DEF TriggerEnd
        <5> QED BY <1>0, <5>1 DEF CGoto
      <4> QED BY <4>1, <4>2
    <3>3. CASE ~NoParent(a) /\ ~TriggerEnd(a)
      <4>1. a \notin Sender
        BY <1>0, <2>3
      <4>2. \E l \in {"state", "write", "trigger", "walk", "handle", "mark",
                      "parent", "done"} : CGoto(a, l)
        BY <1>2, <3>3, <4>1 DEF ActorStep, FindParent, StateChange, Trigger,
                HandlerLock, Handle, Mark
      <4> QED BY <1>0, <4>2 DEF CGoto
    <3> QED BY <3>1, <3>2, <3>3
  <2> QED BY <2>1, <2>2, <2>3 DEF Unbegun
<1>3. ASSUME NEW c \in Child, Exit(c) PROVE Unbegun'
  <2>1. CGoto(c, "state") /\ \E k : cause' = [cause EXCEPT ![c] = k]
    BY <1>3 DEF Exit
  <2> QED BY <1>0, <2>1 DEF Unbegun, CGoto
<1>4. ASSUME NEW a \in Sender, Signal(a) \/ Setpgid(a) PROVE Unbegun'
  <2>1. (\E l : CGoto(a, l)) /\ \E k : cause' = [cause EXCEPT ![a] = k]
    BY <1>4, CallBegins DEF Calls
  <2>2. \A c \in Child : cpc'[c] = cpc[c] /\ cause'[c] = cause[c]
    BY <1>0, <2>1 DEF CGoto
  <2> QED BY <2>2 DEF Unbegun
<1>5. ASSUME \/ \E c \in Child : ReaperReaps(c)
             \/ \E l \in Lister : List(l) \/ ListEnd(l)
             \/ UNCHANGED vars
      PROVE  UNCHANGED <<cpc, cause>>
  BY <1>5 DEF ReaperReaps, List, ListEnd, vars, actorVars
<1> QED BY <1>1, <1>2, <1>3, <1>4, <1>5 DEF Next, Rest, Unbegun

-----------------------------------------------------------------------------
(* The steps of Wait4 as steps of ExitReport                               *)

\* The child waiter w is bound to report.
Claim(w) == IF wpc[w] \in {"unlink", "remove", "relock"} THEN busy[w] ELSE None

\* Steps that ExitReport does not see.
LEMMA Silent ==
  ASSUME \A c \in Child : cause'[c] = cause[c],
         UNCHANGED <<told, overtaken, linked, valid>>,
         \A w \in Waiter : Claim(w)' = Claim(w)
  PROVE  UNCHANGED Promise!vars
BY DEF Promise!vars, Claim

LEMMA Forgets ==
  ASSUME NEW c \in Child,
         \A d \in Child : cause'[d] = cause[d],
         UNCHANGED <<told, overtaken>>,
         \A w \in Waiter : Claim(w)' = Claim(w),
         Child \ (linked' \cap valid') = (Child \ (linked \cap valid)) \cup {c},
         told[c] # <<>> \/ \E w \in Waiter : Claim(w) = c
  PROVE  Promise!Forget(c)
BY DEF Promise!Forget, Claim

\* The report of a death says what ExitReport promises.
LEMMA Reports1 ==
  ASSUME RInv, NEW c \in zombie, ReportDeath(c),
         \A d \in Child : cause'[d] = cause[d],
         UNCHANGED <<overtaken, linked, valid>>
  PROVE  c \in Child /\ Promise!Report(c)
<1>1. /\ IInv /\ c \in Child /\ told \in [Child -> Seq(Status)]
      /\ status \in [Child -> Status] /\ Cleared
  BY DEF RInv, DInv, LInv, EInv, IInv, Fields
<1>2. Exiting(c)
  BY <1>1, DeadChild
<1>3. Recorded(c)
  BY <1>1 DEF IInv, Zombies, Recorded
<1>4. Death(c) \in {"exited", "killed", "zero"}
  BY DEF Death
<1>5. c \notin overtaken => Death(c) = IF told[c] = <<>> THEN Word(cause[c]) ELSE "zero"
  <2>1. CASE c \notin overtaken /\ told[c] = <<>>
    <3>1. status[c] = cause[c]
      BY <1>1, <1>3, <2>1 DEF IInv, Written
    <3> QED BY <1>2, <2>1, <3>1 DEF Death, Exiting, Word
  <2>2. CASE c \notin overtaken /\ told[c] # <<>>
    <3>1. status[c] = "zero"
      BY <1>1, <2>2 DEF Cleared
    <3> QED BY <2>2, <3>1 DEF Death
  <2> QED BY <2>1, <2>2
<1>6. told' = [told EXCEPT ![c] = Append(@, Death(c))]
  BY DEF ReportDeath
<1>7. PICK s \in {"exited", "killed", "zero"} : s = Death(c)
  BY <1>4
<1>8. Promise!Dead(c)
  BY <1>1, <1>2 DEF Promise!Dead, Promise!Ends, Exiting
<1>9. c \notin overtaken => s = IF told[c] = <<>> THEN Promise!FirstWord(c) ELSE "zero"
  BY <1>1, <1>5, <1>7 DEF Word, Promise!FirstWord
<1>10. told' = [told EXCEPT ![c] = Append(@, s)]
  BY <1>6, <1>7
<1>11. UNCHANGED <<[d \in Child |-> cause[d]], overtaken, Child \ (linked \cap valid)>>
  OBVIOUS
<1> QED BY <1>1, <1>8, <1>9, <1>10, <1>11 DEF Promise!Report

LEMMA WaiterSimulates ==
  ASSUME RInv, NEW w \in Waiter, Call(w) \/ WaiterStep(w)
  PROVE  [Promise!Next]_(Promise!vars)
<1>0. /\ LInv /\ wpc \in [Waiter -> WaiterPlace]
      /\ busy \in [Waiter -> Child \cup {None}]
      /\ linked \subseteq Child /\ valid \subseteq Child
  BY Types DEF RInv, DInv, LInv, EInv, OtherFields
<1>1. CASE \/ Call(w) \/ ScanNext(w) \/ ScanChild(w) \/ ScanEnd(w)
           \/ Prepare(w) \/ Register(w)
  <2>1. UNCHANGED <<cause, told, overtaken, linked, valid>>
    BY <1>1 DEF Call, ScanNext, ScanChild, ScanEnd, Prepare, Register,
                ReportChange, actorVars, childVars, hist
  <2>2. /\ wpc[w] \in {"user", "scan", "look", "register"}
        /\ wpc'[w] \notin {"unlink", "remove", "relock"}
        /\ \A v \in Waiter \ {w} : wpc'[v] = wpc[v] /\ busy'[v] = busy[v]
    <3>1. CASE ScanNext(w) \/ ScanChild(w) \/ Prepare(w)
      BY <1>0, <3>1 DEF ScanNext, ScanChild, Prepare, Answer, WGoto
    <3>2. CASE Call(w) \/ ScanEnd(w) \/ Register(w)
      BY <1>0, <3>2 DEF Call, ScanEnd, Register, Answer, WGoto
    <3> QED BY <1>1, <3>1, <3>2
  <2>3. \A v \in Waiter : Claim(v)' = Claim(v)
    BY <2>2 DEF Claim
  <2> QED BY <2>1, <2>3, Silent
<1>2. CASE WaiterReaps(w)
  <2>1. UNCHANGED <<cause, told, overtaken, busy>>
        /\ wpc[w] \in {"reap", "unlink", "remove"}
    BY <1>2 DEF WaiterReaps, actorVars, hist
  <2>2. PICK c \in Child : c = busy[w] /\ Exiting(c) /\ c # None
    BY <1>0, <2>1, Busy
  <2>3. \A v \in Waiter \ {w} : wpc'[v] = wpc[v]
    BY <1>0, <1>2 DEF WaiterReaps, WGoto
  <2>4. CASE wpc[w] = "reap"
    <3>1. UNCHANGED <<linked, valid>> /\ wpc'[w] \in {"unlink", "relock"}
      BY <1>0, <1>2, <2>4 DEF WaiterReaps, WGoto
    <3>2. Claim(w) = None /\ Claim(w)' = c
      BY <2>1, <2>2, <2>4, <3>1 DEF Claim
    <3>3. \A v \in Waiter \ {w} : Claim(v)' = Claim(v)
      BY <2>1, <2>3 DEF Claim
    <3>4. [v \in Waiter |-> Claim(v)'] = [[v \in Waiter |-> Claim(v)] EXCEPT ![w] = c]
      BY <3>2, <3>3
    <3>5. Promise!Undertake(w, c)
      BY <2>1, <2>2, <3>1, <3>2, <3>4 DEF Promise!Undertake, Promise!Dead, Promise!Ends, Claim,
                                      Exiting
    <3> QED BY <3>5 DEF Promise!Next
  <2>5. CASE wpc[w] \in {"unlink", "remove"}
    <3>1. /\ wpc'[w] \in {"remove", "relock"}
          /\ \/ linked' = linked \ {c} /\ valid' = valid
             \/ valid' = valid \ {c} /\ linked' = linked
      BY <1>0, <1>2, <2>2, <2>5 DEF WaiterReaps, ReapUnlink, ReapRemove, WGoto
    <3>2. \A v \in Waiter : Claim(v)' = Claim(v)
      BY <2>1, <2>3, <2>5, <3>1 DEF Claim
    <3>3. Claim(w) = c
      BY <2>2, <2>5 DEF Claim
    <3>4. Child \ (linked' \cap valid') = (Child \ (linked \cap valid)) \cup {c}
      BY <3>1
    <3>5. Promise!Forget(c)
      BY <2>1, <3>2, <3>3, <3>4, Forgets
    <3> QED BY <3>5 DEF Promise!Next
  <2> QED BY <2>1, <2>4, <2>5
<1>3. CASE ReapReport(w)
  <2>1. /\ UNCHANGED <<cause, overtaken, linked, valid>> /\ wpc[w] = "relock"
        /\ ReportDeath(busy[w]) /\ Answer(w)
    BY <1>3 DEF ReapReport, actorVars
  <2>2. PICK c \in Child : c = busy[w] /\ c \in zombie /\ c # None
    BY <1>0, <2>1, Busy
  <2>3. ReportDeath(c)
    BY <2>1, <2>2
  <2>4. Promise!Report(c)
    BY <2>1, <2>2, <2>3, Reports1
  <2>5. Claim(w) = c /\ Claim(w)' = None
    BY <1>0, <2>1, <2>2 DEF Claim, Answer
  <2>6. \A v \in Waiter \ {w} : Claim(v)' = Claim(v)
    BY <1>0, <2>1 DEF Claim, Answer
  <2>7. [v \in Waiter |-> Claim(v)'] = [[v \in Waiter |-> Claim(v)] EXCEPT ![w] = None]
    BY <2>5, <2>6
  <2>8. [v \in Waiter |-> Claim(v)][w] = c
    BY <2>5
  <2>9. Promise!Settle(w)
    BY <2>2, <2>4, <2>7, <2>8 DEF Promise!Settle, Claim
  <2> QED BY <2>9 DEF Promise!Next
<1> QED BY <1>1, <1>2, <1>3 DEF WaiterStep

LEMMA ActorSimulates ==
  ASSUME RInv, NEW a \in Actor, ActorStep(a)
  PROVE  [Promise!Next]_(Promise!vars)
<1>0. /\ EInv /\ LInv /\ wpc \in [Waiter -> WaiterPlace]
      /\ busy \in [Waiter -> Child \cup {None}]
  BY Types DEF RInv, DInv, LInv
<1>1. CASE ~Handle(a) /\ ~StateChange(a)
  <2>1. UNCHANGED <<cause, told, overtaken, linked, valid, wpc, busy>>
    BY <1>1 DEF ActorStep, FindParent, NoParent, Trigger, HandlerLock, TriggerEnd,
                Send, Enqueue, Write, Mark, childVars, waitVars, hist
  <2> QED BY <2>1, Silent DEF Claim
<1>2. CASE StateChange(a)
  <2>1. UNCHANGED <<cause, told, linked, valid, wpc, busy>> /\ cpc[a] = "write"
    BY <1>2 DEF StateChange, waitVars
  <2>2. PICK c \in Child : c = subj[a]
    BY <1>0, <2>1 DEF EInv, IInv, Actors, Actor
  <2>3. CASE overtaken' = overtaken
    BY <2>1, <2>3, Silent DEF Claim
  <2>4. CASE overtaken' # overtaken
    <3>1. overtaken' = overtaken \cup {c} /\ Exiting(c)
      BY <1>2, <2>2, <2>4 DEF StateChange
    <3>2. Promise!Spoil(c)
      BY <2>1, <3>1 DEF Promise!Spoil, Promise!Dead, Promise!Ends, Exiting
    <3> QED BY <3>2 DEF Promise!Next
  <2> QED BY <2>3, <2>4
<1>3. CASE Handle(a)
  <2>0. PICK w : w = Head(walk[a])
    OBVIOUS
  <2>1. /\ UNCHANGED <<cause, overtaken, linked, valid>> /\ cpc[a] = "handle"
        /\ (UNCHANGED waitVars \/ Answer(w))
    BY <1>3, <2>0 DEF Handle, Fire
  <2>2. wpc[w] = "blocked"
    BY <1>0, <2>0, <2>1, Answered
  <2>3. \A v \in Waiter : Claim(v)' = Claim(v)
    BY <1>0, <2>1, <2>2 DEF waitVars, Answer, Claim
  <2>4. PICK c \in Child : c = subj[a]
    BY <1>0, <2>1 DEF EInv, IInv, Actors, Actor
  <2>5. UNCHANGED told \/ (c \in zombie /\ ReportDeath(c))
    BY <1>3, <2>4 DEF Handle, ReportChange
  <2>6. CASE UNCHANGED told
    BY <2>1, <2>3, <2>6, Silent
  <2>7. CASE c \in zombie /\ ReportDeath(c)
    <3>1. Promise!Report(c)
      BY <2>1, <2>7, Reports1
    <3>2. Promise!Notify(c)
      BY <2>3, <3>1 DEF Promise!Notify, Claim
    <3> QED BY <3>2 DEF Promise!Next
  <2> QED BY <2>5, <2>6, <2>7
<1> QED BY <1>1, <1>2, <1>3

LEMMA OtherSimulates ==
  ASSUME RInv,
         Quiet \/ \E c \in Child : ReaperReaps(c)
  PROVE  [Promise!Next]_(Promise!vars)
<1>0. /\ LInv /\ cause \in [Actor -> Status \cup {"none", "pgid"}]
      /\ Child \subseteq Actor /\ Child \cap Sender = {}
      /\ linked \subseteq Child /\ valid \subseteq Child
  BY Wait4Assumption DEF RInv, DInv, LInv, EInv, IInv, Fields, OtherFields, Actor
<1>1. ASSUME NEW c \in Child, Exit(c) PROVE [Promise!Next]_(Promise!vars)
  <2>1. /\ UNCHANGED <<told, overtaken, linked, valid, wpc, busy>> /\ cpc[c] = "idle"
        /\ \E k \in {"exited", "killed", "signaled"} : cause' = [cause EXCEPT ![c] = k]
    BY <1>1 DEF Exit, waitVars, hist
  <2>2. cause[c] = "none"
    BY <2>1 DEF RInv, Unbegun
  <2>3. PICK k \in {"exited", "killed", "signaled"} : cause' = [cause EXCEPT ![c] = k]
    BY <2>1
  <2>4. [d \in Child |-> cause'[d]] = [[d \in Child |-> cause[d]] EXCEPT ![c] = k]
    BY <1>0, <2>3
  <2>5. Promise!Die(c)
    BY <2>1, <2>2, <2>4 DEF Promise!Die, Promise!Ends
  <2> QED BY <2>5 DEF Promise!Next
<1>2. ASSUME NEW c \in Child, ReaperReaps(c) PROVE [Promise!Next]_(Promise!vars)
  <2>1. UNCHANGED <<cause, told, overtaken, wpc, busy>>
    BY <1>2 DEF ReaperReaps, waitVars, actorVars, hist
  <2>2. CASE UNCHANGED <<linked, valid>>
    BY <2>1, <2>2, Silent DEF Claim
  <2>3. CASE ~UNCHANGED <<linked, valid>>
    <3>1. /\ rpc[c] # "none"
          /\ \/ linked' = linked \ {c} /\ valid' = valid
             \/ valid' = valid \ {c} /\ linked' = linked
      BY <1>2, <2>3 DEF ReaperReaps, ReapUnlink, ReapRemove
    <3>2. told[c] # <<>>
      BY <1>0, <3>1 DEF LInv, Reaped, Told
    <3>3. Child \ (linked' \cap valid') = (Child \ (linked \cap valid)) \cup {c}
      BY <3>1
    <3>4. Promise!Forget(c)
      BY <2>1, <3>2, <3>3, Forgets DEF Claim
    <3> QED BY <3>4 DEF Promise!Next
  <2> QED BY <2>2, <2>3
<1>3. ASSUME NEW a \in Sender, Signal(a) \/ Setpgid(a)
      PROVE  [Promise!Next]_(Promise!vars)
  <2>1. /\ UNCHANGED <<told, overtaken, linked, valid, wpc, busy>>
        /\ \E k : cause' = [cause EXCEPT ![a] = k]
    BY <1>3, CallBegins DEF Calls, childVars, waitVars, hist
  <2>2. \A c \in Child : cause'[c] = cause[c]
    BY <1>0, <2>1
  <2> QED BY <2>1, <2>2, Silent DEF Claim
<1>4. CASE (\E l \in Lister : List(l) \/ ListEnd(l)) \/ UNCHANGED vars
  <2>1. UNCHANGED <<cause, told, overtaken, linked, valid, wpc, busy>>
    BY <1>4 DEF List, ListEnd, vars, childVars, waitVars, actorVars, hist
  <2> QED BY <2>1, Silent DEF Claim
<1> QED BY <1>1, <1>2, <1>3, <1>4 DEF Quiet

\* Every behaviour of wait4, exits and signals is one ExitReport allows, for any
\* number of children and callers.
THEOREM Refinement == Spec => ImplementsExitReport
<1>1. Init => RInv
  <2>1. Init => Cleared /\ Unbegun
    BY DEF Init, Cleared, Unbegun, Actor
  <2> QED BY <2>1, OwnersStart DEF RInv
<1>2. RInv /\ [Next]_vars => RInv'
  BY OwnersStep, ClearedStays, UnbegunStays DEF RInv, DInv
<1>3. Spec => []RInv
  BY <1>1, <1>2, PTL DEF Spec
<1>4. Init => Promise!Init
  <2> SUFFICES ASSUME Init PROVE Promise!Init
    OBVIOUS
  <2>1. [c \in Child |-> cause[c]] = [c \in Child |-> "none"]
    BY DEF Init, Actor
  <2>2. \A w \in Waiter : Claim(w) = None
    BY DEF Init, Claim
  <2>3. /\ told = [c \in Child |-> <<>>] /\ overtaken = {}
        /\ Child \ (linked \cap valid) = {}
    BY DEF Init
  <2> QED BY <2>1, <2>2, <2>3 DEF Promise!Init, Claim
<1>5. RInv /\ [Next]_vars => [Promise!Next]_(Promise!vars)
  BY WaiterSimulates, ActorSimulates, OtherSimulates DEF Next, Rest, Quiet
<1> QED BY <1>3, <1>4, <1>5, PTL DEF Spec, Promise!Spec, ImplementsExitReport
=============================================================================
