---------------------------- MODULE Wait4_proofs ----------------------------
(***************************************************************************)
(* Proofs about Wait4, for any sets of children, senders, listers and      *)
(* waiters: the first report of a death tells an exit code from a signal.  *)
(***************************************************************************)
EXTENDS Wait4, TLAPS, SequenceTheorems

(***************************************************************************)
(* The inductive invariant.  Fields: the types it needs.  Actors: an exit  *)
(* is about the child that names it, any other call about some child.      *)
(* Zombies: a child is marked once its exit has written p_status, and its  *)
(* exit never starts again.  Written: from there on p_status is the cause  *)
(* of the exit until the first report, unless a late signal overwrites it. *)
(* Reports: what FirstReportTrue says, of zombies only.  Reaping: a waiter *)
(* that reaps has seen a zombie.                                           *)
(***************************************************************************)
Fields ==
  /\ zombie \subseteq Child /\ overtaken \subseteq Child
  /\ status \in [Child -> Status] /\ told \in [Child -> Seq(Status)]
  /\ cpc \in [Actor -> ActorPlace]
  /\ subj \in [Actor -> Child \cup {None}]
  /\ cause \in [Actor -> Status \cup {"none", "pgid"}]
  /\ wpc \in [Waiter -> WaiterPlace]
  /\ busy \in [Waiter -> Child \cup {None}]
  /\ todo \in [Waiter -> SUBSET Child]

Actors ==
  /\ \A c \in Child : subj[c] = c /\ cpc[c] \notin {"send", "lock", "queue"}
  /\ \A a \in Sender : cpc[a] # "idle" =>
       /\ subj[a] \in Child
       /\ \/ cause[a] \in {"stopped", "continued"}
          \/ cause[a] = "pgid" /\ cpc[a] \in {"lock", "queue"}
  /\ \A a \in Sender : cpc[a] \notin {"mark", "parent", "done"}

Recorded(c) == cpc[c] \in {"trigger", "walk", "handle", "mark", "parent", "done"}

Zombies ==
  \A c \in zombie : cpc[c] \in {"parent", "trigger", "walk", "handle", "done"}

Causes == \A c \in Child : cpc[c] # "idle" => Exiting(c)

Written ==
  \A c \in Child \ overtaken :
    Recorded(c) /\ told[c] = <<>> => status[c] = cause[c]

Reports == \A c \in Child : told[c] # <<>> => c \in zombie

Reaping ==
  \A w \in Waiter :
    wpc[w] \in {"reap", "unlink", "remove", "relock"} => busy[w] \in zombie

\* what the first report of a death says
Word(k) == IF k = "exited" THEN "exited" ELSE "killed"

IInv ==
  /\ Fields /\ Actors /\ Zombies /\ Causes /\ Written /\ Reports /\ Reaping
  /\ FirstReportTrue

-----------------------------------------------------------------------------
(* The invariant is inductive                                              *)

LEMMA Start == Init => IInv
<1> SUFFICES ASSUME Init PROVE IInv
  OBVIOUS
<1>1. Fields
  BY DEF Init, Fields, Status, Actor, WaiterPlace, ActorPlace
<1>2. Actors /\ Zombies /\ Causes
  BY Wait4Assumption DEF Init, Actors, Zombies, Causes, Actor
<1>3. Written /\ Reports /\ Reaping /\ FirstReportTrue
  BY Wait4Assumption DEF Init, Written, Recorded, Actor, Reports, Reaping, FirstReportTrue
<1> QED BY <1>1, <1>2, <1>3 DEF IInv

\* What the invariant speaks of.
core == <<zombie, status, told, overtaken, cpc, subj, cause, wpc, busy,
          todo>>

LEMMA Stutter == ASSUME IInv, UNCHANGED core PROVE IInv'
BY DEF IInv, core, Fields, Actors, Zombies, Causes, Exiting, Written, Recorded,
       Reports, Reaping, FirstReportTrue

\* Steps of waiters that read and write no status.
LEMMA WaiterMoves ==
  ASSUME IInv, UNCHANGED <<zombie, status, told, overtaken, cpc, subj, cause>>,
         wpc' \in [Waiter -> WaiterPlace],
         busy' \in [Waiter -> Child \cup {None}],
         todo' \in [Waiter -> SUBSET Child],
         Reaping'
  PROVE  IInv'
BY DEF IInv, Fields, Actors, Zombies, Causes, Exiting, Written, Recorded,
       Reports, FirstReportTrue

\* Steps of actor a from one point to another: an exit or a signal.
LEMMA ActorMoves ==
  ASSUME IInv, NEW a \in Actor, NEW l,
         UNCHANGED <<zombie, status, told, overtaken, subj, cause, wpc, busy,
                     todo>>,
         CGoto(a, l), l \in {"lock", "queue", "state", "write", "trigger", "walk", "handle",
                             "mark", "parent", "done", "idle"},
         l # "idle" => cpc[a] # "idle",
         a \in Sender => l \notin {"mark", "parent", "done"},
         a \in Sender => l \in {"idle", "lock", "queue"}
                          \/ cause[a] \in {"stopped", "continued"},
         a \in Child => l \notin {"lock", "queue"},
         a \in Child /\ l \in {"trigger", "walk", "handle", "mark", "parent", "done"}
           => Recorded(a),
         a \in zombie => l \in {"parent", "trigger", "walk", "handle", "done"}
  PROVE  IInv'
<1> USE DEF IInv, Fields, WaiterPlace, ActorPlace, CGoto
<1>1. Fields'
  OBVIOUS
<1>2. Actors'
  BY Wait4Assumption DEF Actors, Actor
<1>3. Zombies' /\ Causes'
  BY DEF Zombies, Causes, Exiting, Actor
<1>4. Written'
  BY DEF Written, Recorded, Actor
<1>5. Reports' /\ Reaping' /\ FirstReportTrue'
  BY DEF Reports, Reaping, FirstReportTrue
<1> QED BY <1>1, <1>2, <1>3, <1>4, <1>5

\* A change of c is reported: p_status was stopped or continued, which the
\* recorded cause of an exit is not.
LEMMA ChangeReported ==
  ASSUME IInv, NEW c \in Child, ReportChange(c),
         status[c] \in {"stopped", "continued"}
  PROVE  /\ status' \in [Child -> Status] /\ told' = told
         /\ \A d \in Child \ overtaken :
              Recorded(d) /\ told'[d] = <<>> => status'[d] = cause[d]
<1> USE DEF IInv, Fields, WaiterPlace, ActorPlace, ReportChange
<1>1. status' \in [Child -> Status] /\ told' = told
  BY DEF Status
<1>2. ASSUME NEW d \in Child \ overtaken, Recorded(d), told'[d] = <<>>
      PROVE  status'[d] = cause[d]
  <2>1. status[d] = cause[d]
    BY <1>2 DEF Written
  <2>2. cause[d] \in {"exited", "killed", "signaled"}
    BY <1>2 DEF Causes, Exiting, Recorded
  <2> QED BY <2>1, <2>2
<1> QED BY <1>1, <1>2

\* The death of a zombie is reported: the first time with the cause.
LEMMA DeathReported ==
  ASSUME IInv, NEW c \in zombie, ReportDeath(c)
  PROVE  /\ status' \in [Child -> Status] /\ told' \in [Child -> Seq(Status)]
         /\ \A d \in Child : told'[d] # <<>> => d \in zombie
         /\ \A d \in Child \ overtaken :
              Recorded(d) /\ told'[d] = <<>> => status'[d] = cause[d]
         /\ \A d \in Child \ overtaken :
              told'[d] # <<>> => Head(told'[d]) = Word(cause[d])
<1> USE DEF IInv, Fields, WaiterPlace, ActorPlace
<1>1. c \in Child
  OBVIOUS
<1>2. Death(c) \in Status
  BY <1>1 DEF Death, Status
<1>3. status' = [status EXCEPT ![c] = "zero"]
      /\ told' = [told EXCEPT ![c] = Append(told[c], Death(c))]
  BY DEF ReportDeath
<1>4. /\ Append(told[c], Death(c)) \in Seq(Status)
      /\ Append(told[c], Death(c)) # <<>>
      /\ Head(Append(told[c], Death(c))) =
           IF told[c] = <<>> THEN Death(c) ELSE Head(told[c])
  BY <1>1, <1>2, AppendProperties, HeadTailAppend
<1>5. c \notin overtaken /\ told[c] = <<>> => Death(c) = Word(cause[c])
  <2> SUFFICES ASSUME c \notin overtaken, told[c] = <<>> PROVE Death(c) = Word(cause[c])
    OBVIOUS
  <2>1. Recorded(c)
    BY <1>1 DEF Zombies, Recorded
  <2>2. status[c] = cause[c] /\ cause[c] \in {"exited", "killed", "signaled"}
    BY <1>1, <2>1 DEF Written, Causes, Exiting, Recorded
  <2> QED BY <2>2 DEF Death, Word
<1>6. status' \in [Child -> Status] /\ told' \in [Child -> Seq(Status)]
  BY <1>1, <1>3, <1>4 DEF Status
<1>7. \A d \in Child : told'[d] # <<>> => d \in zombie
  BY <1>1, <1>3 DEF Reports
<1>8. \A d \in Child \ overtaken :
        Recorded(d) /\ told'[d] = <<>> => status'[d] = cause[d]
  BY <1>1, <1>3, <1>4 DEF Written
<1>9. \A d \in Child \ overtaken :
        told'[d] # <<>> => Head(told'[d]) = Word(cause[d])
  BY <1>1, <1>3, <1>4, <1>5 DEF FirstReportTrue, Word
<1> QED BY <1>6, <1>7, <1>8, <1>9

\* What Answer does to the reaping waiters.
LEMMA Answers ==
  ASSUME IInv, NEW w, Answer(w), zombie' = zombie
  PROVE  /\ wpc' \in [Waiter -> WaiterPlace]
         /\ busy' \in [Waiter -> Child \cup {None}]
         /\ todo' \in [Waiter -> SUBSET Child]
         /\ Reaping'
BY DEF IInv, Fields, WaiterPlace, Answer, Reaping

\* Steps that report a status and move waiters, and at most one actor.
LEMMA Reported ==
  ASSUME IInv, UNCHANGED <<zombie, overtaken, subj, cause>>,
         cpc' = cpc \/ (\E a \in Actor : cpc[a] = "handle" /\ CGoto(a, "walk")),
         status' \in [Child -> Status], told' \in [Child -> Seq(Status)],
         \A d \in Child : told'[d] # <<>> => d \in zombie,
         \A d \in Child \ overtaken :
           Recorded(d) /\ told'[d] = <<>> => status'[d] = cause[d],
         \A d \in Child \ overtaken :
           told'[d] # <<>> => Head(told'[d]) = Word(cause[d]),
         wpc' \in [Waiter -> WaiterPlace],
         busy' \in [Waiter -> Child \cup {None}],
         todo' \in [Waiter -> SUBSET Child],
         Reaping'
  PROVE  IInv'
<1> USE DEF IInv, Fields, WaiterPlace, ActorPlace
<1>1. /\ cpc' \in [Actor -> ActorPlace]
      /\ \A b \in Actor : cpc'[b] = cpc[b] \/ (cpc[b] = "handle" /\ cpc'[b] = "walk")
  BY DEF CGoto
<1>2. Fields'
  BY <1>1
<1>3. Actors'
  BY <1>1 DEF Actors, Actor
<1>4. Zombies' /\ Causes'
  BY <1>1 DEF Zombies, Causes, Exiting, Actor
<1>5. Written'
  BY <1>1 DEF Written, Recorded, Actor
<1>6. Reports' /\ FirstReportTrue'
  BY DEF Reports, FirstReportTrue, Word
<1> QED BY <1>2, <1>3, <1>4, <1>5, <1>6

\* wait4 and the reaping
LEMMA WaiterSteps ==
  ASSUME IInv, NEW w \in Waiter, Call(w) \/ WaiterStep(w)
  PROVE  IInv'
<1> USE DEF IInv, Fields, WaiterPlace, ActorPlace, actorVars, childVars, hist, reapVars, WGoto
<1>1. CASE Call(w)
  <2>1. Reaping' BY <1>1 DEF Call, Reaping
  <2>2. todo' \in [Waiter -> SUBSET Child] BY <1>1 DEF Call, Selectors
  <2> QED BY <1>1, <2>1, <2>2, WaiterMoves DEF Call
<1>2. CASE ScanEnd(w)
  BY <1>2, Answers, WaiterMoves DEF ScanEnd
<1>7. CASE ScanNext(w) \/ Prepare(w)
  <2>1. Reaping' BY <1>7 DEF ScanNext, Prepare, lockVars, Reaping
  <2>2. wpc' \in [Waiter -> WaiterPlace] /\ busy' \in [Waiter -> Child \cup {None}]
         /\ todo' \in [Waiter -> SUBSET Child]
    BY <1>7 DEF ScanNext, Prepare
  <2>3. UNCHANGED <<zombie, status, told, overtaken, cpc, subj, cause>>
    BY <1>7 DEF ScanNext, Prepare
  <2> QED BY <2>1, <2>2, <2>3, WaiterMoves
<1>3. CASE Register(w)
  <2>1. CASE Answer(w)
    BY <1>3, <2>1, Answers, WaiterMoves DEF Register
  <2>2. CASE ~Answer(w)
    <3>1. Reaping' BY <1>3, <2>2 DEF Register, Reaping
    <3> QED BY <1>3, <2>2, <3>1, WaiterMoves DEF Register
  <2> QED BY <2>1, <2>2
<1>4. CASE WaiterReaps(w)
  <2>1. Reaping' BY <1>4 DEF WaiterReaps, Reaping
  <2> QED BY <1>4, <2>1, WaiterMoves DEF WaiterReaps
<1>5. CASE ReapReport(w)
  <2>1. busy[w] \in zombie
    BY <1>5 DEF ReapReport, Reaping
  <2>2. ReportDeath(busy[w]) /\ Answer(w)
        /\ UNCHANGED <<zombie, overtaken, subj, cause, cpc>>
    BY <1>5 DEF ReapReport
  <2> QED BY <2>1, <2>2, DeathReported, Answers, Reported
<1>6. CASE ScanChild(w)
  <2>0. PICK c : c = busy[w]
    OBVIOUS
  <2>1. UNCHANGED <<zombie, overtaken, subj, cause, cpc>>
    BY <1>6 DEF ScanChild
  <2>2. CASE WGoto(w, "scan") /\ busy' = [busy EXCEPT ![w] = None]
             /\ UNCHANGED <<status, told, todo>>
    <3>1. Reaping' BY <2>1, <2>2 DEF Reaping
    <3> QED BY <2>1, <2>2, <3>1, WaiterMoves
  <2>3. CASE c \in valid /\ Changed(opts[w], c) /\ ReportChange(c) /\ Answer(w)
    <3>1. CASE c \in Child
      <4>1. status[c] \in {"stopped", "continued"}
        BY <2>3 DEF Changed
      <4> QED BY <2>1, <2>3, <3>1, <4>1, ChangeReported, Answers, Reported
                 DEF Reports, FirstReportTrue, Word
    <3>2. CASE c \notin Child
      <4>1. status' = status /\ told' = told
        BY <2>3, <3>2 DEF ReportChange
      <4> QED BY <2>1, <2>3, <4>1, Answers, WaiterMoves
    <3> QED BY <3>1, <3>2
  <2>4. CASE c \in zombie /\ WGoto(w, "reap") /\ UNCHANGED <<status, told, busy, todo>>
    <3>1. Reaping' BY <2>0, <2>1, <2>4 DEF Reaping
    <3> QED BY <2>1, <2>4, <3>1, WaiterMoves
  <2> QED BY <1>6, <2>0, <2>2, <2>3, <2>4 DEF ScanChild
<1> QED BY <1>1, <1>2, <1>3, <1>4, <1>5, <1>6, <1>7 DEF WaiterStep

\* Exits and signals
LEMMA ActorSteps ==
  ASSUME IInv, NEW a \in Actor, ActorStep(a)
  PROVE  IInv'
<1> USE DEF IInv, Fields, WaiterPlace, ActorPlace, waitVars, childVars, hist, reapVars
<1>0. a \in Child \/ a \in Sender
  BY DEF Actor
<1>1. CASE FindParent(a)
  BY <1>0, <1>1, ActorMoves DEF FindParent, Actors, Recorded, Zombies
<1>2. CASE NoParent(a)
  BY <1>0, <1>2, ActorMoves DEF NoParent, Actors, Recorded, Zombies
<1>3. CASE StateChange(a)
  <2>0. /\ cpc[a] = "write" /\ CGoto(a, "trigger")
        /\ status' = [status EXCEPT ![subj[a]] = cause[a]]
        /\ overtaken' = IF a \in Sender /\ Exiting(subj[a])
                          THEN overtaken \cup {subj[a]} ELSE overtaken
        /\ UNCHANGED <<zombie, told, subj, cause, wpc, busy, todo>>
    BY <1>3 DEF StateChange
  <2>1. subj[a] \in Child /\ (a \in Child => subj[a] = a /\ a \notin zombie)
    BY <1>0, <2>0 DEF Actors, Zombies
  <2>2. cause[a] \in Status
    BY <1>0, <2>0 DEF Actors, Causes, Exiting, Status
  <2>6. Fields'
    BY <2>0, <2>1, <2>2 DEF CGoto, Status
  <2>3. Actors' /\ Zombies' /\ Causes'
    BY <1>0, <2>0, <2>1, Wait4Assumption
       DEF CGoto, Actors, Zombies, Causes, Exiting, Actor
  <2>4. ASSUME NEW d \in Child \ overtaken', Recorded(d)', told'[d] = <<>>
        PROVE  status'[d] = cause'[d]
    <3>1. CASE d = subj[a] /\ a \in Child
      BY <2>0, <2>1, <3>1
    <3>2. CASE d = subj[a] /\ a \in Sender
      <4>1. ~Exiting(d) /\ cpc'[d] = cpc[d]
        BY <2>0, <2>4, <3>2, Wait4Assumption DEF CGoto
      <4> QED BY <2>0, <2>4, <4>1 DEF Causes, Recorded
    <3>3. CASE d # subj[a]
      <4>1. cpc'[d] = cpc[d]
        BY <2>0, <2>1, <1>0, <3>3, Wait4Assumption DEF CGoto
      <4> QED BY <2>0, <2>4, <3>3, <4>1 DEF Written, Recorded
    <3> QED BY <1>0, <3>1, <3>2, <3>3
  <2>5. Reports' /\ Reaping' /\ FirstReportTrue'
    BY <2>0 DEF Reports, Reaping, FirstReportTrue
  <2> QED BY <2>3, <2>4, <2>5, <2>6 DEF Written
<1>4. CASE Trigger(a)
  BY <1>0, <1>4, ActorMoves DEF Trigger, Actors, Recorded, Zombies
<1>5. CASE HandlerLock(a)
  BY <1>0, <1>5, ActorMoves DEF HandlerLock, Actors, Recorded, Zombies
<1>6. CASE Handle(a)
  <2>0. /\ cpc[a] = "handle" /\ CGoto(a, "walk")
        /\ UNCHANGED <<zombie, overtaken, subj, cause>>
    BY <1>6 DEF Handle
  <2>1. CASE UNCHANGED <<status, told, waitVars>>
    BY <1>0, <2>0, <2>1, ActorMoves DEF Actors, Recorded, Zombies
  <2>2. PICK c, w : c = subj[a] /\ w = Head(walk[a])
    OBVIOUS
  <2>3. c \in Child
    BY <1>0, <2>0, <2>2 DEF Actors
  <2>4. CASE Changed(opts[w], c) /\ ReportChange(c) /\ Fire(w)
    <3>1. status[c] \in {"stopped", "continued"} /\ Answer(w)
      BY <2>4 DEF Changed, Fire
    <3> QED BY <2>0, <2>3, <2>4, <3>1, ChangeReported, Answers, Reported
               DEF Reports, FirstReportTrue, Word
  <2>5. CASE c \in zombie /\ ReportDeath(c) /\ Fire(w)
    <3>1. Answer(w)
      BY <2>5 DEF Fire
    <3> QED BY <2>0, <2>5, <3>1, DeathReported, Answers, Reported
  <2> QED BY <1>6, <2>1, <2>2, <2>4, <2>5 DEF Handle
<1>7. CASE TriggerEnd(a)
  BY <1>0, <1>7, ActorMoves, Wait4Assumption DEF TriggerEnd, Actors, Recorded, Zombies
<1>8. CASE a \in Sender /\ (Send(a) \/ Enqueue(a) \/ Write(a))
  <2>1. CASE CGoto(a, "lock")
    BY <1>8, <2>1, ActorMoves, Wait4Assumption DEF Send, Enqueue, Write, Actors, Zombies, ReadsProc
  <2>2. CASE UNCHANGED cpc
    BY <1>8, <2>2, Stutter DEF Send, Enqueue, Write, ReadsProc, core
  <2>3. CASE CGoto(a, "queue") /\ Enqueue(a)
    BY <1>8, <2>3, ActorMoves, Wait4Assumption DEF Enqueue, Actors, Zombies
  <2>4. CASE CGoto(a, "idle") /\ Write(a)
    BY <1>8, <2>4, ActorMoves, Wait4Assumption DEF Write, ReadsProc, Actors, Zombies
  <2>5. CASE CGoto(a, "state") /\ Write(a) /\ cause[a] # "pgid"
    BY <1>8, <2>5, ActorMoves, Wait4Assumption DEF Write, ReadsProc, Actors, Zombies
  <2> QED BY <1>8, <2>1, <2>2, <2>3, <2>4, <2>5 DEF Send, Enqueue, Write, ReadsProc
<1>9. CASE a \in Child /\ Mark(a)
  <2>0. /\ cpc[a] = "mark" /\ CGoto(a, "parent") /\ zombie' = zombie \cup {a}
        /\ UNCHANGED <<status, told, overtaken, subj, cause, wpc, busy, todo>>
    BY <1>9 DEF Mark
  <2>1. Fields'
    BY <1>9, <2>0 DEF CGoto
  <2>2. Actors' /\ Zombies' /\ Causes'
    BY <1>9, <2>0, Wait4Assumption
       DEF CGoto, Actors, Zombies, Causes, Exiting, Actor
  <2>3. Written'
    BY <1>9, <2>0 DEF CGoto, Written, Recorded, Actor
  <2>4. Reports' /\ Reaping' /\ FirstReportTrue'
    BY <2>0 DEF Reports, Reaping, FirstReportTrue
  <2> QED BY <2>1, <2>2, <2>3, <2>4
<1> QED BY <1>1, <1>2, <1>3, <1>4, <1>5, <1>6, <1>7, <1>8, <1>9 DEF ActorStep

\* An exit or a signal begins.
LEMMA Begins ==
  ASSUME IInv,
         (\E c \in Child : Exit(c)) \/ (\E a \in Sender : Signal(a) \/ Setpgid(a))
  PROVE  IInv'
<1> USE DEF IInv, Fields, WaiterPlace, ActorPlace, waitVars, childVars, hist, reapVars
<1>1. ASSUME NEW c \in Child, Exit(c) PROVE IInv'
  <2>0. PICK k \in {"exited", "killed", "signaled"} : cause' = [cause EXCEPT ![c] = k]
    BY <1>1 DEF Exit
  <2>1. /\ cpc[c] = "idle" /\ CGoto(c, "state")
        /\ UNCHANGED <<zombie, status, told, overtaken, subj, wpc, busy, todo>>
    BY <1>1 DEF Exit
  <2>2. c \notin zombie /\ told[c] = <<>>
    BY <2>1 DEF Zombies, Reports
  <2>3. Fields'
    BY <2>0, <2>1 DEF CGoto, Status
  <2>4. Actors' /\ Zombies' /\ Causes'
    BY <2>0, <2>1, <2>2, Wait4Assumption
       DEF CGoto, Actors, Zombies, Causes, Exiting, Actor
  <2>5. Written' /\ FirstReportTrue'
    BY <2>0, <2>1, <2>2 DEF CGoto, Written, Recorded, Actor, FirstReportTrue
  <2>6. Reports' /\ Reaping'
    BY <2>1 DEF Reports, Reaping
  <2> QED BY <2>3, <2>4, <2>5, <2>6
<1>2. ASSUME NEW a \in Sender, NEW c \in Child,
             NEW k \in {"stopped", "continued", "pgid"}, NEW l,
             Calls(a, c, k), CGoto(a, l),
             l = IF k = "pgid" THEN "lock" ELSE "send"
      PROVE  IInv'
  <2>0. subj' = [subj EXCEPT ![a] = c] /\ cause' = [cause EXCEPT ![a] = k]
    BY <1>2 DEF Calls
  <2>1. UNCHANGED <<zombie, status, told, overtaken, wpc, busy, todo>>
    BY <1>2 DEF Calls
  <2>2. \A d \in Child : d # a
    BY Wait4Assumption
  <2>3. Fields'
    BY <1>2, <2>0, <2>1 DEF CGoto, Status
  <2>4. \A d \in Child :
          cpc'[d] = cpc[d] /\ subj'[d] = subj[d] /\ cause'[d] = cause[d]
    BY <1>2, <2>0, <2>1, <2>2 DEF CGoto
  <2>5. Actors'
    BY <1>2, <2>0, <2>1, <2>4 DEF CGoto, Actors, Actor
  <2>6. Zombies' /\ Causes' /\ Written' /\ FirstReportTrue'
    <3>1. Zombies' /\ Causes' /\ Written'
      BY <2>1, <2>4 DEF Zombies, Causes, Exiting, Written, Recorded
    <3>2. FirstReportTrue'
      BY <2>1, <2>4 DEF FirstReportTrue
    <3> QED BY <3>1, <3>2
  <2>7. Reports' /\ Reaping'
    BY <2>1 DEF Reports, Reaping
  <2> QED BY <2>3, <2>5, <2>6, <2>7
<1>3. ASSUME NEW a \in Sender, Signal(a) PROVE IInv'
  BY <1>2, <1>3 DEF Signal
<1>4. ASSUME NEW a \in Sender, Setpgid(a) PROVE IInv'
  <2>1. PICK c \in Child : Calls(a, c, "pgid")
    BY <1>4 DEF Setpgid
  <2> QED BY <1>2, <1>4, <2>1 DEF Setpgid
<1> QED BY <1>1, <1>3, <1>4

LEMMA Inductive == IInv /\ [Next]_vars => IInv'
<1> SUFFICES ASSUME IInv, [Next]_vars PROVE IInv'
  OBVIOUS
<1>1. ASSUME NEW c \in Child, ReaperReaps(c) PROVE IInv'
  BY <1>1, Stutter DEF ReaperReaps, core, waitVars, actorVars, hist
<1>3. ASSUME NEW l \in Lister, List(l) \/ ListEnd(l) PROVE IInv'
  BY <1>3, Stutter DEF List, ListEnd, core, waitVars, actorVars, hist, childVars
<1>2. CASE Rest \/ UNCHANGED vars
  BY <1>2, Stutter DEF Rest, vars, core, waitVars, actorVars, hist, childVars
<1> QED BY <1>1, <1>2, <1>3, WaiterSteps, ActorSteps, Begins DEF Next

-----------------------------------------------------------------------------
\* The invariant holds in every reachable state.
THEOREM Invariance == Spec => []IInv
BY Start, Inductive, PTL DEF Spec

\* FirstReportTrue for any number of children, waiters, senders and calls:
\* whoever takes the report of a death first, the waiter, a handler or a
\* second waiter, reads an exit as an exit and a death by any signal as SIGKILL
\* (wait4.c:121-124, 181-184), whatever stops are reported and cleared in
\* between.
THEOREM FirstReport == Spec => []FirstReportTrue
<1>1. IInv => FirstReportTrue
  BY DEF IInv
<1> QED BY <1>1, Invariance, PTL
=============================================================================
