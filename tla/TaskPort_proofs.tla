--------------------------- MODULE TaskPort_proofs ---------------------------
(***************************************************************************)
(* Proofs about TaskPort, for any sets of threads: ports and rights are    *)
(* exact, replies are sent once and truthfully, and the whole implements   *)
(* TaskExchange.                                                           *)
(***************************************************************************)
EXTENDS TaskPort, TLAPS

(***************************************************************************)
(* The inductive invariant.  Handoffs: only one handoff gets past the      *)
(* check, and it holds the flag until it stores its port (or fails, and    *)
(* leaves the flag set for good).  Holders: a worker that is still looking *)
(* at the process keeps it from being freed.                               *)
(***************************************************************************)
Handoffs ==
  /\ \A g \in Guest : Active(g) => flag
  /\ \A g, h \in Guest : Active(g) /\ Active(h) => g = h
  /\ \A g \in Guest : work[g] = "announce" => task # None

Holders ==
  st = "freed" => pin = {} /\ \A g \in Guest : work[g] = "none"

IInv ==
  TypeOK /\ Handoffs /\ Holders /\ RightsExact /\ RepliedOnce /\ ReadyIsTrue

-----------------------------------------------------------------------------
(* Settle, the end of every step that drops a reference                    *)

\* The object is freed only in the absence of workers, and then every
\* caller that slept is awake.
LEMMA Settling ==
  ASSUME IInv, NEW to \in {"live", "zombie", "gone", "freed"},
         NEW pins, pins \subseteq Caller, NEW busy,
         Settle(to, pins, busy),
         task' = task, busy = {g \in Guest : work'[g] # "none"},
         work' \in [Guest -> {"none", "nested", "enter", "recv", "got", "store",
                              "announce", "kill", "leave"}],
         \A g \in Guest : work'[g] \in {work[g], "none"},
         \A g \in Guest : work[g] \in {"got", "store"} => work'[g] = work[g],
         pin' = pins, to = "freed" <=> st = "freed", pins \subseteq pin
  PROVE  /\ st' \in {"live", "zombie", "gone", "freed"}
         /\ call' \in [Caller -> {"user", "check", "register", "fetch", "asleep"}]
         /\ answer' \in [Caller -> {"none", "ready", "error"}]
         /\ events' \subseteq Caller /\ rights' \subseteq Guest
         /\ Holders' /\ RightsExact' /\ RepliedOnce' /\ ReadyIsTrue'
<1> USE DEF IInv, TypeOK
<1>1. CASE to = "gone" /\ pins = {} /\ busy = {}
  <2>1. st' = "freed" /\ rights' = rights \ {task} /\ Wake(events)
    BY <1>1 DEF Settle, Deinit
  <2>2. \A g \in Guest : work'[g] = "none"
    BY <1>1
  <2>3. Holders'
    BY <1>1, <2>2 DEF Holders
  <2>4. RightsExact'
    BY <2>1, <2>2 DEF RightsExact
  <2>5. RepliedOnce' /\ ReadyIsTrue'
    BY <2>1 DEF Wake, RepliedOnce, ReadyIsTrue
  <2> QED BY <2>1, <2>3, <2>4, <2>5 DEF Wake
<1>2. CASE ~(to = "gone" /\ pins = {} /\ busy = {})
  <2>1. st' = to /\ UNCHANGED <<rights, events, call, answer>>
    BY <1>2 DEF Settle
  <2>2. Holders'
    BY <2>1 DEF Holders
  <2>3. RightsExact'
    BY <2>1 DEF RightsExact
  <2>4. RepliedOnce' /\ ReadyIsTrue'
    BY <2>1 DEF RepliedOnce, ReadyIsTrue
  <2> QED BY <2>1, <2>2, <2>3, <2>4
<1> QED BY <1>1, <1>2

-----------------------------------------------------------------------------
(* The invariant is inductive                                              *)

LEMMA Start == Init => IInv
<1> SUFFICES ASSUME Init PROVE IInv
  OBVIOUS
<1> USE DEF Init
<1>1. TypeOK
  BY DEF TypeOK
<1>2. Handoffs /\ Holders
  BY DEF Handoffs, Active, Holders
<1>3. RightsExact
  BY TaskPortAssumption DEF RightsExact
<1>4. RepliedOnce /\ ReadyIsTrue
  BY DEF RepliedOnce, ReadyIsTrue
<1> QED BY <1>1, <1>2, <1>3, <1>4 DEF IInv

\* handoffep
LEMMA WorkSteps ==
  ASSUME IInv, NEW g \in Guest, Handoff(g) \/ Trap(g) \/ Work(g)
  PROVE  IInv'
<1> USE DEF IInv, TypeOK, port, process, handoff
<1>1. CASE Handoff(g)
  <2>1. Handoffs' BY <1>1 DEF Handoff, Handoffs, Active
  <2>2. Holders' BY <1>1 DEF Handoff, Holders
  <2>3. RightsExact' BY <1>1 DEF Handoff, RightsExact
  <2> QED BY <1>1, <2>1, <2>2, <2>3 DEF Handoff, RepliedOnce, ReadyIsTrue
<1>2. CASE Enter(g)
  <2>1. Handoffs' BY <1>2 DEF Enter, Handoffs, Active
  <2>2. Holders' BY <1>2 DEF Enter, Holders
  <2>3. RightsExact' BY <1>2 DEF Enter, RightsExact
  <2> QED BY <1>2, <2>1, <2>2, <2>3 DEF Enter, RepliedOnce, ReadyIsTrue
<1>3. CASE Trap(g)
  BY <1>3 DEF Trap, Handoffs, Active, Holders, RightsExact, RepliedOnce,
              ReadyIsTrue
<1>4. CASE Receive(g)
  <2>1. Handoffs' BY <1>4 DEF Receive, Handoffs, Active
  <2>2. Holders' BY <1>4 DEF Receive, Holders
  <2>3. RightsExact' BY <1>4 DEF Receive, RightsExact
  <2> QED BY <1>4, <2>1, <2>2, <2>3 DEF Receive, RepliedOnce, ReadyIsTrue
<1>5. CASE Reject(g)
  <2>1. Handoffs' BY <1>5 DEF Reject, Handoffs, Active
  <2>2. Holders' BY <1>5 DEF Reject, Holders
  <2>3. RightsExact' BY <1>5 DEF Reject, RightsExact
  <2> QED BY <1>5, <2>1, <2>2, <2>3 DEF Reject, RepliedOnce, ReadyIsTrue
<1>6. CASE Timeout(g)
  <2>1. Handoffs' BY <1>6 DEF Timeout, Handoffs, Active
  <2>2. Holders' BY <1>6 DEF Timeout, Holders
  <2>3. RightsExact' BY <1>6 DEF Timeout, RightsExact
  <2> QED BY <1>6, <2>1, <2>2, <2>3 DEF Timeout, RepliedOnce, ReadyIsTrue
<1>7. CASE Identify(g)
  <2>1. Handoffs' BY <1>7 DEF Identify, Handoffs, Active
  <2>2. Holders' BY <1>7 DEF Identify, Holders
  <2>3. task # g BY <1>7, TaskPortAssumption DEF Identify, Handoffs, Active
  <2>4. RightsExact' BY <1>7, <2>3 DEF Identify, RightsExact
  <2> QED BY <1>7, <2>1, <2>2, <2>4 DEF Identify, RepliedOnce, ReadyIsTrue
<1>8. CASE Store(g)
  <2>1. task = None BY <1>8 DEF Store, Handoffs, Active
  <2>2. \A h \in Guest : h # None BY TaskPortAssumption
  <2>3. Handoffs' BY <1>8, <2>2 DEF Store, Handoffs, Active
  <2>4. Holders' BY <1>8 DEF Store, Holders
  <2>5. RightsExact' BY <1>8, <2>1, <2>2 DEF Store, Holders, RightsExact
  <2>6. ReadyIsTrue' BY <1>8, <2>2 DEF Store, ReadyIsTrue
  <2> QED BY <1>8, <2>3, <2>4, <2>5, <2>6 DEF Store, RepliedOnce
<1>9. CASE Announce(g)
  <2>1. task # None BY <1>9 DEF Announce, Handoffs
  <2>2. Handoffs' BY <1>9 DEF Announce, Handoffs, Active
  <2>3. Holders' BY <1>9 DEF Announce, Holders
  <2>4. RightsExact' BY <1>9 DEF Announce, RightsExact
  <2>5. RepliedOnce' /\ ReadyIsTrue'
    BY <1>9, <2>1 DEF Announce, Wake, RepliedOnce, ReadyIsTrue
  <2> QED BY <1>9, <2>2, <2>3, <2>4, <2>5 DEF Announce, Wake
<1>10. CASE Fail(g)
  <2>1. Handoffs' BY <1>10 DEF Fail, Handoffs, Active
  <2>2. Holders' BY <1>10 DEF Fail, Holders
  <2>3. RightsExact' BY <1>10 DEF Fail, RightsExact
  <2> QED BY <1>10, <2>1, <2>2, <2>3 DEF Fail, Kill, RepliedOnce, ReadyIsTrue
<1>11. CASE Leave(g)
  <2>1. Handoffs' BY <1>11 DEF Leave, Handoffs, Active
  <2>2. Busy \ {g} = {h \in Guest : work'[h] # "none"}
    BY <1>11 DEF Leave, Busy
  <2>3. /\ st' \in {"live", "zombie", "gone", "freed"}
        /\ call' \in [Caller -> {"user", "check", "register", "fetch", "asleep"}]
        /\ answer' \in [Caller -> {"none", "ready", "error"}]
        /\ events' \subseteq Caller /\ rights' \subseteq Guest
        /\ Holders' /\ RightsExact' /\ RepliedOnce' /\ ReadyIsTrue'
    BY <1>11, <2>2, Settling DEF Leave
  <2> QED BY <1>11, <2>1, <2>3 DEF Leave
<1>12. CASE Begin(g)
  <2>1. Handoffs' BY <1>12 DEF Begin, Handoffs, Active
  <2>2. Holders' BY <1>12 DEF Begin, Holders
  <2>3. RightsExact' BY <1>12 DEF Begin, RightsExact
  <2> QED BY <1>12, <2>1, <2>2, <2>3 DEF Begin, RepliedOnce, ReadyIsTrue
<1> QED BY <1>1, <1>2, <1>3, <1>4, <1>5, <1>6, <1>7, <1>8, <1>9, <1>10, <1>11,
           <1>12
        DEF Work

\* waittask, task_for_pid and wait4
LEMMA CallSteps ==
  ASSUME IInv, NEW c \in Caller, Look(c) \/ Serve(c) \/ Reap(c)
  PROVE  IInv'
<1> USE DEF IInv, TypeOK, port, process, handoff
<1>1. CASE Look(c)
  <2>1. Handoffs' /\ RightsExact'
    BY <1>1 DEF Look, Handoffs, Active, RightsExact
  <2>2. Holders' BY <1>1 DEF Look, Holders
  <2>3. RepliedOnce' /\ ReadyIsTrue'
    BY <1>1 DEF Look, RepliedOnce, ReadyIsTrue
  <2> QED BY <1>1, <2>1, <2>2, <2>3 DEF Look
<1>2. CASE Check(c)
  <2>1. Handoffs' /\ RightsExact' /\ Holders'
    BY <1>2 DEF Check, Handoffs, Active, RightsExact, Holders
  <2>2. RepliedOnce' /\ ReadyIsTrue'
    BY <1>2 DEF Check, RepliedOnce, ReadyIsTrue
  <2> QED BY <1>2, <2>1, <2>2 DEF Check
<1>3. CASE Register(c)
  <2>1. Handoffs' /\ RightsExact' /\ Holders'
    BY <1>3 DEF Register, Handoffs, Active, RightsExact, Holders
  <2>2. RepliedOnce' /\ ReadyIsTrue'
    BY <1>3 DEF Register, RepliedOnce, ReadyIsTrue
  <2> QED BY <1>3, <2>1, <2>2 DEF Register
<1>4. CASE Fetch(c)
  <2>1. Handoffs' /\ RightsExact' /\ Holders'
    BY <1>4 DEF Fetch, Handoffs, Active, RightsExact, Holders
  <2>2. RepliedOnce' /\ ReadyIsTrue'
    BY <1>4 DEF Fetch, RepliedOnce, ReadyIsTrue
  <2> QED BY <1>4, <2>1, <2>2 DEF Fetch
<1>5. CASE Release(c)
  <2>1. Handoffs' BY <1>5 DEF Release, Handoffs, Active
  <2>2. Busy = {h \in Guest : work'[h] # "none"} BY <1>5 DEF Release, Busy
  <2>3. /\ st' \in {"live", "zombie", "gone", "freed"}
        /\ call' \in [Caller -> {"user", "check", "register", "fetch", "asleep"}]
        /\ answer' \in [Caller -> {"none", "ready", "error"}]
        /\ events' \subseteq Caller /\ rights' \subseteq Guest
        /\ Holders' /\ RightsExact' /\ RepliedOnce' /\ ReadyIsTrue'
    BY <1>5, <2>2, Settling DEF Release
  <2> QED BY <1>5, <2>1, <2>3 DEF Release
<1>6. CASE Reap(c)
  <2>1. Handoffs' BY <1>6 DEF Reap, Handoffs, Active
  <2>2. Busy = {h \in Guest : work'[h] # "none"} BY <1>6 DEF Reap, Busy
  <2>3. /\ st' \in {"live", "zombie", "gone", "freed"}
        /\ call' \in [Caller -> {"user", "check", "register", "fetch", "asleep"}]
        /\ answer' \in [Caller -> {"none", "ready", "error"}]
        /\ events' \subseteq Caller /\ rights' \subseteq Guest
        /\ Holders' /\ RightsExact' /\ RepliedOnce' /\ ReadyIsTrue'
    BY <1>6, <2>2, Settling DEF Reap
  <2> QED BY <1>6, <2>1, <2>3 DEF Reap
<1> QED BY <1>1, <1>2, <1>3, <1>4, <1>5, <1>6 DEF Serve

LEMMA Stutter == IInv /\ UNCHANGED vars => IInv'
BY DEF vars, port, process, handoff, IInv, TypeOK, Handoffs, Active, Holders,
       RightsExact, RepliedOnce, ReadyIsTrue

\* The life of the process
LEMMA LifeSteps ==
  ASSUME IInv, Manage \/ Die \/ Zombify \/ ParentExits \/ Jam \/ Rest
  PROVE  IInv'
<1> USE DEF IInv, TypeOK, port, process, handoff
<1>1. CASE Manage \/ Die \/ Jam
  <2>1. /\ UNCHANGED <<port, parent, killed, spared, st, handoff, call, pin,
                       events, answer>>
        /\ host' \in BOOLEAN /\ managed' \in BOOLEAN /\ jam' \in BOOLEAN
    BY <1>1 DEF Manage, Die, Jam
  <2>2. Handoffs' /\ Holders' BY <2>1 DEF Handoffs, Active, Holders
  <2>3. RightsExact' BY <2>1 DEF RightsExact
  <2>4. RepliedOnce' /\ ReadyIsTrue' BY <2>1 DEF RepliedOnce, ReadyIsTrue
  <2> QED BY <2>1, <2>2, <2>3, <2>4
<1>2. CASE Zombify
  <2>1. Handoffs' /\ Holders' BY <1>2 DEF Zombify, Handoffs, Active, Holders
  <2>2. RightsExact' BY <1>2 DEF Zombify, RightsExact
  <2>3. RepliedOnce' /\ ReadyIsTrue'
    BY <1>2 DEF Zombify, RepliedOnce, ReadyIsTrue
  <2> QED BY <1>2, <2>1, <2>2, <2>3 DEF Zombify
<1>3. CASE ParentExits
  <2>1. Handoffs' BY <1>3 DEF ParentExits, Handoffs, Active
  <2>2. Busy = {h \in Guest : work'[h] # "none"} BY <1>3 DEF ParentExits, Busy
  <2>3. /\ st' \in {"live", "zombie", "gone", "freed"}
        /\ call' \in [Caller -> {"user", "check", "register", "fetch", "asleep"}]
        /\ answer' \in [Caller -> {"none", "ready", "error"}]
        /\ events' \subseteq Caller /\ rights' \subseteq Guest
        /\ Holders' /\ RightsExact' /\ RepliedOnce' /\ ReadyIsTrue'
    <3> DEFINE to == IF st \in {"live", "zombie"} THEN "gone" ELSE st
    <3>1. to \in {"live", "zombie", "gone", "freed"} /\ (to = "freed" <=> st = "freed")
      OBVIOUS
    <3>2. Settle(to, pin, Busy) BY <1>3 DEF ParentExits
    <3> HIDE DEF to
    <3> QED BY <1>3, <2>2, <3>1, <3>2, Settling DEF ParentExits
  <2> QED BY <1>3, <2>1, <2>3 DEF ParentExits
<1>4. CASE Rest
  BY <1>4, Stutter DEF Rest
<1> QED BY <1>1, <1>2, <1>3, <1>4

-----------------------------------------------------------------------------
(* Theorems                                                                *)

\* IInv holds in every reachable state.
THEOREM Invariance == Spec => []IInv
<1>1. IInv /\ [Next]_vars => IInv'
  BY WorkSteps, CallSteps, LifeSteps, Stutter DEF Next
<1> QED BY Start, <1>1, PTL DEF Spec

\* The fields have their types, and a process that has its task port is not in
\* a handoff.
THEOREM Typing == Spec => []TypeOK
BY Invariance, PTL DEF IInv

\* A port that is stored is never replaced: only the handoff that holds the
\* flag stores one, and it does so once.
THEOREM StoredOnce == Spec => TaskOnce
<1>1. IInv /\ [Next]_vars => [task # None => task' = task]_vars
  <2> SUFFICES ASSUME IInv, Next, task # None PROVE task' = task
    OBVIOUS
  <2>1. \A g \in Guest : ~Store(g)
    BY DEF Store, IInv, TypeOK, Handoffs, Active
  <2>2. ASSUME NEW g \in Guest, Handoff(g) \/ Trap(g) \/ Work(g)
        PROVE  task' = task
    BY <2>1, <2>2 DEF Handoff, Trap, Work, Begin, Enter, Receive, Reject, Timeout,
       Identify, Announce, Fail, Leave, port
  <2>3. ASSUME NEW c \in Caller, Look(c) \/ Serve(c) \/ Reap(c)
        PROVE  task' = task
    BY <2>3 DEF Look, Serve, Check, Register, Fetch, Release, Reap, port
  <2>4. ASSUME Manage \/ Die \/ Zombify \/ ParentExits \/ Jam \/ Rest
        PROVE  task' = task
    BY <2>4 DEF Manage, Die, Zombify, ParentExits, Jam, Rest, vars, port
  <2> QED BY <2>2, <2>3, <2>4 DEF Next
<1> QED BY Invariance, <1>1, PTL DEF Spec, TaskOnce

\* The host neither leaks a task port nor gives one up too early.
THEOREM RightsAreExact == Spec => []RightsExact
BY Invariance, PTL DEF IInv

\* An event exists exactly while its caller sleeps, so no reply is sent twice.
THEOREM RepliesOnce == Spec => []RepliedOnce
BY Invariance, PTL DEF IInv

\* Who is told that the port is there finds it there, or the process gone.
THEOREM RepliesTrue == Spec => []ReadyIsTrue
BY Invariance, PTL DEF IInv

-----------------------------------------------------------------------------
(* TaskPort implements TaskExchange.  Questions: a caller that has asked   *)
(* keeps the process, and its answer is still to come.                     *)

Asking(c) == call[c] \in {"check", "register", "fetch"}
Questions == \A c \in Caller : Asking(c) => c \in pin /\ answer[c] = "none"

QInv == IInv /\ Questions

\* What a settled reference leaves of the callers.
LEMMA SettlingQuestions ==
  ASSUME IInv, Questions, NEW to, NEW pins, NEW busy, Settle(to, pins, busy),
         \A c \in Caller : Asking(c) => c \in pin'
  PROVE  /\ Questions'
         /\ \A c \in Caller : Asking(c)' <=> Asking(c)
<1>1. \A c \in Caller :
        \/ call'[c] = call[c] /\ answer'[c] = answer[c]
        \/ c \in events /\ call'[c] = "user"
  BY DEF Settle, Deinit, Wake, IInv, TypeOK
<1>2. \A c \in events : ~Asking(c)
  BY DEF IInv, RepliedOnce, Asking
<1> QED BY <1>1, <1>2 DEF Questions, Asking

LEMMA QuestionsStep == QInv /\ [Next]_vars => Questions'
<1> SUFFICES ASSUME IInv, Questions, [Next]_vars PROVE Questions'
  BY DEF QInv
<1> USE DEF port, process, handoff
<1>1. ASSUME NEW g \in Guest, Handoff(g) \/ Trap(g) \/ Work(g) PROVE Questions'
  <2>1. CASE Announce(g)
    <3>1. \A c \in Caller :
            \/ call'[c] = call[c] /\ answer'[c] = answer[c]
            \/ c \in events /\ call'[c] = "user"
      BY <2>1 DEF Announce, Wake, IInv, TypeOK
    <3>2. pin' = pin
      BY <2>1 DEF Announce
    <3> QED BY <3>1, <3>2 DEF Questions, Asking
  <2>2. CASE Leave(g)
    BY <2>2, SettlingQuestions DEF Leave, Questions
  <2>3. CASE Handoff(g) \/ Trap(g) \/ Begin(g) \/ Enter(g) \/ Receive(g) \/ Reject(g)
             \/ Timeout(g) \/ Identify(g) \/ Store(g) \/ Fail(g)
    <3>1. UNCHANGED <<call, pin, answer>>
      BY <2>3 DEF Handoff, Trap, Begin, Enter, Receive, Reject, Timeout, Identify,
                  Store, Fail
    <3> QED BY <3>1 DEF Questions, Asking
  <2> QED BY <1>1, <2>1, <2>2, <2>3 DEF Work
<1>2. ASSUME NEW c \in Caller, Look(c) \/ Serve(c) \/ Reap(c) PROVE Questions'
  <2> USE DEF IInv, TypeOK
  <2>1. CASE Look(c)
    BY <2>1 DEF Look, Questions, Asking
  <2>2. CASE Check(c) \/ Register(c) \/ Fetch(c)
    BY <2>2 DEF Check, Register, Fetch, Questions, Asking
  <2>3. CASE Release(c)
    <3>1. \A d \in Caller : Asking(d) => d \in pin'
      BY <2>3 DEF Release, Questions, Asking
    <3> QED BY <2>3, <3>1, SettlingQuestions DEF Release
  <2>4. CASE Reap(c)
    BY <2>4, SettlingQuestions DEF Reap, Questions
  <2> QED BY <1>2, <2>1, <2>2, <2>3, <2>4 DEF Serve
<1>3. ASSUME Manage \/ Die \/ Zombify \/ Jam \/ Rest \/ UNCHANGED vars
      PROVE  Questions'
  <2>1. UNCHANGED <<call, pin, answer>>
    BY <1>3 DEF Manage, Die, Zombify, Jam, Rest, vars
  <2> QED BY <2>1 DEF Questions, Asking
<1>4. CASE ParentExits
  BY <1>4, SettlingQuestions DEF ParentExits, Questions
<1> QED BY <1>1, <1>2, <1>3, <1>4 DEF Next

\* What the promise sees.
Seen == <<task, flag, rights, call, events, answer, st>>

LEMMA Unseen ==
  ASSUME UNCHANGED Seen, \A g \in Guest : Active(g)' <=> Active(g)
  PROVE  UNCHANGED Promise!vars
<1>1. {g \in Guest : Active(g)}' = {g \in Guest : Active(g)}
  OBVIOUS
<1> QED BY <1>1 DEF Seen, Promise!vars, Promise!exchange, Promise!life

\* The references that end a step: the end, the loss or nothing.
LEMMA SettlingPromise ==
  ASSUME IInv, Questions, NEW to, NEW pins, NEW busy, Settle(to, pins, busy),
         UNCHANGED <<task, flag>>, to \in {st, "gone"}, to = "gone" => st # "freed",
         \A g \in Guest : Active(g)' <=> Active(g),
         \A g \in Guest : busy = {} => ~Active(g),
         \A c \in Caller : Asking(c) => c \in pins
  PROVE  [Promise!Next]_(Promise!vars)
<1>1. {g \in Guest : Active(g)}' = {g \in Guest : Active(g)}
  OBVIOUS
<1>2. \A c \in Caller : Asking(c)' <=> Asking(c)
  <2>1. \A c \in Caller : call'[c] = call[c] \/ (c \in events /\ call'[c] = "user")
    BY DEF Settle, Deinit, Wake, IInv, TypeOK
  <2>2. \A c \in events : ~Asking(c)
    BY DEF IInv, RepliedOnce, Asking
  <2> QED BY <2>1, <2>2 DEF Asking
<1>3. {c \in Caller : Asking(c)}' = {c \in Caller : Asking(c)}
  BY <1>2
<1>4. CASE to = "gone" /\ pins = {} /\ busy = {}
  <2>1. /\ st' = "freed" /\ rights' = rights \ {task} /\ Wake(events)
    BY <1>4 DEF Settle, Deinit
  <2>2. {g \in Guest : Active(g)} = {} /\ {c \in Caller : Asking(c)} = {}
    BY <1>4
  <2>3. rights' = {}
    BY <2>1, <2>2 DEF IInv, TypeOK, RightsExact, Active
  <2>4. Promise!AnswerAll
    BY <2>1 DEF Wake, Promise!AnswerAll
  <2>5. st # "freed" /\ st' \notin {"live", "zombie"}
    BY <1>4, <2>1
  <2>6. Promise!End
    BY <1>1, <1>3, <2>1, <2>2, <2>3, <2>4, <2>5 DEF Promise!End, Asking
  <2> QED BY <2>6 DEF Promise!Next
<1>5. CASE ~(to = "gone" /\ pins = {} /\ busy = {})
  <2>1. st' = to /\ UNCHANGED <<rights, events, call, answer>>
    BY <1>5 DEF Settle
  <2>2. CASE to = st
    BY <2>1, <2>2, Unseen DEF Seen
  <2>3. CASE to = "gone" /\ to # st
    <3>1. Promise!Lose
      BY <1>1, <2>1, <2>3 DEF Promise!Lose, Promise!exchange
    <3> QED BY <3>1 DEF Promise!Next
  <2> QED BY <2>2, <2>3
<1> QED BY <1>4, <1>5

\* The handoffs.
LEMMA GuestPromise ==
  ASSUME IInv, Questions, NEW g \in Guest, Handoff(g) \/ Trap(g) \/ Work(g)
  PROVE  [Promise!Next]_(Promise!vars)
<1> USE DEF IInv, TypeOK, port, process, handoff
<1>1. ASSUME \A h \in Guest : h # g => work'[h] = work[h], Active(g)' <=> Active(g)
      PROVE  \A h \in Guest : Active(h)' <=> Active(h)
  BY <1>1 DEF Active
<1>2. CASE Handoff(g) \/ Trap(g) \/ Begin(g) \/ Fail(g)
  <2>1. UNCHANGED Seen
    BY <1>2 DEF Handoff, Trap, Begin, Fail, Seen
  <2>2. \A h \in Guest : h # g => work'[h] = work[h]
    BY <1>2 DEF Handoff, Trap, Begin, Fail
  <2>3. Active(g)' <=> Active(g)
    BY <1>2 DEF Handoff, Trap, Begin, Fail, Active
  <2> QED BY <1>1, <2>1, <2>2, <2>3, Unseen
<1>3. CASE Enter(g)
  <2>1. CASE task # None \/ flag
    <3>1. /\ UNCHANGED Seen
          /\ work[g] = "enter" /\ work' = [work EXCEPT ![g] = "kill"]
      BY <1>3, <2>1 DEF Enter, Seen
    <3>2. Active(g)' <=> Active(g)
      BY <3>1 DEF Active
    <3> QED BY <1>1, <3>1, <3>2, Unseen
  <2>2. CASE task = None /\ ~flag
    <3>1. /\ work' = [work EXCEPT ![g] = "recv"] /\ flag' = TRUE
          /\ UNCHANGED <<task, rights, call, events, answer, st>>
      BY <1>3, <2>2 DEF Enter
    <3>2. \A h \in Guest : Active(h)' <=> h = g
      BY <2>2, <3>1 DEF Active, Handoffs
    <3>3. {h \in Guest : Active(h)}' = {g}
      BY <3>2
    <3>4. st # "freed"
      BY <1>3 DEF Enter, Holders
    <3>5. Promise!Begin(g)
      BY <2>2, <3>1, <3>3, <3>4 DEF Promise!Begin, Promise!life
    <3> QED BY <3>5 DEF Promise!Next
  <2> QED BY <2>1, <2>2
<1>4. ASSUME Active(g)
      PROVE  /\ {h \in Guest : Active(h)} = {g} /\ task = None
             /\ rights \subseteq {g}
             /\ g \in rights <=> work[g] \in {"got", "store"}
  <2>1. \A h \in Guest : Active(h) => h = g
    BY <1>4 DEF Handoffs
  <2>2. task = None
    BY <1>4 DEF Handoffs
  <2>3. \A h \in Guest : h # None
    BY TaskPortAssumption
  <2> QED BY <1>4, <2>1, <2>2, <2>3 DEF RightsExact, Active
<1>5. CASE Receive(g)
  <2>1. /\ work' = [work EXCEPT ![g] = "got"] /\ rights' = rights \cup {g}
        /\ Active(g) /\ work[g] = "recv"
        /\ UNCHANGED <<task, flag, call, events, answer, st>>
    BY <1>5 DEF Receive, Active
  <2>2. \A h \in Guest : Active(h)' <=> Active(h)
    BY <2>1 DEF Active
  <2>3. {h \in Guest : Active(h)}' = {h \in Guest : Active(h)}
    BY <2>2
  <2>4. rights = {} /\ rights' = {g} /\ {h \in Guest : Active(h)} = {g}
    BY <1>4, <2>1
  <2>5. Promise!Take(g)
    BY <2>1, <2>3, <2>4 DEF Promise!Take, Promise!life
  <2> QED BY <2>5 DEF Promise!Next
<1>6. ASSUME work' = [work EXCEPT ![g] = "kill"], Active(g), rights' = rights \ {g},
             UNCHANGED <<task, flag, call, events, answer, st>>
      PROVE  Promise!Next
  <2>1. \A h \in Guest : ~Active(h)'
    BY <1>4, <1>6 DEF Active
  <2>2. {h \in Guest : Active(h)}' = {}
    BY <2>1
  <2>3. {h \in Guest : Active(h)} = {g} /\ rights' = {}
    BY <1>4, <1>6
  <2>4. Promise!GiveUp(g)
    BY <1>6, <2>2, <2>3 DEF Promise!GiveUp, Promise!life
  <2> QED BY <2>4 DEF Promise!Next
<1>7. CASE Reject(g) \/ Timeout(g)
  <2>1. /\ work' = [work EXCEPT ![g] = "kill"] /\ Active(g) /\ work[g] = "recv"
        /\ UNCHANGED <<task, flag, rights, call, events, answer, st>>
    BY <1>7 DEF Reject, Timeout, Active
  <2>2. rights' = rights \ {g}
    BY <1>4, <2>1
  <2> QED BY <1>6, <2>1, <2>2
<1>8. CASE Identify(g)
  <2>1. work[g] = "got" /\ Active(g) /\ UNCHANGED <<task, flag, call, events, answer, st>>
    BY <1>8 DEF Identify, Active
  <2>2. CASE work' = [work EXCEPT ![g] = "store"] /\ UNCHANGED rights
    <3>1. /\ UNCHANGED Seen /\ Active(g)'
          /\ \A h \in Guest : h # g => work'[h] = work[h]
      BY <2>1, <2>2 DEF Seen, Active
    <3> QED BY <1>1, <2>1, <3>1, Unseen
  <2>3. CASE work' = [work EXCEPT ![g] = "kill"] /\ rights' = rights \ {g}
    BY <1>6, <2>1, <2>3
  <2> QED BY <1>8, <2>2, <2>3 DEF Identify
<1>9. CASE Store(g)
  <2>1. /\ work' = [work EXCEPT ![g] = "announce"] /\ task' = g /\ flag' = FALSE
        /\ Active(g) /\ work[g] = "store"
        /\ UNCHANGED <<rights, call, events, answer, st>>
    BY <1>9 DEF Store, Active
  <2>2. \A h \in Guest : ~Active(h)'
    BY <1>4, <2>1 DEF Active
  <2>3. {h \in Guest : Active(h)}' = {}
    BY <2>2
  <2>4. /\ {h \in Guest : Active(h)} = {g} /\ rights = {g} /\ task = None
        /\ flag /\ g # None
    BY <1>4, <2>1, TaskPortAssumption DEF Handoffs
  <2>5. Promise!Deliver(g)
    BY <2>1, <2>3, <2>4 DEF Promise!Deliver, Promise!life
  <2> QED BY <2>5 DEF Promise!Next
<1>10. CASE Announce(g)
  <2>1. /\ work' = [work EXCEPT ![g] = "leave"] /\ work[g] = "announce"
        /\ Wake(events) /\ UNCHANGED <<task, flag, rights, st>>
    BY <1>10 DEF Announce
  <2>2. {h \in Guest : Active(h)}' = {h \in Guest : Active(h)}
    BY <2>1 DEF Active
  <2>3. task # None /\ st # "freed"
    BY <2>1 DEF Handoffs, Holders
  <2>4. \A c \in Caller : Asking(c)' <=> Asking(c)
    BY <2>1 DEF Wake, Asking, RepliedOnce
  <2>5. {c \in Caller : Asking(c)}' = {c \in Caller : Asking(c)}
    BY <2>4
  <2>6. Promise!AnswerAll
    BY <2>1 DEF Wake, Promise!AnswerAll
  <2>7. Promise!Announce
    BY <2>1, <2>2, <2>3, <2>5, <2>6
    DEF Promise!Announce, Promise!exchange, Promise!life, Asking
  <2> QED BY <2>7 DEF Promise!Next
<1>11. CASE Leave(g)
  <2>1. /\ work' = [work EXCEPT ![g] = "none"] /\ work[g] = "leave"
        /\ Settle(st, pin, Busy \ {g}) /\ UNCHANGED <<task, flag>>
    BY <1>11 DEF Leave
  <2>2. \A h \in Guest : (Active(h)' <=> Active(h)) /\ (Busy \ {g} = {} => ~Active(h))
    BY <2>1 DEF Active, Busy
  <2> QED BY <2>1, <2>2, SettlingPromise DEF Questions
<1> QED BY <1>2, <1>3, <1>5, <1>6, <1>7, <1>8, <1>9, <1>10, <1>11 DEF Work

\* The callers.
LEMMA CallerPromise ==
  ASSUME IInv, Questions, NEW c \in Caller, Look(c) \/ Serve(c) \/ Reap(c)
  PROVE  [Promise!Next]_(Promise!vars)
<1> USE DEF IInv, TypeOK, port, process, handoff
<1>1. /\ UNCHANGED <<task, flag, work>>
      /\ {g \in Guest : Active(g)}' = {g \in Guest : Active(g)}
      /\ \A g \in Guest : (Active(g)' <=> Active(g)) /\ (Busy = {} => ~Active(g))
  BY DEF Look, Serve, Check, Register, Fetch, Release, Reap, Active, Busy
<1>2. ASSUME NEW to, call' = [call EXCEPT ![c] = to]
      PROVE  /\ to \in {"check", "register", "fetch"} =>
                  {d \in Caller : Asking(d)}' = {d \in Caller : Asking(d)} \cup {c}
             /\ to \in {"user", "asleep"} =>
                  {d \in Caller : Asking(d)}' = {d \in Caller : Asking(d)} \ {c}
  <2>1. \A d \in Caller : Asking(d)' <=>
          IF d = c THEN to \in {"check", "register", "fetch"} ELSE Asking(d)
    BY <1>2 DEF Asking
  <2> QED BY <2>1
<1>3. Asking(c) => c \notin events
  BY DEF RepliedOnce, Asking
<1>4. CASE Look(c)
  <2>1. /\ call[c] = "user" /\ UNCHANGED <<rights, st, events>>
        /\ ~Asking(c) /\ c \notin events
    BY <1>4 DEF Look, RepliedOnce, Asking
  <2>2. CASE st \in {"live", "zombie"}
    <3>1. PICK to \in {"check", "fetch"} : call' = [call EXCEPT ![c] = to]
      BY <1>4, <2>2 DEF Look
    <3>2. answer' = [answer EXCEPT ![c] = "none"]
      BY <1>4, <2>2 DEF Look
    <3>3. {d \in Caller : Asking(d)}' = {d \in Caller : Asking(d)} \cup {c}
      BY <1>2, <3>1
    <3>4. Promise!Ask(c)
      BY <1>1, <2>1, <2>2, <3>2, <3>3
      DEF Promise!Ask, Promise!exchange, Promise!life, Asking
    <3> QED BY <3>4 DEF Promise!Next
  <2>3. CASE st \notin {"live", "zombie"}
    <3>1. answer' = [answer EXCEPT ![c] = "error"] /\ UNCHANGED call
      BY <1>4, <2>3 DEF Look
    <3>2. {d \in Caller : Asking(d)}' = {d \in Caller : Asking(d)} \ {c}
      BY <2>1, <3>1 DEF Asking
    <3>3. Promise!Refuse(c)
      BY <1>1, <2>1, <2>3, <3>1, <3>2
      DEF Promise!Refuse, Promise!exchange, Promise!life, Asking
    <3> QED BY <3>3 DEF Promise!Next
  <2> QED BY <2>2, <2>3
<1>5. ASSUME Asking(c), call' = [call EXCEPT ![c] = "user"],
             UNCHANGED <<rights, st, events>>,
             \/ answer' = [answer EXCEPT ![c] = "error"]
             \/ answer' = [answer EXCEPT ![c] = "ready"] /\ task # None
      PROVE  Promise!Next
  <2>1. {d \in Caller : Asking(d)}' = {d \in Caller : Asking(d)} \ {c}
    BY <1>2, <1>5
  <2>2. CASE answer' = [answer EXCEPT ![c] = "error"]
    <3>1. Promise!Refuse(c)
      BY <1>1, <1>3, <1>5, <2>1, <2>2
      DEF Promise!Refuse, Promise!exchange, Promise!life, Asking
    <3> QED BY <3>1 DEF Promise!Next
  <2>3. CASE answer' = [answer EXCEPT ![c] = "ready"] /\ task # None
    <3>1. Promise!Confirm(c)
      BY <1>1, <1>5, <2>1, <2>3
      DEF Promise!Confirm, Promise!exchange, Promise!life, Asking
    <3> QED BY <3>1 DEF Promise!Next
  <2> QED BY <1>5, <2>2, <2>3
<1>6. CASE Check(c)
  <2>1. Asking(c) /\ UNCHANGED <<rights, st, events>>
    BY <1>6 DEF Check, Asking
  <2>2. CASE task # None
    BY <1>5, <1>6, <2>1, <2>2 DEF Check
  <2>3. CASE task = None
    <3>1. call' = [call EXCEPT ![c] = "register"] /\ UNCHANGED answer
      BY <1>6, <2>3 DEF Check
    <3>2. {d \in Caller : Asking(d)}' = {d \in Caller : Asking(d)}
      BY <1>2, <2>1, <3>1
    <3> QED BY <1>1, <2>1, <3>1, <3>2
            DEF Promise!vars, Promise!exchange, Promise!life, Asking
  <2> QED BY <2>2, <2>3
<1>7. CASE Register(c)
  <2>1. Asking(c) /\ UNCHANGED <<rights, st>>
    BY <1>7 DEF Register, Asking
  <2>2. CASE /\ call' = [call EXCEPT ![c] = "asleep"]
             /\ events' = events \cup {c} /\ UNCHANGED answer
    <3>1. {d \in Caller : Asking(d)}' = {d \in Caller : Asking(d)} \ {c}
      BY <1>2, <2>2
    <3>2. answer[c] = "none"
      BY <2>1 DEF Questions
    <3>3. Promise!Wait(c)
      BY <1>1, <2>1, <2>2, <3>1, <3>2
      DEF Promise!Wait, Promise!exchange, Promise!life, Asking
    <3> QED BY <3>3 DEF Promise!Next
  <2>3. CASE /\ call' = [call EXCEPT ![c] = "user"]
             /\ answer' = [answer EXCEPT ![c] = "error"] /\ UNCHANGED events
    BY <1>5, <2>1, <2>3
  <2> QED BY <1>7, <2>2, <2>3 DEF Register
<1>8. CASE Fetch(c)
  <2>1. Asking(c) /\ UNCHANGED <<rights, st, events>>
        /\ call' = [call EXCEPT ![c] = "user"]
        /\ answer' = [answer EXCEPT ![c] = IF task # None THEN "ready" ELSE "error"]
    BY <1>8 DEF Fetch, Asking
  <2> QED BY <1>5, <2>1
<1>9. CASE Release(c)
  <2>1. Settle(st, pin \ {c}, Busy) /\ ~Asking(c)
    BY <1>9 DEF Release, Asking
  <2> QED BY <1>1, <2>1, SettlingPromise DEF Questions
<1>10. CASE Reap(c)
  <2>1. Settle("gone", pin, Busy) /\ st # "freed"
    BY <1>10 DEF Reap
  <2> QED BY <1>1, <2>1, SettlingPromise DEF Questions
<1> QED BY <1>4, <1>6, <1>7, <1>8, <1>9, <1>10 DEF Serve

\* Death, exit of the parent, and what nobody sees.
LEMMA LifePromise ==
  ASSUME IInv, Questions,
         Manage \/ Die \/ Zombify \/ ParentExits \/ Jam \/ Rest \/ UNCHANGED vars
  PROVE  [Promise!Next]_(Promise!vars)
<1> USE DEF port, process, handoff
<1>1. CASE Manage \/ Die \/ Jam \/ Rest \/ UNCHANGED vars
  <2>1. UNCHANGED Seen /\ UNCHANGED work
    BY <1>1 DEF Manage, Die, Jam, Rest, vars, Seen
  <2> QED BY <2>1, Unseen DEF Active
<1>2. CASE Zombify
  <2>1. /\ st \in {"live", "zombie"} /\ st' \in {"live", "zombie"}
        /\ UNCHANGED <<task, flag, rights, call, events, answer, work>>
    BY <1>2 DEF Zombify
  <2>2. {g \in Guest : Active(g)}' = {g \in Guest : Active(g)}
    BY <2>1 DEF Active
  <2> QED BY <2>1, <2>2 DEF Promise!vars, Promise!exchange, Promise!life
<1>3. CASE ParentExits
  <2> DEFINE to == IF st \in {"live", "zombie"} THEN "gone" ELSE st
  <2>1. /\ Settle(to, pin, Busy) /\ to \in {st, "gone"}
        /\ to = "gone" => st # "freed"
        /\ UNCHANGED <<task, flag, work>>
    BY <1>3 DEF ParentExits
  <2>2. \A g \in Guest : (Active(g)' <=> Active(g)) /\ (Busy = {} => ~Active(g))
    BY <2>1 DEF Active, Busy
  <2> HIDE DEF to
  <2> QED BY <2>1, <2>2, SettlingPromise DEF Questions
<1> QED BY <1>1, <1>2, <1>3

\* Behind workers, locks, references, timeouts and traps, every behaviour is one
\* TaskExchange allows, for any number of guest threads and callers.
THEOREM Refinement == Spec => ImplementsTaskExchange
<1>1. Init => QInv
  BY Start DEF Init, QInv, Questions, Asking
<1>2. QInv /\ [Next]_vars => QInv'
  <2>1. IInv /\ [Next]_vars => IInv'
    BY WorkSteps, CallSteps, LifeSteps, Stutter DEF Next
  <2> QED BY <2>1, QuestionsStep DEF QInv
<1>3. Init => Promise!Init
  BY DEF Init, Promise!Init, Active
<1>4. QInv /\ [Next]_vars => [Promise!Next]_(Promise!vars)
  BY GuestPromise, CallerPromise, LifePromise DEF QInv, Next
<1> QED BY <1>1, <1>2, <1>3, <1>4, PTL DEF Spec, Promise!Spec, ImplementsTaskExchange
=============================================================================
