------------------------- MODULE Wait4Events_proofs -------------------------
(***************************************************************************)
(* Proofs about Wait4, for any sets of children, senders, listers and      *)
(* waiters: the list of events holds exactly the callers that sleep, once  *)
(* each.                                                                   *)
(***************************************************************************)
EXTENDS Wait4_proofs, FiniteSetTheorems

(***************************************************************************)
(* The inductive invariant.  OtherFields: the types Wait4_proofs leaves.   *)
(* Sleepers: an event is registered once, exactly while its caller is      *)
(* blocked.  Walkers: a trigger owns event_rwlock while it walks the list, *)
(* and what is left of its walk are events nobody has fired.               *)
(***************************************************************************)
OtherFields ==
  /\ mtx \in Waiter \cup Actor \cup {None}
  /\ ev \in Actor \cup {None}
  /\ tab \in Waiter \cup Child \cup {None}
  /\ walker \in [Lister -> Child \cup {None}]
  /\ readers \in [Child -> SUBSET Waiter]
  /\ linked \subseteq Child /\ valid \subseteq Child /\ held \subseteq Child
  /\ sel \in [Waiter -> SUBSET Child] /\ opts \in [Waiter -> Options \cup {{}}]
  /\ todo \in [Waiter -> SUBSET Child]
  /\ signals \in [Sender -> 0 .. SignalMax]
  /\ reapers \in [Child -> Nat]
  /\ rpc \in [Child -> {"none", "unlink", "remove"}]
  /\ panic \in BOOLEAN

Lists == events \in Seq(Waiter) /\ walk \in [Actor -> Seq(Waiter)]

\* No waiter is twice in s, and those in it are blocked.
AllBlocked(s) ==
  /\ \A i \in 1 .. Len(s) : wpc[s[i]] = "blocked"
  /\ \A i \in 1 .. Len(s) : \A j \in 1 .. Len(s) : s[i] = s[j] => i = j

Sleepers ==
  /\ AllBlocked(events)
  /\ \A w \in Waiter : wpc[w] = "blocked" => \E i \in 1 .. Len(events) : events[i] = w

Walkers ==
  \A a \in Actor : cpc[a] \in {"walk", "handle"} =>
    /\ ev = a
    /\ cpc[a] = "handle" => walk[a] # <<>>
    /\ AllBlocked(walk[a])

EInv == IInv /\ OtherFields /\ Lists /\ Sleepers /\ Walkers

-----------------------------------------------------------------------------
(* Sequences                                                               *)

\* What unlinking the event at position i leaves.
Without(s, i) == SubSeq(s, 1, i - 1) \o SubSeq(s, i + 1, Len(s))

LEMMA LeftOut ==
  ASSUME NEW S, NEW s \in Seq(S), NEW i \in 1 .. Len(s), NEW r,
         r = Without(s, i)
  PROVE  /\ r \in Seq(S) /\ Len(r) = Len(s) - 1
         /\ \A j \in 1 .. Len(r) : r[j] = s[IF j < i THEN j ELSE j + 1]
<1>0. Len(s) \in Nat /\ \A j \in 1 .. Len(s) : s[j] \in S
  BY LenProperties, ElementOfSeq
<1> DEFINE p == SubSeq(s, 1, i - 1)
           q == SubSeq(s, i + 1, Len(s))
<1>1. /\ p \in Seq(S) /\ Len(p) = i - 1
      /\ \A j \in 1 .. i - 1 : p[j] = s[j]
  <2>1. 1 \in Int /\ i - 1 \in Int /\ \A j \in 1 .. i - 1 : s[j] \in S
    BY <1>0
  <2>2. /\ p \in Seq(S) /\ Len(p) = IF 1 <= i - 1 THEN i - 1 - 1 + 1 ELSE 0
        /\ \A j \in 1 .. i - 1 - 1 + 1 : p[j] = s[1 + j - 1]
    BY <2>1, SubSeqProperties
  <2> HIDE DEF p
  <2> QED BY <2>2
<1>2. /\ q \in Seq(S) /\ Len(q) = Len(s) - i
      /\ \A j \in 1 .. Len(s) - i : q[j] = s[i + j]
  <2>1. i + 1 \in Int /\ Len(s) \in Int /\ \A j \in i + 1 .. Len(s) : s[j] \in S
    BY <1>0
  <2>2. /\ q \in Seq(S)
        /\ Len(q) = IF i + 1 <= Len(s) THEN Len(s) - (i + 1) + 1 ELSE 0
        /\ \A j \in 1 .. Len(s) - (i + 1) + 1 : q[j] = s[i + 1 + j - 1]
    BY <2>1, SubSeqProperties
  <2> HIDE DEF q
  <2> QED BY <1>0, <2>2
<1> HIDE DEF p, q
<1>3. /\ r \in Seq(S) /\ Len(r) = Len(p) + Len(q)
      /\ \A j \in 1 .. Len(p) + Len(q) :
           r[j] = IF j <= Len(p) THEN p[j] ELSE q[j - Len(p)]
  <2>1. r = p \o q
    BY DEF p, q, Without
  <2>2. p \in Seq(S) /\ q \in Seq(S)
    BY <1>1, <1>2
  <2> QED BY <2>1, <2>2, ConcatProperties
<1>4. r \in Seq(S) /\ Len(r) = Len(s) - 1 /\ Len(s) \in Int /\ i \in Int
  <2>1. Len(s) \in Int /\ i \in Int /\ Len(p) = i - 1 /\ Len(q) = Len(s) - i
    BY <1>0, <1>1, <1>2
  <2>2. r \in Seq(S) /\ Len(r) = Len(p) + Len(q)
    BY <1>3
  <2> QED BY <2>1, <2>2
<1>5. ASSUME NEW j \in 1 .. Len(r) PROVE r[j] = s[IF j < i THEN j ELSE j + 1]
  <2>1. j \in Int /\ i \in Int /\ Len(s) \in Int /\ 1 <= j /\ j <= Len(s) - 1
    BY <1>4
  <2>2. r[j] = IF j <= Len(p) THEN p[j] ELSE q[j - Len(p)]
    BY <1>1, <1>2, <1>3, <1>4
  <2>3. CASE j < i
    BY <1>1, <2>1, <2>2, <2>3
  <2>4. CASE ~(j < i)
    <3>1. r[j] = q[j - (i - 1)]
      BY <1>1, <2>1, <2>2, <2>4
    <3>2. j - (i - 1) \in 1 .. Len(s) - i /\ i + (j - (i - 1)) = j + 1
      BY <2>1, <2>4
    <3>3. q[j - (i - 1)] = s[i + (j - (i - 1))]
      BY <1>2, <3>2
    <3> QED BY <2>4, <3>1, <3>2, <3>3
  <2> QED BY <2>3, <2>4
<1> QED BY <1>4, <1>5

LEMMA Rests ==
  ASSUME NEW S, NEW s \in Seq(S), s # <<>>
  PROVE  /\ Tail(s) \in Seq(S) /\ Len(Tail(s)) = Len(s) - 1 /\ Len(s) \in Nat
         /\ Head(s) = s[1] /\ Len(s) > 0 /\ Head(s) \in S
         /\ \A j \in 1 .. Len(Tail(s)) : Tail(s)[j] = s[j + 1]
BY EmptySeq, HeadTailProperties

LEMMA Pushes ==
  ASSUME NEW S, NEW s \in Seq(S), NEW e \in S
  PROVE  /\ <<e>> \o s \in Seq(S) /\ Len(<<e>> \o s) = Len(s) + 1 /\ Len(s) \in Nat
         /\ \A j \in 1 .. Len(s) + 1 :
              (<<e>> \o s)[j] = IF j = 1 THEN e ELSE s[j - 1]
<1>1. <<e>> \in Seq(S) /\ Len(<<e>>) = 1 /\ <<e>>[1] = e
  OBVIOUS
<1> QED BY <1>1, ConcatProperties, LenProperties

-----------------------------------------------------------------------------
(* The lists of a step                                                     *)

\* Nobody falls asleep or wakes.
SameSleepers == \A w \in Waiter : wpc'[w] = "blocked" <=> wpc[w] = "blocked"

LEMMA Undisturbed ==
  ASSUME EInv, UNCHANGED <<events, walk, ev>>, SameSleepers,
         \A a \in Actor : cpc'[a] \in {"walk", "handle"} =>
           /\ cpc[a] \in {"walk", "handle"}
           /\ cpc'[a] = "handle" => cpc[a] = "handle" \/ walk[a] # <<>>
  PROVE  Lists' /\ Sleepers' /\ Walkers'
<1>0. Lists /\ Sleepers /\ Walkers
  BY DEF EInv
<1>1. ASSUME NEW s \in Seq(Waiter), AllBlocked(s) PROVE AllBlocked(s)'
  <2>1. \A i \in 1 .. Len(s) : s[i] \in Waiter
    BY ElementOfSeq
  <2> QED BY <1>1, <2>1 DEF AllBlocked, SameSleepers
<1>2. Lists'
  BY <1>0 DEF Lists
<1>3. Sleepers'
  <2>1. AllBlocked(events)'
    BY <1>0, <1>1 DEF Sleepers, Lists, AllBlocked
  <2> QED BY <1>0, <2>1 DEF Sleepers, SameSleepers
<1>4. Walkers'
  <2>1. ASSUME NEW a \in Actor, cpc'[a] \in {"walk", "handle"}
        PROVE  /\ ev' = a /\ (cpc'[a] = "handle" => walk'[a] # <<>>)
               /\ AllBlocked(walk[a])'
    <3>1. walk[a] \in Seq(Waiter) /\ AllBlocked(walk[a]) /\ ev = a
          /\ (cpc[a] = "handle" => walk[a] # <<>>)
      BY <1>0, <2>1 DEF Walkers, Lists
    <3>2. PICK s \in Seq(Waiter) : s = walk[a] /\ AllBlocked(s)
      BY <3>1
    <3>3. AllBlocked(walk[a])'
      BY <1>1, <3>2 DEF AllBlocked
    <3> QED BY <2>1, <3>1, <3>3
  <2> QED BY <2>1 DEF Walkers
<1> QED BY <1>2, <1>3, <1>4

\* kvo_event_register: a new event in front.
LEMMA Registers ==
  ASSUME EInv, NEW w \in Waiter, Register(w), ~Answer(w)
  PROVE  Lists' /\ Sleepers' /\ Walkers'
<1>0. /\ Lists /\ Sleepers /\ wpc \in [Waiter -> WaiterPlace]
      /\ wpc[w] = "register" /\ ev = None /\ events' = <<w>> \o events
      /\ wpc' = [wpc EXCEPT ![w] = "blocked"] /\ UNCHANGED <<cpc, walk>>
  BY DEF EInv, IInv, Fields, WaiterPlace, Register, WGoto, actorVars
<1>1. /\ events' \in Seq(Waiter) /\ Len(events') = Len(events) + 1
      /\ Len(events) \in Nat
      /\ \A j \in 1 .. Len(events) + 1 :
           events'[j] = IF j = 1 THEN w ELSE events[j - 1]
  BY <1>0, Pushes DEF Lists
<1>2. /\ \A i \in 1 .. Len(events) : events[i] \in Waiter /\ events[i] # w
      /\ \A i, j \in 1 .. Len(events) : events[i] = events[j] => i = j
      /\ \A i \in 1 .. Len(events) : wpc[events[i]] = "blocked"
  BY <1>0, ElementOfSeq DEF Lists, Sleepers, AllBlocked
<1>3. Lists'
  BY <1>0, <1>1 DEF Lists
<1>4. ASSUME NEW i \in 1 .. Len(events) + 1 PROVE wpc'[events'[i]] = "blocked"
  <2>1. CASE i = 1
    BY <1>0, <1>1, <2>1
  <2>2. CASE i # 1
    <3>1. i - 1 \in 1 .. Len(events)
      BY <1>1, <2>2
    <3> QED BY <1>0, <1>1, <1>2, <2>2, <3>1
  <2> QED BY <2>1, <2>2
<1>5. ASSUME NEW i \in 1 .. Len(events) + 1, NEW j \in 1 .. Len(events) + 1,
             events'[i] = events'[j]
      PROVE  i = j
  <2>1. /\ i # 1 => i - 1 \in 1 .. Len(events) /\ events'[i] = events[i - 1]
        /\ j # 1 => j - 1 \in 1 .. Len(events) /\ events'[j] = events[j - 1]
    BY <1>1
  <2>2. (i = 1 => events'[i] = w) /\ (j = 1 => events'[j] = w)
    BY <1>1
  <2>3. CASE i = 1 \/ j = 1
    BY <1>2, <1>5, <2>1, <2>2, <2>3
  <2>4. CASE i # 1 /\ j # 1
    <3>1. i - 1 = j - 1
      BY <1>2, <1>5, <2>1, <2>4
    <3> QED BY <1>1, <3>1
  <2> QED BY <2>3, <2>4
<1>6. ASSUME NEW v \in Waiter, wpc'[v] = "blocked"
      PROVE  \E i \in 1 .. Len(events) + 1 : events'[i] = v
  <2>1. CASE v = w
    <3>1. 1 \in 1 .. Len(events) + 1 /\ events'[1] = w
      BY <1>1
    <3> QED BY <2>1, <3>1
  <2>2. CASE v # w
    <3>1. PICK i \in 1 .. Len(events) : events[i] = v
      BY <1>0, <1>6, <2>2 DEF Sleepers
    <3>2. i + 1 \in 1 .. Len(events) + 1 /\ events'[i + 1] = events[i]
      BY <1>1
    <3> QED BY <3>1, <3>2
  <2> QED BY <2>1, <2>2
<1>7. Sleepers'
  BY <1>1, <1>4, <1>5, <1>6 DEF Sleepers, AllBlocked
<1>8. Walkers'
  <2>1. \A a \in Actor : cpc[a] \notin {"walk", "handle"}
    BY <1>0, Wait4Assumption DEF EInv, Walkers, Actor
  <2> QED BY <1>0, <2>1 DEF Walkers
<1> QED BY <1>3, <1>7, <1>8

\* The handler answers the first event left of its walk and unlinks it.
LEMMA Fires ==
  ASSUME EInv, NEW a \in Actor, cpc[a] = "handle", CGoto(a, "walk"),
         NEW w, w = Head(walk[a]), Fire(w), UNCHANGED ev,
         walk' = [walk EXCEPT ![a] = Tail(@)]
  PROVE  Lists' /\ Sleepers' /\ Walkers'
<1>0. /\ Lists /\ Sleepers /\ wpc \in [Waiter -> WaiterPlace]
      /\ wpc' = [wpc EXCEPT ![w] = "user"]
      /\ ev = a /\ walk[a] # <<>> /\ AllBlocked(walk[a])
      /\ events \in Seq(Waiter) /\ walk[a] \in Seq(Waiter)
  BY DEF EInv, IInv, Fields, WaiterPlace, Fire, Answer, Walkers, Lists
<1>1. PICK i \in 1 .. Len(events) :
        /\ events[i] = w
        /\ events' = SubSeq(events, 1, i - 1) \o SubSeq(events, i + 1, Len(events))
  BY <1>0, LenProperties DEF Fire
<1>2. /\ events' \in Seq(Waiter) /\ Len(events') = Len(events) - 1
      /\ \A j \in 1 .. Len(events') : events'[j] = events[IF j < i THEN j ELSE j + 1]
      /\ Len(events) \in Nat
  <2>1. PICK s \in Seq(Waiter) : s = events
    BY <1>0
  <2>2. PICK r : r = events'
    OBVIOUS
  <2>3. i \in 1 .. Len(s) /\ r = Without(s, i)
    BY <1>1, <2>1, <2>2 DEF Without
  <2>4. /\ r \in Seq(Waiter) /\ Len(r) = Len(s) - 1
        /\ \A j \in 1 .. Len(r) : r[j] = s[IF j < i THEN j ELSE j + 1]
    BY <2>3, LeftOut
  <2>5. Len(s) \in Nat
    BY LenProperties
  <2> QED BY <2>1, <2>2, <2>4, <2>5
<1>3. /\ Tail(walk[a]) \in Seq(Waiter) /\ Len(Tail(walk[a])) = Len(walk[a]) - 1
      /\ Len(walk[a]) \in Nat /\ w = walk[a][1] /\ w \in Waiter
      /\ \A j \in 1 .. Len(Tail(walk[a])) : Tail(walk[a])[j] = walk[a][j + 1]
      /\ Len(walk[a]) > 0
  BY <1>0, Rests
<1>4. /\ \A j \in 1 .. Len(events) : events[j] \in Waiter /\ wpc[events[j]] = "blocked"
      /\ \A j, k \in 1 .. Len(events) : events[j] = events[k] => j = k
  BY <1>0, ElementOfSeq DEF Sleepers, AllBlocked
<1>5. Lists'
  BY <1>2, <1>3 DEF EInv, Lists
<1>6. ASSUME NEW j \in 1 .. Len(events')
      PROVE  wpc'[events'[j]] = "blocked"
  <2>1. PICK k \in 1 .. Len(events) : k = (IF j < i THEN j ELSE j + 1) /\ k # i
    BY <1>2
  <2>2. events'[j] = events[k] /\ events[k] # w
    BY <1>1, <1>2, <1>4, <2>1
  <2> QED BY <1>0, <1>4, <2>2
<1>7. ASSUME NEW j \in 1 .. Len(events'), NEW k \in 1 .. Len(events'),
             events'[j] = events'[k]
      PROVE  j = k
  <2>1. PICK m \in 1 .. Len(events) : m = IF j < i THEN j ELSE j + 1
    BY <1>2
  <2>2. PICK n \in 1 .. Len(events) : n = IF k < i THEN k ELSE k + 1
    BY <1>2
  <2>3. m = n
    BY <1>2, <1>4, <1>7, <2>1, <2>2
  <2> QED BY <1>2, <2>1, <2>2, <2>3
<1>8. ASSUME NEW v \in Waiter, wpc'[v] = "blocked"
      PROVE  \E j \in 1 .. Len(events') : events'[j] = v
  <2>1. v # w /\ wpc[v] = "blocked"
    BY <1>0, <1>8
  <2>2. PICK k \in 1 .. Len(events) : events[k] = v
    BY <1>0, <2>1 DEF Sleepers
  <2>3. k # i
    BY <1>1, <2>1, <2>2
  <2>4. PICK j \in 1 .. Len(events') : k = IF j < i THEN j ELSE j + 1
    <3>1. CASE k < i
      BY <1>2, <2>3, <3>1
    <3>2. CASE ~(k < i)
      <4>1. k - 1 \in 1 .. Len(events') /\ ~(k - 1 < i) /\ k = k - 1 + 1
        BY <1>2, <2>3, <3>2
      <4> QED BY <4>1
    <3> QED BY <3>1, <3>2
  <2> QED BY <1>2, <2>2, <2>4
<1>9. Sleepers'
  BY <1>6, <1>7, <1>8 DEF Sleepers, AllBlocked
<1>10. AllBlocked(walk[a])'
  <2>0. PICK s, r : s = walk[a] /\ r = Tail(walk[a])
    OBVIOUS
  <2>1. /\ \A j \in 1 .. Len(s) : s[j] \in Waiter /\ wpc[s[j]] = "blocked"
        /\ \A j, k \in 1 .. Len(s) : s[j] = s[k] => j = k
    BY <1>0, <2>0, ElementOfSeq DEF AllBlocked
  <2>2. /\ Len(r) = Len(s) - 1 /\ Len(s) \in Nat /\ Len(s) > 0 /\ w = s[1]
        /\ \A j \in 1 .. Len(r) : r[j] = s[j + 1]
    BY <1>3, <2>0
  <2>3. walk'[a] = r
    BY <2>0 DEF EInv, Lists
  <2>4. ASSUME NEW j \in 1 .. Len(r)
        PROVE  r[j] \in Waiter /\ r[j] # w /\ wpc[r[j]] = "blocked"
    BY <2>1, <2>2
  <2>5. ASSUME NEW j \in 1 .. Len(r), NEW k \in 1 .. Len(r), r[j] = r[k]
        PROVE  j = k
    BY <2>1, <2>2, <2>5
  <2>6. \A j \in 1 .. Len(r) : wpc'[r[j]] = "blocked"
    BY <1>0, <2>4
  <2>7. \A j \in 1 .. Len(r) : \A k \in 1 .. Len(r) : r[j] = r[k] => j = k
    BY <2>5
  <2>8. \A j \in 1 .. Len(walk'[a]) : wpc'[walk'[a][j]] = "blocked"
    BY <2>3, <2>6
  <2>9. ASSUME NEW j \in 1 .. Len(walk'[a]), NEW k \in 1 .. Len(walk'[a]),
               walk'[a][j] = walk'[a][k]
        PROVE  j = k
    <3>1. j \in 1 .. Len(r) /\ k \in 1 .. Len(r) /\ r[j] = r[k]
      BY <2>3, <2>9
    <3> QED BY <2>7, <3>1
  <2> QED BY <2>8, <2>9 DEF AllBlocked
<1>11. Walkers'
  <2>1. \A b \in Actor : cpc'[b] \in {"walk", "handle"} => b = a
    BY <1>0 DEF EInv, Walkers, CGoto, IInv, Fields
  <2>2. cpc'[a] # "handle" /\ ev' = a
    BY <1>0 DEF EInv, IInv, Fields, CGoto
  <2>3. \A b \in Actor : b = a => AllBlocked(walk[b])'
    BY <1>10
  <2> QED BY <2>1, <2>2, <2>3 DEF Walkers
<1> QED BY <1>5, <1>9, <1>11

\* The handler passes over the first event left of its walk.
LEMMA Skips ==
  ASSUME EInv, NEW a \in Actor, cpc[a] = "handle", CGoto(a, "walk"),
         UNCHANGED <<events, wpc, ev>>,
         walk' = [walk EXCEPT ![a] = Tail(@)]
  PROVE  Lists' /\ Sleepers' /\ Walkers'
<1>0. /\ Lists /\ Sleepers /\ ev = a /\ walk[a] # <<>> /\ AllBlocked(walk[a])
      /\ walk[a] \in Seq(Waiter)
  BY DEF EInv, Walkers, Lists
<1>1. PICK s, r : s = walk[a] /\ r = Tail(walk[a])
  OBVIOUS
<1>2. /\ r \in Seq(Waiter) /\ Len(r) = Len(s) - 1 /\ Len(s) \in Nat
      /\ \A j \in 1 .. Len(r) : r[j] = s[j + 1]
  BY <1>0, <1>1, Rests
<1>3. walk'[a] = r
  BY <1>1 DEF EInv, Lists
<1>4. Lists'
  BY <1>1, <1>2 DEF EInv, Lists
<1>5. Sleepers'
  BY <1>0 DEF Sleepers, AllBlocked
<1>6. AllBlocked(walk[a])'
  <2>1. /\ \A j \in 1 .. Len(s) : wpc[s[j]] = "blocked"
        /\ \A j \in 1 .. Len(s) : \A k \in 1 .. Len(s) : s[j] = s[k] => j = k
    BY <1>0, <1>1 DEF AllBlocked
  <2>2. \A j \in 1 .. Len(r) : wpc'[r[j]] = "blocked"
    BY <1>2, <2>1
  <2>3. \A j \in 1 .. Len(r) : \A k \in 1 .. Len(r) : r[j] = r[k] => j = k
    BY <1>2, <2>1
  <2>4. \A j \in 1 .. Len(walk'[a]) : wpc'[walk'[a][j]] = "blocked"
    BY <1>3, <2>2
  <2>5. ASSUME NEW j \in 1 .. Len(walk'[a]), NEW k \in 1 .. Len(walk'[a]),
               walk'[a][j] = walk'[a][k]
        PROVE  j = k
    <3>1. j \in 1 .. Len(r) /\ k \in 1 .. Len(r) /\ r[j] = r[k]
      BY <1>3, <2>5
    <3> QED BY <2>3, <3>1
  <2> QED BY <2>4, <2>5 DEF AllBlocked
<1>7. Walkers'
  <2>1. \A b \in Actor : cpc'[b] \in {"walk", "handle"} => b = a
    BY <1>0 DEF EInv, Walkers, CGoto, IInv, Fields
  <2>2. cpc'[a] # "handle" /\ ev' = a
    BY <1>0 DEF EInv, IInv, Fields, CGoto
  <2>3. \A b \in Actor : b = a => AllBlocked(walk[b])'
    BY <1>6
  <2> QED BY <2>1, <2>2, <2>3 DEF Walkers
<1> QED BY <1>4, <1>5, <1>7

\* A trigger takes event_rwlock and starts at the head of the list.
LEMMA Triggers ==
  ASSUME EInv, NEW a \in Actor, Trigger(a)
  PROVE  Lists' /\ Sleepers' /\ Walkers'
<1>0. /\ Lists /\ Sleepers /\ ev = None /\ ev' = a
      /\ walk' = [walk EXCEPT ![a] = events] /\ UNCHANGED <<events, wpc>>
      /\ cpc' = [cpc EXCEPT ![a] = "walk"]
  BY DEF EInv, Trigger, CGoto, waitVars
<1>1. Lists'
  BY <1>0 DEF Lists
<1>2. Sleepers'
  BY <1>0 DEF Sleepers, AllBlocked
<1>3. walk'[a] = events
  BY <1>0 DEF Lists
<1>4. AllBlocked(walk[a])'
  <2>1. AllBlocked(events)
    BY <1>0 DEF Sleepers
  <2>2. \A j \in 1 .. Len(walk'[a]) : wpc'[walk'[a][j]] = "blocked"
    BY <1>0, <1>3, <2>1 DEF AllBlocked
  <2>3. ASSUME NEW j \in 1 .. Len(walk'[a]), NEW k \in 1 .. Len(walk'[a]),
               walk'[a][j] = walk'[a][k]
        PROVE  j = k
    <3>1. j \in 1 .. Len(events) /\ k \in 1 .. Len(events) /\ events[j] = events[k]
      BY <1>3, <2>3
    <3> QED BY <2>1, <3>1 DEF AllBlocked
  <2> QED BY <2>2, <2>3 DEF AllBlocked
<1>5. Walkers'
  <2>1. \A b \in Actor : cpc[b] \notin {"walk", "handle"}
    BY <1>0, Wait4Assumption DEF EInv, Walkers, Actor
  <2>2. /\ cpc'[a] # "handle" /\ ev' = a
        /\ \A b \in Actor : cpc'[b] \in {"walk", "handle"} => b = a
    BY <1>0, <2>1 DEF EInv, IInv, Fields
  <2>3. \A b \in Actor : b = a => AllBlocked(walk[b])'
    BY <1>4
  <2> QED BY <2>2, <2>3 DEF Walkers
<1> QED BY <1>1, <1>2, <1>5

\* ... and gives the lock back at its end.
LEMMA TriggerEnds ==
  ASSUME EInv, NEW a \in Actor, TriggerEnd(a)
  PROVE  Lists' /\ Sleepers' /\ Walkers'
<1>0. Lists /\ Sleepers /\ ev = a /\ UNCHANGED <<events, wpc, walk>>
  BY DEF EInv, TriggerEnd, Walkers, waitVars
<1>1. PICK l \in {"idle", "mark", "done"} : cpc' = [cpc EXCEPT ![a] = l]
  <2>1. a \in Sender \/ a \in Child \ zombie \/ a \in zombie
    BY DEF Actor
  <2>2. /\ a \in Sender => a \notin Child /\ a \notin zombie
        /\ zombie \subseteq Child
    BY Wait4Assumption DEF EInv, IInv, Fields
  <2>3. CASE a \in Sender
    BY <2>2, <2>3 DEF TriggerEnd, CGoto
  <2>4. CASE a \in Child \ zombie
    BY <2>2, <2>4 DEF TriggerEnd, CGoto
  <2>5. CASE a \in zombie
    BY <2>2, <2>5 DEF TriggerEnd, CGoto
  <2> QED BY <2>1, <2>3, <2>4, <2>5
<1>2. \A b \in Actor : cpc'[b] \notin {"walk", "handle"}
  <2>1. \A b \in Actor : cpc[b] \in {"walk", "handle"} => b = a
    BY <1>0 DEF EInv, Walkers
  <2> QED BY <1>1, <2>1 DEF EInv, IInv, Fields
<1>3. Lists' /\ Walkers'
  BY <1>0, <1>2 DEF Lists, Walkers
<1>4. Sleepers'
  BY <1>0 DEF Sleepers, AllBlocked
<1> QED BY <1>3, <1>4

-----------------------------------------------------------------------------
(* The types                                                               *)

LEMMA AnswerTypes ==
  ASSUME OtherFields, NEW w, Answer(w)
  PROVE  /\ sel' \in [Waiter -> SUBSET Child]
         /\ opts' \in [Waiter -> Options \cup {{}}]
         /\ todo' \in [Waiter -> SUBSET Child]
BY DEF OtherFields, Answer

LEMMA WaiterTypes ==
  ASSUME IInv, OtherFields, NEW w \in Waiter, Call(w) \/ WaiterStep(w)
  PROVE  OtherFields'
<1> USE DEF OtherFields, actorVars, childVars, reapVars
<1>1. CASE Call(w)
  <2>1. PICK s \in SUBSET Child, o \in Options :
          /\ sel' = [sel EXCEPT ![w] = s] /\ opts' = [opts EXCEPT ![w] = o]
          /\ todo' = [todo EXCEPT ![w] = linked \cap s]
    <3>1. Selectors \subseteq SUBSET Child
      BY DEF Selectors
    <3>2. PICK s \in Selectors, o \in Options :
            /\ sel' = [sel EXCEPT ![w] = s] /\ opts' = [opts EXCEPT ![w] = o]
            /\ todo' = [todo EXCEPT ![w] = linked \cap s]
      BY <1>1 DEF Call
    <3> QED BY <3>1, <3>2
  <2>2. /\ sel' \in [Waiter -> SUBSET Child]
        /\ opts' \in [Waiter -> Options \cup {{}}]
        /\ todo' \in [Waiter -> SUBSET Child]
    BY <2>1
  <2> QED BY <1>1, <2>2 DEF Call
<1>2. CASE ScanEnd(w)
  BY <1>2, AnswerTypes DEF ScanEnd
<1>3. CASE Register(w)
  BY <1>3, AnswerTypes DEF Register
<1>4. CASE WaiterReaps(w)
  <2>1. busy[w] \in Child \cup {None}
    BY DEF IInv, Fields
  <2>2. /\ tab' \in {tab, w, None} /\ linked' \subseteq linked
        /\ valid' \subseteq valid
        /\ UNCHANGED <<mtx, ev, walker, readers, held, sel, opts, todo, signals, reapers,
                       rpc, panic>>
    BY <1>4 DEF WaiterReaps, ReapBegin, ReapRefused, ReapUnlink, ReapRemove
  <2> QED BY <2>2
<1>5. CASE ReapReport(w)
  <2>1. readers' \in [Child -> SUBSET Waiter]
    BY <1>5 DEF ReapReport
  <2> QED BY <1>5, <2>1, AnswerTypes DEF ReapReport
<1>6. CASE ScanChild(w)
  <2>1. \/ UNCHANGED <<mtx, readers, sel, opts, todo>>
        \/ mtx' = None /\ Answer(w) /\ UNCHANGED readers
        \/ /\ readers' = [readers EXCEPT ![busy[w]] = @ \cup {w}]
           /\ mtx' = None
           /\ UNCHANGED <<sel, opts, todo>>
    BY <1>6 DEF ScanChild
  <2>2. /\ mtx' \in {mtx, None} /\ readers' \in [Child -> SUBSET Waiter]
        /\ sel' \in [Waiter -> SUBSET Child]
        /\ opts' \in [Waiter -> Options \cup {{}}]
        /\ todo' \in [Waiter -> SUBSET Child]
    <3>1. CASE UNCHANGED <<mtx, readers, sel, opts, todo>>
      BY <3>1
    <3>2. CASE mtx' = None /\ Answer(w) /\ UNCHANGED readers
      BY <3>2, AnswerTypes
    <3>3. CASE /\ readers' = [readers EXCEPT ![busy[w]] = @ \cup {w}]
               /\ mtx' = None /\ UNCHANGED <<sel, opts, todo>>
      BY <3>3
    <3> QED BY <2>1, <3>1, <3>2, <3>3
  <2> QED BY <1>6, <2>2 DEF ScanChild
<1>7. CASE ScanNext(w) \/ Prepare(w)
  <2>1. todo' \in [Waiter -> SUBSET Child]
    BY <1>7 DEF ScanNext, Prepare
  <2> QED BY <1>7, <2>1 DEF ScanNext, Prepare, lockVars
<1> QED BY <1>1, <1>2, <1>3, <1>4, <1>5, <1>6, <1>7 DEF WaiterStep

LEMMA ActorTypes ==
  ASSUME IInv, OtherFields, NEW a \in Actor, ActorStep(a)
  PROVE  OtherFields'
<1> USE DEF OtherFields
<1>1. CASE FindParent(a) \/ NoParent(a)
  BY <1>1 DEF FindParent, NoParent, lockVars, childVars, waitVars, reapVars
<1>2. CASE StateChange(a)
  BY <1>2 DEF StateChange, lockVars, waitVars, reapVars
<1>3. CASE Trigger(a)
  BY <1>3 DEF Trigger, childVars, waitVars, reapVars
<1>4. CASE HandlerLock(a)
  BY <1>4 DEF HandlerLock, childVars, waitVars, reapVars
<1>5. CASE Handle(a)
  <2>1. /\ sel' \in [Waiter -> SUBSET Child]
        /\ opts' \in [Waiter -> Options \cup {{}}]
        /\ todo' \in [Waiter -> SUBSET Child]
    <3>1. UNCHANGED waitVars \/ \E w : Answer(w)
      BY <1>5 DEF Handle, Fire
    <3> QED BY <3>1, AnswerTypes DEF waitVars
  <2>2. /\ reapers' \in [Child -> Nat] /\ panic' \in BOOLEAN
    <3>1. \/ UNCHANGED <<reapers, panic>>
          \/ \E c : reapers' = [reapers EXCEPT ![c] = @ + 1] /\ UNCHANGED panic
          \/ panic' = TRUE /\ UNCHANGED reapers
      BY <1>5 DEF Handle
    <3>2. panic' \in BOOLEAN
      BY <3>1
    <3>3. ASSUME NEW c, reapers' = [reapers EXCEPT ![c] = @ + 1]
          PROVE  reapers' \in [Child -> Nat]
      <4>1. reapers \in [Child -> Nat]
        OBVIOUS
      <4>2. ASSUME NEW d \in Child PROVE reapers'[d] \in Nat
        <5>1. reapers[d] \in Nat
          BY <4>1
        <5>2. reapers'[d] = IF d = c THEN reapers[d] + 1 ELSE reapers[d]
          BY <3>3, <4>1
        <5> QED BY <5>1, <5>2
      <4>3. reapers' = [d \in Child |-> reapers'[d]]
        BY <3>3, <4>1
      <4> HIDE DEF OtherFields
      <4> QED BY <4>2, <4>3
    <3> QED BY <3>1, <3>2, <3>3
  <2> QED BY <1>5, <2>1, <2>2 DEF Handle
<1>6. CASE TriggerEnd(a)
  BY <1>6 DEF TriggerEnd, childVars, waitVars, reapVars
<1>7. CASE Send(a) \/ Enqueue(a) \/ Write(a)
  <2>1. panic' \in BOOLEAN
    BY <1>7 DEF Send, Enqueue, Write, ReadsProc
  <2> QED BY <1>7, <2>1 DEF Send, Enqueue, Write, lockVars, childVars, waitVars, reapVars
<1>8. CASE Mark(a)
  BY <1>8 DEF Mark, lockVars, waitVars, reapVars
<1> QED BY <1>1, <1>2, <1>3, <1>4, <1>5, <1>6, <1>7, <1>8 DEF ActorStep

\* What begins, and what neither waiters nor actors do.
OtherStep ==
  \/ \E c \in Child : Exit(c) \/ ReaperReaps(c)
  \/ \E a \in Sender : Signal(a) \/ Setpgid(a)
  \/ \E l \in Lister : List(l) \/ ListEnd(l)

\* A sender's call is a signal or setpgid.
LEMMA CallBegins ==
  ASSUME NEW a \in Sender, Signal(a) \/ Setpgid(a)
  PROVE  \E c \in Child, k \in {"stopped", "continued", "pgid"} :
           /\ Calls(a, c, k)
           /\ CGoto(a, IF k = "pgid" THEN "lock" ELSE "send")
<1>1. CASE Signal(a)
  BY <1>1 DEF Signal
<1>2. CASE Setpgid(a)
  BY <1>2 DEF Setpgid
<1> QED BY <1>1, <1>2

LEMMA OtherTypes ==
  ASSUME IInv, OtherFields, OtherStep
  PROVE  OtherFields'
<1> USE DEF OtherFields
<1>1. ASSUME NEW c \in Child, Exit(c) PROVE OtherFields'
  BY <1>1 DEF Exit, lockVars, waitVars, reapVars
<1>2. ASSUME NEW c \in Child, ReaperReaps(c) PROVE OtherFields'
  <2>1. /\ tab' \in {tab, c, None} /\ linked' \subseteq linked
        /\ valid' \subseteq valid
        /\ UNCHANGED <<mtx, ev, walker, readers, held, sel, opts, todo, signals, panic>>
    BY <1>2 DEF ReaperReaps, ReapBegin, ReapRefused, ReapUnlink, ReapRemove,
                waitVars, actorVars
  <2>2. reapers' \in [Child -> Nat]
    BY <1>2 DEF ReaperReaps, ReaperStarts
  <2>3. rpc' \in [Child -> {"none", "unlink", "remove"}]
    BY <1>2 DEF ReaperReaps
  <2> QED BY <2>1, <2>2, <2>3
<1>3. ASSUME NEW a \in Sender, Signal(a) \/ Setpgid(a) PROVE OtherFields'
  <2>0. PICK c, k : Calls(a, c, k)
    BY <1>3, CallBegins
  <2>1. signals' \in [Sender -> 0 .. SignalMax]
    BY <2>0, Wait4Assumption DEF Calls
  <2> QED BY <2>0, <2>1 DEF Calls, lockVars, childVars, waitVars, reapVars
<1>4. ASSUME NEW l \in Lister, List(l) \/ ListEnd(l) PROVE OtherFields'
  <2>1. walker' \in [Lister -> Child \cup {None}]
    BY <1>4 DEF List, ListEnd
  <2>2. UNCHANGED <<mtx, ev, tab, readers, childVars, events, waitVars, actorVars,
                    reapVars, hist, panic>>
    BY <1>4 DEF List, ListEnd
  <2> QED BY <2>1, <2>2 DEF childVars, waitVars, actorVars, reapVars
<1> QED BY <1>1, <1>2, <1>3, <1>4 DEF OtherStep

-----------------------------------------------------------------------------
(* The invariant                                                           *)

LEMMA EventsStart == Init => EInv
<1> SUFFICES ASSUME Init PROVE EInv
  OBVIOUS
<1>1. IInv
  BY Start
<1>2. OtherFields
  <2>1. /\ mtx = None /\ ev = None /\ tab = None
        /\ linked \subseteq Child /\ valid \subseteq Child /\ held \subseteq Child
        /\ panic \in BOOLEAN
    BY DEF Init
  <2>2. /\ readers \in [Child -> SUBSET Waiter]
        /\ walker \in [Lister -> Child \cup {None}]
        /\ reapers \in [Child -> Nat]
        /\ rpc \in [Child -> {"none", "unlink", "remove"}]
    BY DEF Init
  <2>3. /\ sel \in [Waiter -> SUBSET Child]
        /\ todo \in [Waiter -> SUBSET Child]
    BY DEF Init
  <2>4. opts \in [Waiter -> Options \cup {{}}]
    BY DEF Init
  <2>5. signals \in [Sender -> 0 .. SignalMax]
    BY Wait4Assumption DEF Init
  <2> QED BY <2>1, <2>2, <2>3, <2>4, <2>5 DEF OtherFields
<1>3. Lists
  BY DEF Init, Lists
<1>4. events = <<>> /\ \A w \in Waiter : wpc[w] = "user"
  BY DEF Init
<1>5. Sleepers
  BY <1>4 DEF Sleepers, AllBlocked
<1>6. Walkers
  BY DEF Init, Walkers
<1> QED BY <1>1, <1>2, <1>3, <1>5, <1>6 DEF EInv

LEMMA WaiterLists ==
  ASSUME EInv, NEW w \in Waiter, Call(w) \/ WaiterStep(w)
  PROVE  Lists' /\ Sleepers' /\ Walkers'
<1>0. wpc \in [Waiter -> WaiterPlace]
  BY DEF EInv, IInv, Fields
<1>1. CASE Register(w) /\ ~Answer(w)
  BY <1>1, Registers
<1>2. CASE ~(Register(w) /\ ~Answer(w))
  <2>1. UNCHANGED <<events, walk, ev, cpc>>
    <3>1. CASE \/ Call(w) \/ ScanNext(w) \/ ScanChild(w) \/ ScanEnd(w)
               \/ Prepare(w) \/ WaiterReaps(w) \/ ReapReport(w)
      BY <3>1 DEF Call, ScanNext, ScanChild, ScanEnd, Prepare, WaiterReaps,
                  ReapReport, lockVars, actorVars
    <3>2. CASE Register(w)
      <4>1. Answer(w)
        BY <1>2, <3>2
      <4>2. wpc'[w] = "user"
        BY <1>0, <4>1 DEF Answer
      <4>3. ~WGoto(w, "blocked")
        BY <1>0, <4>2 DEF WGoto
      <4> QED BY <3>2, <4>3 DEF Register, actorVars
    <3> QED BY <3>1, <3>2 DEF WaiterStep
  <2>2. wpc[w] # "blocked"
    BY DEF Call, WaiterStep, ScanNext, ScanChild, ScanEnd, Prepare, Register,
           WaiterReaps, ReapReport
  <2>3. wpc' = wpc \/ \E l : l # "blocked" /\ wpc' = [wpc EXCEPT ![w] = l]
    <3>1. CASE Call(w)
      BY <3>1 DEF Call, WGoto
    <3>2. CASE ScanChild(w)
      BY <3>2 DEF ScanChild, Answer, WGoto
    <3>3. CASE ScanEnd(w) \/ ReapReport(w)
      BY <3>3 DEF ScanEnd, ReapReport, Answer
    <3>4. CASE Register(w)
      BY <1>2, <3>4 DEF Register, Answer
    <3>5. CASE WaiterReaps(w)
      BY <3>5 DEF WaiterReaps, WGoto
    <3>6. CASE ScanNext(w) \/ Prepare(w)
      BY <3>6 DEF ScanNext, Prepare, WGoto
    <3> QED BY <3>1, <3>2, <3>3, <3>4, <3>5, <3>6 DEF WaiterStep
  <2>4. SameSleepers
    BY <1>0, <2>2, <2>3 DEF SameSleepers
  <2> QED BY <2>1, <2>4, Undisturbed DEF EInv, Walkers
<1> QED BY <1>1, <1>2

LEMMA ActorLists ==
  ASSUME EInv, NEW a \in Actor, ActorStep(a)
  PROVE  Lists' /\ Sleepers' /\ Walkers'
<1>0. cpc \in [Actor -> ActorPlace]
  BY DEF EInv, IInv, Fields
<1>1. CASE \/ FindParent(a) \/ NoParent(a) \/ StateChange(a) \/ Mark(a)
           \/ Send(a) \/ Enqueue(a) \/ Write(a)
  <2>1. UNCHANGED <<events, walk, ev, wpc>>
    BY <1>1 DEF FindParent, NoParent, StateChange, Mark, Send, Enqueue, Write,
                lockVars, waitVars
  <2>2. UNCHANGED cpc \/ \E l : l \notin {"walk", "handle"} /\ CGoto(a, l)
    BY <1>1 DEF FindParent, NoParent, StateChange, Mark, Send, Enqueue, Write,
                ReadsProc
  <2>3. \A b \in Actor : cpc'[b] \in {"walk", "handle"} => cpc[b] = cpc'[b]
    BY <1>0, <2>2 DEF CGoto
  <2> QED BY <2>1, <2>3, Undisturbed DEF SameSleepers
<1>2. CASE HandlerLock(a)
  <2>1. /\ cpc[a] = "walk" /\ walk[a] # <<>> /\ CGoto(a, "handle")
        /\ UNCHANGED <<events, walk, ev, wpc>>
    BY <1>2 DEF HandlerLock, waitVars
  <2>2. \A b \in Actor : cpc'[b] \in {"walk", "handle"} =>
          /\ cpc[b] \in {"walk", "handle"}
          /\ cpc'[b] = "handle" => cpc[b] = "handle" \/ walk[b] # <<>>
    BY <1>0, <2>1 DEF CGoto
  <2> QED BY <2>1, <2>2, Undisturbed DEF SameSleepers
<1>3. CASE Handle(a)
  <2>1. /\ cpc[a] = "handle" /\ CGoto(a, "walk") /\ UNCHANGED ev
        /\ walk' = [walk EXCEPT ![a] = Tail(@)]
    BY <1>3 DEF Handle
  <2>2. CASE Fire(Head(walk[a]))
    BY <2>1, <2>2, Fires
  <2>3. CASE UNCHANGED <<events, waitVars>>
    BY <2>1, <2>3, Skips DEF waitVars
  <2> QED BY <1>3, <2>2, <2>3 DEF Handle
<1>4. CASE Trigger(a) \/ TriggerEnd(a)
  BY <1>4, Triggers, TriggerEnds
<1> QED BY <1>1, <1>2, <1>3, <1>4 DEF ActorStep

LEMMA OtherLists ==
  ASSUME EInv, OtherStep \/ UNCHANGED vars
  PROVE  Lists' /\ Sleepers' /\ Walkers'
<1>1. UNCHANGED <<events, walk, ev, wpc>>
  BY CallBegins DEF OtherStep, Exit, ReaperReaps, Calls, List, ListEnd, vars,
     lockVars, waitVars, actorVars
<1>2. UNCHANGED cpc \/ \E a : \E l : l \notin {"walk", "handle"} /\ CGoto(a, l)
  BY CallBegins DEF OtherStep, Exit, ReaperReaps, List, ListEnd, vars, actorVars
<1>3. \A b \in Actor : cpc'[b] \in {"walk", "handle"} => cpc[b] = cpc'[b]
  BY <1>2 DEF CGoto, EInv, IInv, Fields
<1> QED BY <1>1, <1>3, Undisturbed DEF SameSleepers

LEMMA EventsStep == EInv /\ [Next]_vars => EInv'
<1> SUFFICES ASSUME EInv, [Next]_vars PROVE EInv'
  OBVIOUS
<1>0. IInv' /\ IInv /\ OtherFields
  BY Inductive DEF EInv
<1>1. ASSUME NEW w \in Waiter, Call(w) \/ WaiterStep(w) PROVE EInv'
  BY <1>0, <1>1, WaiterTypes, WaiterLists DEF EInv
<1>2. ASSUME NEW a \in Actor, ActorStep(a) PROVE EInv'
  BY <1>0, <1>2, ActorTypes, ActorLists DEF EInv
<1>3. CASE OtherStep
  BY <1>0, <1>3, OtherTypes, OtherLists DEF EInv
<1>4. CASE UNCHANGED vars
  <2>1. OtherFields'
    BY <1>0, <1>4 DEF OtherFields, vars, lockVars, childVars, waitVars, actorVars, reapVars
  <2> QED BY <1>0, <1>4, <2>1, OtherLists DEF EInv
<1> QED BY <1>1, <1>2, <1>3, <1>4 DEF Next, Rest, OtherStep

\* The list and the walks agree with who sleeps, in every state.
THEOREM EventsInvariance == Spec => []EInv
<1> QED BY EventsStart, EventsStep, PTL DEF Spec

\* Wait4's variables have their types.
THEOREM Typing == Spec => []TypeOK
<1>1. EInv => TypeOK
  BY DEF EInv, IInv, Fields, OtherFields, Lists, TypeOK
<1> QED BY <1>1, EventsInvariance, PTL

\* An event belongs to a caller that sleeps, and each sleeper has one: for any
\* number of waiters, registrations and triggers, unlinking under event_rwlock
\* (event.c:129-155) leaves no payload to be used twice and no sleeper without
\* an event.
THEOREM EventsSleep == Spec => []EventsAreSleepers
<1>1. EInv => EventsAreSleepers
  <2> SUFFICES ASSUME Lists, Sleepers, NEW w \in Waiter
               PROVE  Cardinality({i \in DOMAIN events : events[i] = w}) =
                        IF wpc[w] = "blocked" THEN 1 ELSE 0
    BY DEF EInv, EventsAreSleepers
  <2>0. DOMAIN events = 1 .. Len(events)
    BY LenProperties DEF Lists
  <2>1. CASE wpc[w] = "blocked"
    <3>1. PICK i \in 1 .. Len(events) : events[i] = w
      BY <2>1 DEF Sleepers
    <3>2. {j \in DOMAIN events : events[j] = w} = {i}
      BY <2>0, <3>1 DEF Sleepers, AllBlocked
    <3> QED BY <2>1, <3>2, FS_Singleton
  <2>2. CASE wpc[w] # "blocked"
    <3>1. {j \in DOMAIN events : events[j] = w} = {}
      BY <2>0, <2>2 DEF Sleepers, AllBlocked
    <3> QED BY <2>2, <3>1, FS_EmptySet
  <2> QED BY <2>1, <2>2
<1> QED BY <1>1, EventsInvariance, PTL
=============================================================================
