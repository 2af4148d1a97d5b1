----------------------- MODULE ProcTreeCount_proofs -----------------------
(***************************************************************************)
(* Proofs about ProcTree: every reference is accounted for, for any        *)
(* threads, processes and CHILD_PROC_MAX, and nothing an operation works   *)
(* with is without one.  The counter is compared with what the frames      *)
(* hold; the invariant of ProcTree_proofs says who they are about.         *)
(***************************************************************************)
EXTENDS ProcTree_proofs

One(b) == IF b THEN 1 ELSE 0
Reason == {"p", "p2", "q"}

\* The frame of u at level n, if there is one, owns a reference to x.
HoldsAt(u, n, r, x) == n \in Levels(u) /\ Holds(FrameAt(u, n), r, x)
WeightAt(u, n, x) ==
  One(HoldsAt(u, n, "p", x)) + One(HoldsAt(u, n, "p2", x))
    + One(HoldsAt(u, n, "q", x))

\* How many references to x a frame with these fields owns.
Weight(o, l, p, q, x) ==
  One(/\ p = x
      /\ \/ o \in {"exit", "wait"}
         \/ o = "spawn" /\ l \in {"adopt", "contract", "ready"}
         \/ o = "reap" /\ l # "begin")
    + One(p = x /\ o = "exit" /\ l \in {"kids", "drop", "spin", "mark", "notify"})
    + One(q = x /\ l \in {"contract", "drop", "unlink"})
TopWeight(t, x) == Weight(Top(t).op, Top(t).at, Top(t).p, Top(t).q, x)

\* The frames own k more references to x after the step.
Grows(x, k) ==
  /\ IsFiniteSet(FramesHolding(x)')
  /\ Cardinality(FramesHolding(x)') = Cardinality(FramesHolding(x)) + k

\* The references to x outside the frames.
InTable(x) == IF x \in table THEN 1 ELSE 0
InHeld(x) == IF x \in held THEN 1 ELSE 0
InSession(x) == IF x \in session THEN 1 ELSE 0
HasParent(x) == IF parent[x] # None THEN 1 ELSE 0
Owned(x) == InTable(x) + InHeld(x) + InSession(x) + HasParent(x) + Len(kids[x])

Counts ==
  /\ refs \in [Proc -> Int] /\ leaked \in [Proc -> Nat]
  /\ \A x \in Proc :
       /\ IsFiniteSet(FramesHolding(x))
       /\ refs[x] = Owned(x) + Cardinality(FramesHolding(x)) + leaked[x]

CInv == TInv /\ Counts

-----------------------------------------------------------------------------
(* Cardinalities                                                           *)

LEMMA ChangeOne ==
  ASSUME NEW S, NEW T, NEW a, IsFiniteSet(S),
         \A e : e # a => (e \in S <=> e \in T)
  PROVE  /\ IsFiniteSet(T)
         /\ Cardinality(T) = Cardinality(S) - One(a \in S) + One(a \in T)
<1>1. IsFiniteSet(S \ {a}) /\ Cardinality(S) \in Nat
      /\ Cardinality(S \ {a}) = Cardinality(S) - One(a \in S)
  BY FS_RemoveElement, FS_CardinalityType DEF One
<1>2. S \ {a} = T \ {a}
  OBVIOUS
<1>3. CASE a \in T
  <2>1. T = (S \ {a}) \cup {a}
    BY <1>2, <1>3
  <2>2. a \notin S \ {a}
    OBVIOUS
  <2> QED BY <1>1, <1>3, <2>1, <2>2, FS_AddElement DEF One
<1>4. CASE a \notin T
  <2>1. T = S \ {a}
    BY <1>2, <1>4
  <2> QED BY <1>1, <1>4, <2>1 DEF One
<1> QED BY <1>3, <1>4

LEMMA ChangeThree ==
  ASSUME NEW S, NEW T, NEW a, NEW b, NEW c, a # b, a # c, b # c, IsFiniteSet(S),
         \A e : e \notin {a, b, c} => (e \in S <=> e \in T)
  PROVE  /\ IsFiniteSet(T)
         /\ Cardinality(T) =
              Cardinality(S) - (One(a \in S) + One(b \in S) + One(c \in S))
                + (One(a \in T) + One(b \in T) + One(c \in T))
<1> DEFINE A == (S \ {a}) \cup ({a} \cap T)
           B == (A \ {b}) \cup ({b} \cap T)
<1>0. Cardinality(S) \in Nat
  BY FS_CardinalityType
<1>1. /\ IsFiniteSet(A)
      /\ Cardinality(A) = Cardinality(S) - One(a \in S) + One(a \in A)
  <2>1. \A e : e # a => (e \in S <=> e \in A)
    OBVIOUS
  <2> HIDE DEF A
  <2> QED BY <2>1, ChangeOne
<1>2. /\ IsFiniteSet(B)
      /\ Cardinality(B) = Cardinality(A) - One(b \in A) + One(b \in B)
  <2>1. \A e : e # b => (e \in A <=> e \in B)
    OBVIOUS
  <2> HIDE DEF A, B
  <2> QED BY <1>1, <2>1, ChangeOne
<1>3. /\ IsFiniteSet(T)
      /\ Cardinality(T) = Cardinality(B) - One(c \in B) + One(c \in T)
  <2>1. \A e : e # c => (e \in B <=> e \in T)
    OBVIOUS
  <2> HIDE DEF A, B
  <2> QED BY <1>2, <2>1, ChangeOne
<1>4. /\ (a \in A <=> a \in T) /\ (b \in A <=> b \in S) /\ (b \in B <=> b \in T)
      /\ (c \in B <=> c \in S)
  OBVIOUS
<1> HIDE DEF A, B
<1> QED BY <1>0, <1>1, <1>2, <1>3, <1>4 DEF One

\* The members of FramesHolding.
MembersHold ==
  /\ \A x : \A u \in Thread : \A n : \A r \in Reason :
       <<u, n, r>> \in FramesHolding(x) <=> HoldsAt(u, n, r, x)
  /\ \A x : \A e \in FramesHolding(x) :
       \E u \in Thread : \E n : \E r \in Reason : e = <<u, n, r>>

LEMMA Members == MembersHold
<1>1. ASSUME NEW x, NEW u \in Thread, NEW n, NEW r \in Reason
      PROVE  <<u, n, r>> \in FramesHolding(x) <=> HoldsAt(u, n, r, x)
  <2>1. <<u, n, r>> \in UNION {{t} \X Levels(t) \X {"p", "p2", "q"} : t \in Thread}
          <=> n \in Levels(u)
    <3>1. ASSUME NEW t \in Thread
          PROVE <<u, n, r>> \in {t} \X Levels(t) \X {"p", "p2", "q"}
                  <=> u = t /\ n \in Levels(t)
      BY DEF Reason
    <3> QED BY <3>1
  <2>2. <<u, n, r>>[1] = u /\ <<u, n, r>>[2] = n /\ <<u, n, r>>[3] = r
    OBVIOUS
  <2> QED BY <2>1, <2>2 DEF FramesHolding, HoldsAt
<1>2. ASSUME NEW x, NEW e \in FramesHolding(x)
      PROVE  \E u \in Thread : \E n : \E r \in Reason : e = <<u, n, r>>
  <2>1. PICK t \in Thread : e \in {t} \X Levels(t) \X {"p", "p2", "q"}
    BY DEF FramesHolding
  <2>2. /\ e[1] = t /\ e[2] \in Levels(t) /\ e[3] \in Reason
        /\ e = <<e[1], e[2], e[3]>>
    BY <2>1 DEF Reason
  <2> QED BY <2>2
<1> QED BY <1>1, <1>2 DEF MembersHold

\* One level of one thread changes what it holds.
LEMMA FramesChange ==
  ASSUME NEW t \in Thread, NEW d, NEW x, IsFiniteSet(FramesHolding(x)),
         \A u \in Thread : \A n : \A r \in Reason :
           u # t \/ n # d => (HoldsAt(u, n, r, x)' <=> HoldsAt(u, n, r, x))
  PROVE  /\ IsFiniteSet(FramesHolding(x)')
         /\ Cardinality(FramesHolding(x)') =
              Cardinality(FramesHolding(x)) - WeightAt(t, d, x) + WeightAt(t, d, x)'
<1> DEFINE S == FramesHolding(x)
           T == FramesHolding(x)'
           a == <<t, d, "p">>
           b == <<t, d, "p2">>
           c == <<t, d, "q">>
<1>1. MembersHold /\ MembersHold'
  BY Members, PTL
<1>2. /\ \A u \in Thread : \A n : \A r \in Reason :
           <<u, n, r>> \in S <=> HoldsAt(u, n, r, x)
      /\ \A u \in Thread : \A n : \A r \in Reason :
           <<u, n, r>> \in T <=> HoldsAt(u, n, r, x)'
      /\ \A e : e \in S \/ e \in T =>
           \E u \in Thread : \E n : \E r \in Reason : e = <<u, n, r>>
  BY <1>1 DEF MembersHold
<1> HIDE DEF S, T
<1>3. ASSUME NEW e, e \notin {a, b, c} PROVE e \in S <=> e \in T
  <2>1. ASSUME NEW u \in Thread, NEW n, NEW r \in Reason, e = <<u, n, r>>
        PROVE  e \in S <=> e \in T
    <3>1. u # t \/ n # d
      BY <1>3, <2>1 DEF Reason
    <3>2. HoldsAt(u, n, r, x)' <=> HoldsAt(u, n, r, x)
      BY <3>1
    <3> QED BY <1>2, <2>1, <3>2
  <2> QED BY <1>2, <2>1
<1>4. /\ a \in S <=> HoldsAt(t, d, "p", x)
      /\ b \in S <=> HoldsAt(t, d, "p2", x)
      /\ c \in S <=> HoldsAt(t, d, "q", x)
      /\ a \in T <=> HoldsAt(t, d, "p", x)'
      /\ b \in T <=> HoldsAt(t, d, "p2", x)'
      /\ c \in T <=> HoldsAt(t, d, "q", x)'
  BY <1>2 DEF Reason
<1>5. a # b /\ a # c /\ b # c
  OBVIOUS
<1>6. IsFiniteSet(S)
  BY DEF S
<1> HIDE DEF a, b, c
<1>7. /\ IsFiniteSet(T)
      /\ Cardinality(T) =
           Cardinality(S) - (One(a \in S) + One(b \in S) + One(c \in S))
             + (One(a \in T) + One(b \in T) + One(c \in T))
  BY <1>3, <1>5, <1>6, ChangeThree
<1> QED BY <1>4, <1>7 DEF WeightAt, One, S, T

-----------------------------------------------------------------------------
(* What the five kinds of steps do to the frames' references               *)

LEMMA FieldsWeigh ==
  ASSUME NEW t, NEW d \in Levels(t), NEW x
  PROVE  WeightAt(t, d, x) = Weight(FrameAt(t, d).op, FrameAt(t, d).at,
                                    FrameAt(t, d).p, FrameAt(t, d).q, x)
BY DEF WeightAt, HoldsAt, Holds, Weight, One

LEMMA FieldsWeighAfter ==
  ASSUME NEW t, NEW d, NEW x, d \in Levels(t)'
  PROVE  WeightAt(t, d, x)' = Weight(FrameAt(t, d)'.op, FrameAt(t, d)'.at,
                                     FrameAt(t, d)'.p, FrameAt(t, d)'.q, x)
BY DEF WeightAt, HoldsAt, Holds, Weight, One

LEMMA WeightTypes ==
  ASSUME NEW o, NEW l, NEW p, NEW q, NEW x
  PROVE  Weight(o, l, p, q, x) \in Nat
BY DEF Weight, One

LEMMA TopWeighs ==
  ASSUME Stacks, NEW t \in Thread, ~Idle(t), NEW x
  PROVE  WeightAt(t, Depth(t), x) = TopWeight(t, x)
<1>1. Depth(t) \in Levels(t) /\ FrameAt(t, Depth(t)) = Top(t)
  BY Tops
<1>2. PICK d \in Levels(t) : d = Depth(t) /\ FrameAt(t, d) = Top(t)
  BY <1>1
<1> QED BY <1>2, FieldsWeigh DEF TopWeight

LEMMA GotoGrows ==
  ASSUME TInv, NEW t \in Thread, ~Idle(t), NEW l \in Places,
         NEW q \in AnyProc \cup {None}, Goto(t, l, q),
         NEW x, IsFiniteSet(FramesHolding(x))
  PROVE  Grows(x, Weight(Top(t).op, l, Top(t).p, q, x) - TopWeight(t, x))
<1>0. Stacks
  BY DEF TInv
<1>1. /\ Depth(t) \in Levels(t)
      /\ \A u \in Thread : Levels(u)' = Levels(u)
      /\ \A u \in Thread : \A n \in Levels(u) :
           u # t \/ n # Depth(t) => FrameAt(u, n)' = FrameAt(u, n)
      /\ \A n \in Levels(t) : n = Depth(t) =>
           /\ FrameAt(t, n)'.op = Top(t).op /\ FrameAt(t, n)'.at = l
           /\ FrameAt(t, n)'.p = Top(t).p /\ FrameAt(t, n)'.q = q
  BY <1>0, GotoFrames
<1>2. PICK d \in Levels(t) : d = Depth(t)
  BY <1>1
<1>3. \A u \in Thread : \A n : \A r \in Reason :
        u # t \/ n # d => (HoldsAt(u, n, r, x)' <=> HoldsAt(u, n, r, x))
  BY <1>1, <1>2 DEF HoldsAt
<1>4. WeightAt(t, d, x)' = Weight(Top(t).op, l, Top(t).p, q, x)
  <2>1. d \in Levels(t)'
    BY <1>1, <1>2
  <2>2. /\ FrameAt(t, d)'.op = Top(t).op /\ FrameAt(t, d)'.at = l
        /\ FrameAt(t, d)'.p = Top(t).p /\ FrameAt(t, d)'.q = q
    BY <1>1, <1>2
  <2> QED BY <2>1, <2>2, FieldsWeighAfter
<1>5. WeightAt(t, d, x) = TopWeight(t, x)
  BY <1>0, <1>2, TopWeighs
<1>6. Cardinality(FramesHolding(x)) \in Nat
  BY FS_CardinalityType
<1>7. TopWeight(t, x) \in Nat /\ Weight(Top(t).op, l, Top(t).p, q, x) \in Nat
  BY WeightTypes DEF TopWeight
<1>8. /\ IsFiniteSet(FramesHolding(x)')
      /\ Cardinality(FramesHolding(x)') =
           Cardinality(FramesHolding(x)) - WeightAt(t, d, x) + WeightAt(t, d, x)'
  BY <1>3, FramesChange
<1> QED BY <1>4, <1>5, <1>6, <1>7, <1>8 DEF Grows

LEMMA ReturnGrows ==
  ASSUME TInv, NEW t \in Thread, ~Idle(t), Return(t),
         NEW x, IsFiniteSet(FramesHolding(x))
  PROVE  Grows(x, - TopWeight(t, x))
<1>0. Stacks
  BY DEF TInv
<1>1. /\ Depth(t) \in Levels(t) /\ Kept(t) /\ Depth(t) \in Nat
      /\ \A n \in Levels(t)' : n < Depth(t)
      /\ \A u \in Thread : u # t => Levels(u)' = Levels(u)
      /\ Levels(t)' = Levels(t) \ {Depth(t)}
  BY <1>0, Popped, Tops
<1>2. PICK d \in Levels(t) : d = Depth(t)
  BY <1>1
<1>3. ASSUME NEW u \in Thread, NEW n, u # t \/ n # d
      PROVE  (n \in Levels(u)' <=> n \in Levels(u))
             /\ (n \in Levels(u)' => FrameAt(u, n)' = FrameAt(u, n))
  <2>1. n \in Levels(u)' <=> n \in Levels(u)
    BY <1>1, <1>2, <1>3
  <2>2. ASSUME n \in Levels(u)' PROVE ~(u = t /\ n >= Depth(t))
    <3>1. u = t => n < Depth(t) /\ n \in Int
      BY <1>1, <2>1, <2>2 DEF Levels
    <3> QED BY <1>1, <3>1
  <2> QED BY <1>1, <2>1, <2>2 DEF Kept
<1>4. \A u \in Thread : \A n : \A r \in Reason :
        u # t \/ n # d => (HoldsAt(u, n, r, x)' <=> HoldsAt(u, n, r, x))
  BY <1>3 DEF HoldsAt
<1>5. WeightAt(t, d, x)' = 0
  BY <1>1, <1>2 DEF WeightAt, HoldsAt, One
<1>6. WeightAt(t, d, x) = TopWeight(t, x)
  BY <1>0, <1>2, TopWeighs
<1>7. Cardinality(FramesHolding(x)) \in Nat /\ TopWeight(t, x) \in Nat
  BY FS_CardinalityType, WeightTypes DEF TopWeight
<1>8. /\ IsFiniteSet(FramesHolding(x)')
      /\ Cardinality(FramesHolding(x)') =
           Cardinality(FramesHolding(x)) - WeightAt(t, d, x) + WeightAt(t, d, x)'
  BY <1>4, FramesChange
<1> QED BY <1>5, <1>6, <1>7, <1>8 DEF Grows

LEMMA CallGrows ==
  ASSUME TInv, NEW t \in Thread, ~Idle(t), NEW l \in Places,
         NEW q \in AnyProc \cup {None}, NEW c \in Proc, CallReap(t, l, q, c),
         NEW x \in Proc, IsFiniteSet(FramesHolding(x))
  PROVE  Grows(x, Weight(Top(t).op, l, Top(t).p, q, x) - TopWeight(t, x))
<1>0. Stacks
  BY DEF TInv
<1> DEFINE f == Frame(Top(t).op, l, Top(t).p, q)
           g == Frame("reap", "begin", c, None)
<1>1. /\ Depth(t) \in Levels(t) /\ Top(t) \in FrameType /\ Depth(t) \in Nat
  BY <1>0, Tops
<1>2. /\ f \in FrameType /\ f.op = Top(t).op /\ f.at = l /\ f.p = Top(t).p
      /\ f.q = q
      /\ g \in FrameType /\ g.op = "reap" /\ g.at = "begin" /\ g.q = None
  BY <1>1 DEF Frame, FrameType, Places
<1>3. stack' = [stack EXCEPT ![t] = <<g, f>> \o Tail(@)]
  BY DEF CallReap
<1> HIDE DEF f, g
<1>4. /\ Kept(t)
      /\ \A n \in Levels(t)' : n >= Depth(t) => n \in {Depth(t), Depth(t) + 1}
      /\ \A n \in Levels(t)' : n = Depth(t) => FrameAt(t, n)' = f
      /\ \A n \in Levels(t)' : n = Depth(t) + 1 => FrameAt(t, n)' = g
      /\ \A u \in Thread : u # t => Levels(u)' = Levels(u)
      /\ Levels(t)' = Levels(t) \cup {Depth(t) + 1}
  BY <1>0, <1>2, <1>3, Pushed
<1>5. PICK d \in Levels(t) : d = Depth(t)
  BY <1>1
<1>6. d + 1 \notin Levels(t)
  BY <1>1, <1>5 DEF Levels, Depth
<1>7. ~Holds(g, "p", x) /\ ~Holds(g, "p2", x) /\ ~Holds(g, "q", x)
  BY <1>2 DEF Holds
<1>8. ASSUME NEW u \in Thread, NEW n, NEW r \in Reason, u # t \/ n # d
      PROVE  HoldsAt(u, n, r, x)' <=> HoldsAt(u, n, r, x)
  <2>1. CASE u = t /\ n = d + 1
    <3>1. n \in Levels(t)' /\ FrameAt(t, n)' = g
      BY <1>4, <1>5, <2>1
    <3>2. ~Holds(FrameAt(t, n)', r, x)
      BY <1>7, <3>1 DEF Reason
    <3> QED BY <1>6, <2>1, <3>2 DEF HoldsAt
  <2>2. CASE ~(u = t /\ n = d + 1)
    <3>1. n \in Levels(u)' <=> n \in Levels(u)
      BY <1>4, <1>5, <2>2
    <3>2. n \in Levels(u)' => ~(u = t /\ n >= Depth(t))
      BY <1>4, <1>5, <1>8, <2>2
    <3>3. n \in Levels(u)' => FrameAt(u, n)' = FrameAt(u, n)
      BY <1>4, <3>2 DEF Kept
    <3> QED BY <3>1, <3>3 DEF HoldsAt
  <2> QED BY <2>1, <2>2
<1>9. WeightAt(t, d, x)' = Weight(Top(t).op, l, Top(t).p, q, x)
  <2>1. d \in Levels(t)' /\ FrameAt(t, d)' = f
    BY <1>4, <1>5
  <2> QED BY <1>2, <2>1, FieldsWeighAfter
<1>10. WeightAt(t, d, x) = TopWeight(t, x)
  BY <1>0, <1>5, TopWeighs
<1>11. /\ Cardinality(FramesHolding(x)) \in Nat /\ TopWeight(t, x) \in Nat
       /\ Weight(Top(t).op, l, Top(t).p, q, x) \in Nat
  BY FS_CardinalityType, WeightTypes DEF TopWeight
<1>12. /\ IsFiniteSet(FramesHolding(x)')
       /\ Cardinality(FramesHolding(x)') =
            Cardinality(FramesHolding(x)) - WeightAt(t, d, x) + WeightAt(t, d, x)'
  BY <1>8, FramesChange
<1> QED BY <1>9, <1>10, <1>11, <1>12 DEF Grows

LEMMA StartGrows ==
  ASSUME TInv, NEW t \in Thread, Idle(t), NEW o \in {"spawn", "exit"},
         NEW l \in Places, NEW p \in Proc, NEW q \in AnyProc \cup {None},
         stack' = [stack EXCEPT ![t] = <<Frame(o, l, p, q)>>],
         NEW x, IsFiniteSet(FramesHolding(x))
  PROVE  Grows(x, Weight(o, l, p, q, x))
<1>0. Stacks
  BY DEF TInv
<1> DEFINE f == Frame(o, l, p, q)
<1>1. f \in FrameType /\ f.op = o /\ f.at = l /\ f.p = p /\ f.q = q
  BY DEF Frame, FrameType, Places
<1>2. stack' = [stack EXCEPT ![t] = <<f>>]
  OBVIOUS
<1> HIDE DEF f
<1>3. /\ Kept(t) /\ Depth(t) = 0 /\ Levels(t) = {} /\ Levels(t)' = {1}
      /\ FrameAt(t, 1)' = f
      /\ \A u \in Thread : u # t => Levels(u)' = Levels(u)
  BY <1>0, <1>1, <1>2, Started
<1>4. \A u \in Thread : \A n : \A r \in Reason :
        u # t \/ n # 1 => (HoldsAt(u, n, r, x)' <=> HoldsAt(u, n, r, x))
  BY <1>3 DEF HoldsAt, Kept
<1>5. WeightAt(t, 1, x) = 0
  BY <1>3 DEF WeightAt, HoldsAt, One
<1>6. WeightAt(t, 1, x)' = Weight(o, l, p, q, x)
  BY <1>1, <1>3, FieldsWeighAfter
<1>7. Cardinality(FramesHolding(x)) \in Nat /\ Weight(o, l, p, q, x) \in Nat
  BY FS_CardinalityType, WeightTypes
<1>8. /\ IsFiniteSet(FramesHolding(x)')
      /\ Cardinality(FramesHolding(x)') =
           Cardinality(FramesHolding(x)) - WeightAt(t, 1, x) + WeightAt(t, 1, x)'
  BY <1>4, FramesChange
<1> QED BY <1>5, <1>6, <1>7, <1>8 DEF Grows

LEMMA WaitGrows ==
  ASSUME TInv, NEW t \in Thread, Idle(t), NEW c \in Proc,
         NEW q \in AnyProc \cup {None},
         stack' = [stack EXCEPT ![t] = <<Frame("reap", "begin", c, None),
                                         Frame("wait", "drop", c, q)>>],
         NEW x \in Proc, IsFiniteSet(FramesHolding(x))
  PROVE  Grows(x, Weight("wait", "drop", c, q, x))
<1>0. Stacks
  BY DEF TInv
<1> DEFINE f == Frame("wait", "drop", c, q)
           g == Frame("reap", "begin", c, None)
<1>1. /\ f \in FrameType /\ f.op = "wait" /\ f.at = "drop" /\ f.p = c /\ f.q = q
      /\ g \in FrameType /\ g.op = "reap" /\ g.at = "begin" /\ g.q = None
  BY DEF Frame, FrameType
<1>2. stack' = [stack EXCEPT ![t] = <<g, f>>]
  OBVIOUS
<1> HIDE DEF f, g
<1>3. /\ Kept(t) /\ Depth(t) = 0 /\ Levels(t) = {} /\ Levels(t)' = {1, 2}
      /\ FrameAt(t, 1)' = f /\ FrameAt(t, 2)' = g
      /\ \A u \in Thread : u # t => Levels(u)' = Levels(u)
  <2>1. f \in FrameType /\ g \in FrameType
    BY <1>1
  <2> QED BY <1>0, <1>2, <2>1, StartedTwo
<1>4. \A r \in Reason : ~Holds(g, r, x)
  BY <1>1, ProcTreeAssumption DEF Holds, Reason
<1>5. ASSUME NEW u \in Thread, NEW n, NEW r \in Reason, u # t \/ n # 1
      PROVE  HoldsAt(u, n, r, x)' <=> HoldsAt(u, n, r, x)
  <2>1. CASE u = t
    BY <1>3, <1>4, <1>5, <2>1 DEF HoldsAt
  <2>2. CASE u # t
    BY <1>3, <2>2 DEF HoldsAt, Kept
  <2> QED BY <2>1, <2>2
<1>6. WeightAt(t, 1, x) = 0
  BY <1>3 DEF WeightAt, HoldsAt, One
<1>7. WeightAt(t, 1, x)' = Weight("wait", "drop", c, q, x)
  BY <1>1, <1>3, FieldsWeighAfter
<1>8. /\ Cardinality(FramesHolding(x)) \in Nat
      /\ Weight("wait", "drop", c, q, x) \in Nat
  BY FS_CardinalityType, WeightTypes
<1>9. /\ IsFiniteSet(FramesHolding(x)')
      /\ Cardinality(FramesHolding(x)') =
           Cardinality(FramesHolding(x)) - WeightAt(t, 1, x) + WeightAt(t, 1, x)'
  BY <1>5, FramesChange
<1> QED BY <1>6, <1>7, <1>8, <1>9 DEF Grows

LEMMA StillGrows ==
  ASSUME UNCHANGED stack, NEW x, IsFiniteSet(FramesHolding(x))
  PROVE  Grows(x, 0)
<1>1. FramesHolding(x)' = FramesHolding(x)
  BY DEF FramesHolding, Holds, Levels, FrameAt
<1>2. Cardinality(FramesHolding(x)) \in Nat
  BY FS_CardinalityType
<1> QED BY <1>1, <1>2 DEF Grows

-----------------------------------------------------------------------------
(* The balance of a step                                                   *)

LEMMA CountAdds ==
  ASSUME NEW r \in [Proc -> Int], NEW p, NEW n \in Int
  PROVE  /\ Count(r, p, n) \in [Proc -> Int]
         /\ \A x \in Proc : Count(r, p, n)[x] = r[x] + (IF x = p THEN n ELSE 0)
<1>1. CASE p \in Proc
  BY <1>1 DEF Count
<1>2. CASE p \notin Proc
  BY <1>2 DEF Count
<1> QED BY <1>1, <1>2

LEMMA OwnedTypes ==
  ASSUME NEW x, Len(kids[x]) \in Nat
  PROVE  Owned(x) \in Nat
<1>1. /\ InTable(x) \in Nat /\ InHeld(x) \in Nat
      /\ InSession(x) \in Nat /\ HasParent(x) \in Nat
  BY DEF InTable, InHeld, InSession, HasParent
<1> QED BY <1>1 DEF Owned

LEMMA OwnedTypesAfter ==
  ASSUME NEW x, Len(kids'[x]) \in Nat
  PROVE  Owned(x)' \in Nat
<1>1. /\ InTable(x)' \in Nat /\ InHeld(x)' \in Nat
      /\ InSession(x)' \in Nat /\ HasParent(x)' \in Nat
  BY DEF InTable, InHeld, InSession, HasParent
<1> QED BY <1>1 DEF Owned

LEMMA Sums ==
  ASSUME NEW a \in Int, NEW b \in Int, NEW c \in Int, NEW d \in Int, NEW e \in Int,
         NEW da \in Int, NEW db \in Int, NEW dc \in Int, NEW dd \in Int, NEW de \in Int
  PROVE  (a + da) + (b + db) + (c + dc) + (d + dd) + (e + de)
           = (a + b + c + d + e) + (da + db + dc + dd + de)
OBVIOUS

LEMMA OwnedSum ==
  ASSUME NEW x, Len(kids[x]) \in Nat,
         NEW dt \in Int, InTable(x)' = InTable(x) + dt,
         NEW dh \in Int, InHeld(x)' = InHeld(x) + dh,
         NEW ds \in Int, InSession(x)' = InSession(x) + ds,
         NEW dp \in Int, HasParent(x)' = HasParent(x) + dp,
         NEW dk \in Int, Len(kids'[x]) = Len(kids[x]) + dk
  PROVE  Owned(x)' = Owned(x) + (dt + dh + ds + dp + dk)
<1>0. /\ InTable(x) \in Int /\ InHeld(x) \in Int /\ InSession(x) \in Int
      /\ HasParent(x) \in Int /\ Len(kids[x]) \in Int
  BY DEF InTable, InHeld, InSession, HasParent
<1>1. PICK a \in Int, b \in Int, c \in Int, d \in Int, e \in Int :
        /\ a = InTable(x) /\ b = InHeld(x) /\ c = InSession(x)
        /\ d = HasParent(x) /\ e = Len(kids[x])
  BY <1>0
<1>2. Owned(x) = a + b + c + d + e
  BY <1>1 DEF Owned
<1>3. Owned(x)' = InTable(x)' + InHeld(x)' + InSession(x)' + HasParent(x)' + Len(kids'[x])
  BY DEF Owned
<1>4. Owned(x)' = (a + dt) + (b + dh) + (c + ds) + (d + dp) + (e + dk)
  BY <1>1, <1>3
<1> QED BY <1>2, <1>4, Sums

LEMMA Ranges ==
  ASSUME TInv, Counts, NEW x \in Proc
  PROVE  /\ refs[x] \in Int /\ leaked[x] \in Nat /\ Len(kids[x]) \in Nat
         /\ Owned(x) \in Nat /\ IsFiniteSet(FramesHolding(x))
         /\ Cardinality(FramesHolding(x)) \in Nat
<1>1. kids[x] \in Seq(Proc)
  BY DEF TInv, Data, AnyProc
<1>2. Len(kids[x]) \in Nat
  BY <1>1, LenProperties
<1>3. Owned(x) \in Nat
  BY <1>2, OwnedTypes
<1>4. refs[x] \in Int /\ leaked[x] \in Nat /\ IsFiniteSet(FramesHolding(x))
  BY DEF Counts
<1> QED BY <1>2, <1>3, <1>4, FS_CardinalityType

LEMMA OwnedAfter == ASSUME TInv', NEW x \in Proc PROVE Owned(x)' \in Nat
<1>1. kids'[x] \in Seq(Proc)
  BY DEF TInv, Data, AnyProc
<1>2. Len(kids'[x]) \in Nat
  BY <1>1, LenProperties
<1> QED BY <1>2, OwnedTypesAfter

LEMMA Balances ==
  ASSUME TInv, Counts, TInv', refs' \in [Proc -> Int], leaked' \in [Proc -> Nat],
         \A x \in Proc : \E k \in Int :
           /\ Grows(x, k)
           /\ refs'[x] = refs[x] + (Owned(x)' - Owned(x)) + k
                           + (leaked'[x] - leaked[x])
  PROVE  Counts'
<1>1. ASSUME NEW x \in Proc
      PROVE  /\ IsFiniteSet(FramesHolding(x)')
             /\ refs'[x] = Owned(x)' + Cardinality(FramesHolding(x)') + leaked'[x]
  <2>1. PICK k \in Int :
          /\ Grows(x, k)
          /\ refs'[x] = refs[x] + (Owned(x)' - Owned(x)) + k
                          + (leaked'[x] - leaked[x])
    OBVIOUS
  <2>2. /\ refs[x] \in Int /\ leaked[x] \in Nat /\ Owned(x) \in Nat
        /\ Cardinality(FramesHolding(x)) \in Nat
    BY Ranges
  <2>3. refs[x] = Owned(x) + Cardinality(FramesHolding(x)) + leaked[x]
    BY DEF Counts
  <2>4. Owned(x)' \in Nat
    BY OwnedAfter
  <2>5. leaked'[x] \in Nat /\ refs'[x] \in Int
    OBVIOUS
  <2>6. /\ IsFiniteSet(FramesHolding(x)')
        /\ Cardinality(FramesHolding(x)') = Cardinality(FramesHolding(x)) + k
    BY <2>1 DEF Grows
  <2> QED BY <2>1, <2>2, <2>3, <2>4, <2>5, <2>6
<1> QED BY <1>1 DEF Counts

\* The owners outside the frames.
ownVars == <<table, held, session, parent, kids>>

LEMMA QuietBalances ==
  ASSUME TInv, Counts, TInv', UNCHANGED <<ownVars, leaked>>,
         refs' \in [Proc -> Int],
         \A x \in Proc : \E k \in Int : Grows(x, k) /\ refs'[x] = refs[x] + k
  PROVE  Counts'
<1>1. leaked' \in [Proc -> Nat]
  BY DEF Counts
<1>2. ASSUME NEW x \in Proc
      PROVE  \E k \in Int :
               /\ Grows(x, k)
               /\ refs'[x] = refs[x] + (Owned(x)' - Owned(x)) + k
                               + (leaked'[x] - leaked[x])
  <2>1. PICK k \in Int : Grows(x, k) /\ refs'[x] = refs[x] + k
    OBVIOUS
  <2>2. Owned(x)' = Owned(x) /\ leaked'[x] = leaked[x]
    BY DEF Owned, ownVars, InTable, InHeld, InSession, HasParent
  <2>3. refs[x] \in Int /\ Owned(x) \in Nat /\ leaked[x] \in Nat
    BY Ranges
  <2>4. refs'[x] = refs[x] + (Owned(x)' - Owned(x)) + k + (leaked'[x] - leaked[x])
    BY <2>1, <2>2, <2>3
  <2> QED BY <2>1, <2>4
<1> QED BY <1>1, <1>2, Balances

LEMMA QuietGotos ==
  ASSUME TInv, Counts, TInv', UNCHANGED <<ownVars, leaked>>,
         NEW t \in Thread, ~Idle(t), NEW l \in Places,
         NEW q \in AnyProc \cup {None}, Goto(t, l, q), refs' \in [Proc -> Int],
         \A x \in Proc : refs'[x] =
           refs[x] + (Weight(Top(t).op, l, Top(t).p, q, x) - TopWeight(t, x))
  PROVE  Counts'
<1>1. ASSUME NEW x \in Proc
      PROVE  \E k \in Int : Grows(x, k) /\ refs'[x] = refs[x] + k
  <2>1. Grows(x, Weight(Top(t).op, l, Top(t).p, q, x) - TopWeight(t, x))
    BY Ranges, GotoGrows
  <2>2. Weight(Top(t).op, l, Top(t).p, q, x) - TopWeight(t, x) \in Int
    BY WeightTypes DEF TopWeight
  <2> QED BY <2>1, <2>2
<1> QED BY <1>1, QuietBalances

LEMMA QuietCalls ==
  ASSUME TInv, Counts, TInv', UNCHANGED <<ownVars, leaked>>,
         NEW t \in Thread, ~Idle(t), NEW l \in Places,
         NEW q \in AnyProc \cup {None}, NEW c \in Proc, CallReap(t, l, q, c),
         refs' \in [Proc -> Int],
         \A x \in Proc : refs'[x] =
           refs[x] + (Weight(Top(t).op, l, Top(t).p, q, x) - TopWeight(t, x))
  PROVE  Counts'
<1>1. ASSUME NEW x \in Proc
      PROVE  \E k \in Int : Grows(x, k) /\ refs'[x] = refs[x] + k
  <2>1. Grows(x, Weight(Top(t).op, l, Top(t).p, q, x) - TopWeight(t, x))
    BY Ranges, CallGrows
  <2>2. Weight(Top(t).op, l, Top(t).p, q, x) - TopWeight(t, x) \in Int
    BY WeightTypes DEF TopWeight
  <2> QED BY <2>1, <2>2
<1> QED BY <1>1, QuietBalances

LEMMA QuietReturns ==
  ASSUME TInv, Counts, TInv', UNCHANGED <<ownVars, leaked>>,
         NEW t \in Thread, ~Idle(t), Return(t), refs' \in [Proc -> Int],
         \A x \in Proc : refs'[x] = refs[x] - TopWeight(t, x)
  PROVE  Counts'
<1>1. ASSUME NEW x \in Proc
      PROVE  \E k \in Int : Grows(x, k) /\ refs'[x] = refs[x] + k
  <2>1. Grows(x, - TopWeight(t, x))
    BY Ranges, ReturnGrows
  <2>2. TopWeight(t, x) \in Nat /\ refs[x] \in Int
    BY Ranges, WeightTypes DEF TopWeight
  <2>3. - TopWeight(t, x) \in Int /\ refs'[x] = refs[x] + (- TopWeight(t, x))
    BY <2>2
  <2> QED BY <2>1, <2>3
<1> QED BY <1>1, QuietBalances

-----------------------------------------------------------------------------
(* The steps that move references between counters and frames only         *)

LEMMA NotRefsQuiet == UNCHANGED notRefs => UNCHANGED <<ownVars, leaked>>
BY DEF notRefs, quietVars, hostVars, treeVars, ownVars

LEMMA ReapBeginCounts ==
  ASSUME TInv, Counts, TInv', NEW t \in Thread, ReapBegin(t)
  PROVE  Counts'
<1>0. /\ ~Idle(t) /\ Top(t).op = "reap" /\ Top(t).at = "begin"
      /\ UNCHANGED <<ownVars, leaked>> /\ refs \in [Proc -> Int]
  BY DEF ReapBegin, At, treeVars, quietVars, hostVars, ownVars, Counts
<1>1. PICK p \in Proc, q \in AnyProc \cup {None} : p = Top(t).p /\ q = Top(t).q
  BY <1>0, Tops DEF TInv
<1>2. CASE UNCHANGED <<refs, stack>>
  BY <1>0, <1>2, QuietBalances, StillGrows, Ranges
<1>3. CASE refs' = Count(refs, p, 1) /\ Goto(t, "kids", None)
  <2>1. refs' \in [Proc -> Int]
        /\ \A x \in Proc : refs'[x] = refs[x] + (IF x = p THEN 1 ELSE 0)
    BY <1>0, <1>3, CountAdds
  <2>2. \A x \in Proc : TopWeight(t, x) = 0
    BY <1>0 DEF TopWeight, Weight, One
  <2>3. \A x \in Proc : Weight(Top(t).op, "kids", Top(t).p, None, x) =
                          IF x = p THEN 1 ELSE 0
    BY <1>0, <1>1 DEF Weight, One
  <2> QED BY <1>0, <1>3, <2>1, <2>2, <2>3, QuietGotos DEF Places
<1>4. CASE Return(t) /\ UNCHANGED refs
  <2>1. \A x \in Proc : TopWeight(t, x) = 0
    BY <1>0 DEF TopWeight, Weight, One
  <2> QED BY <1>0, <1>4, <2>1, QuietReturns
<1> QED BY <1>1, <1>2, <1>3, <1>4 DEF ReapBegin

LEMMA KillCounts ==
  ASSUME TInv, Counts, TInv', NEW t \in Thread, KillChild(t)
  PROVE  Counts'
<1>0. /\ ~Idle(t) /\ Top(t).op \in {"reap", "exit"} /\ Top(t).at = "kids"
      /\ kids[Top(t).p] # <<>>
      /\ UNCHANGED <<ownVars, leaked>> /\ refs \in [Proc -> Int]
  BY NotRefsQuiet DEF KillChild, At, Counts
<1>1. PICK c \in Proc : c = LastKid(Top(t).p) /\ c \in valid
  BY <1>0, Tops, LastKids DEF TInv
<1>2. refs' = Count(refs, c, 1) /\ CallReap(t, "drop", c, c)
  BY <1>1 DEF KillChild
<1>3. refs' \in [Proc -> Int]
      /\ \A x \in Proc : refs'[x] = refs[x] + (IF x = c THEN 1 ELSE 0)
  BY <1>0, <1>2, CountAdds
<1>4. ASSUME NEW x \in Proc
      PROVE  Weight(Top(t).op, "drop", Top(t).p, c, x)
               = TopWeight(t, x) + (IF x = c THEN 1 ELSE 0)
  BY <1>0 DEF TopWeight, Weight, One
<1>5. \A x \in Proc : refs'[x] =
        refs[x] + (Weight(Top(t).op, "drop", Top(t).p, c, x) - TopWeight(t, x))
  <2>1. \A x \in Proc : TopWeight(t, x) \in Nat /\ refs[x] \in Int
    BY <1>0, WeightTypes DEF TopWeight
  <2> QED BY <1>3, <1>4, <2>1
<1> QED BY <1>0, <1>2, <1>3, <1>5, QuietCalls DEF Places, AnyProc

LEMMA DropCounts ==
  ASSUME TInv, Counts, TInv', NEW t \in Thread, DropChild(t)
  PROVE  Counts'
<1>0. /\ ~Idle(t) /\ Top(t).op \in {"reap", "exit"} /\ Top(t).at = "drop"
      /\ Goto(t, "kids", None) /\ refs' = Count(refs, Top(t).q, -1)
      /\ UNCHANGED <<ownVars, leaked>> /\ refs \in [Proc -> Int]
  BY NotRefsQuiet DEF DropChild, At, Counts
<1>1. refs' \in [Proc -> Int]
      /\ \A x \in Proc : refs'[x] = refs[x] + (IF x = Top(t).q THEN -1 ELSE 0)
  BY <1>0, CountAdds
<1>2. ASSUME NEW x \in Proc
      PROVE  TopWeight(t, x) = Weight(Top(t).op, "kids", Top(t).p, None, x)
                                 + (IF x = Top(t).q THEN 1 ELSE 0)
  BY <1>0, ProcTreeAssumption DEF TopWeight, Weight, One
<1>3. \A x \in Proc : refs'[x] =
        refs[x] + (Weight(Top(t).op, "kids", Top(t).p, None, x) - TopWeight(t, x))
  <2>1. \A x \in Proc : refs[x] \in Int
                        /\ Weight(Top(t).op, "kids", Top(t).p, None, x) \in Nat
    BY <1>0, WeightTypes
  <2> QED BY <1>1, <1>2, <2>1
<1> QED BY <1>0, <1>1, <1>3, QuietGotos DEF Places

LEMMA ReapParentCounts ==
  ASSUME TInv, Counts, TInv', NEW t \in Thread, ReapParent(t)
  PROVE  Counts'
<1>0. /\ ~Idle(t) /\ Top(t).op = "reap" /\ Top(t).at = "kids"
      /\ UNCHANGED <<ownVars, leaked>> /\ refs \in [Proc -> Int]
  BY DEF ReapParent, At, treeVars, quietVars, hostVars, ownVars, Counts
<1>1. PICK p \in Proc, q \in AnyProc \cup {None} :
        p = Top(t).p /\ q = parent[Top(t).p]
  BY <1>0, Tops DEF TInv, Data
<1>2. \A x \in Proc : TopWeight(t, x) = IF x = p THEN 1 ELSE 0
  BY <1>0, <1>1 DEF TopWeight, Weight, One
<1>3. CASE Goto(t, "remove", None) /\ UNCHANGED refs
  <2>1. \A x \in Proc : Weight(Top(t).op, "remove", Top(t).p, None, x) =
                          IF x = p THEN 1 ELSE 0
    BY <1>0, <1>1 DEF Weight, One
  <2> QED BY <1>0, <1>2, <1>3, <2>1, QuietGotos DEF Places
<1>4. CASE refs' = Count(refs, q, 1) /\ Goto(t, "unlink", q)
  <2>1. \A x \in Proc : Weight(Top(t).op, "unlink", Top(t).p, q, x) =
                          (IF x = p THEN 1 ELSE 0) + (IF x = q THEN 1 ELSE 0)
    BY <1>0, <1>1 DEF Weight, One
  <2>2. refs' \in [Proc -> Int]
        /\ \A x \in Proc : refs'[x] = refs[x] + (IF x = q THEN 1 ELSE 0)
    BY <1>0, <1>4, CountAdds
  <2> QED BY <1>0, <1>2, <1>4, <2>1, <2>2, QuietGotos DEF Places
<1>5. CASE refs' = Count(refs, p, -1) /\ Return(t)
  <2>1. refs' \in [Proc -> Int]
        /\ \A x \in Proc : refs'[x] = refs[x] + (IF x = p THEN -1 ELSE 0)
    BY <1>0, <1>5, CountAdds
  <2> QED BY <1>0, <1>2, <1>5, <2>1, QuietReturns
<1> QED BY <1>1, <1>3, <1>4, <1>5 DEF ReapParent

LEMMA ExitRetainCounts ==
  ASSUME TInv, Counts, TInv', NEW t \in Thread, ExitRetain(t)
  PROVE  Counts'
<1>0. /\ ~Idle(t) /\ Top(t).op = "exit" /\ Top(t).at = "retain"
      /\ UNCHANGED <<ownVars, leaked>> /\ refs \in [Proc -> Int]
  BY NotRefsQuiet DEF ExitRetain, At, Counts
<1>1. PICK p \in Proc : p = Top(t).p
  BY <1>0, Tops DEF TInv
<1>2. \A x \in Proc : TopWeight(t, x) = IF x = p THEN 1 ELSE 0
  BY <1>0, <1>1 DEF TopWeight, Weight, One
<1>3. CASE refs' = Count(refs, p, 1) /\ Goto(t, "kids", None)
  <2>1. \A x \in Proc : Weight(Top(t).op, "kids", Top(t).p, None, x) =
                          IF x = p THEN 2 ELSE 0
    BY <1>0, <1>1 DEF Weight, One
  <2>2. refs' \in [Proc -> Int]
        /\ \A x \in Proc : refs'[x] = refs[x] + (IF x = p THEN 1 ELSE 0)
    BY <1>0, <1>3, CountAdds
  <2> QED BY <1>0, <1>2, <1>3, <2>1, <2>2, QuietGotos DEF Places
<1>4. CASE Goto(t, "leave", None) /\ UNCHANGED refs
  <2>1. \A x \in Proc : Weight(Top(t).op, "leave", Top(t).p, None, x) =
                          IF x = p THEN 1 ELSE 0
    BY <1>0, <1>1 DEF Weight, One
  <2> QED BY <1>0, <1>2, <1>4, <2>1, QuietGotos DEF Places
<1> QED BY <1>1, <1>3, <1>4 DEF ExitRetain

LEMMA ExitKidsCounts ==
  ASSUME TInv, Counts, TInv', NEW t \in Thread, ExitKids(t)
  PROVE  Counts'
<1>0. /\ ~Idle(t) /\ Top(t).op = "exit" /\ Top(t).at = "kids"
      /\ UNCHANGED <<ownVars, leaked>> /\ refs \in [Proc -> Int]
  BY NotRefsQuiet DEF ExitKids, At, Counts
<1>1. PICK p \in Proc : p = Top(t).p
  BY <1>0, Tops DEF TInv
<1>2. \A x \in Proc : TopWeight(t, x) = IF x = p THEN 2 ELSE 0
  BY <1>0, <1>1 DEF TopWeight, Weight, One
<1>3. CASE refs' = Count(refs, p, -1) /\ CallReap(t, "leave", None, p)
  <2>1. \A x \in Proc : Weight(Top(t).op, "leave", Top(t).p, None, x) =
                          IF x = p THEN 1 ELSE 0
    BY <1>0, <1>1 DEF Weight, One
  <2>2. refs' \in [Proc -> Int]
        /\ \A x \in Proc : refs'[x] = refs[x] + (IF x = p THEN -1 ELSE 0)
    BY <1>0, <1>3, CountAdds
  <2> QED BY <1>0, <1>2, <1>3, <2>1, <2>2, QuietCalls DEF Places
<1>4. CASE Goto(t, "mark", None) /\ UNCHANGED refs
  <2>1. \A x \in Proc : Weight(Top(t).op, "mark", Top(t).p, None, x) =
                          IF x = p THEN 2 ELSE 0
    BY <1>0, <1>1 DEF Weight, One
  <2> QED BY <1>0, <1>2, <1>4, <2>1, QuietGotos DEF Places
<1> QED BY <1>1, <1>3, <1>4 DEF ExitKids

LEMMA ExitStatusCounts ==
  ASSUME TInv, Counts, TInv', NEW t \in Thread, ExitStatus(t)
  PROVE  Counts'
<1>0. /\ ~Idle(t) /\ Top(t).op = "exit" /\ Top(t).at = "status"
      /\ UNCHANGED <<ownVars, leaked>> /\ refs \in [Proc -> Int] /\ refs' = refs
      /\ Goto(t, "retain", None)
  BY DEF ExitStatus, At, Counts, ownVars, treeVars, objVars, hostVars
<1>1. \A x \in Proc : TopWeight(t, x) = Weight(Top(t).op, "retain", Top(t).p, None, x)
  BY <1>0, ProcTreeAssumption DEF TopWeight, Weight, One
<1>2. \A x \in Proc : refs'[x] =
        refs[x] + (Weight(Top(t).op, "retain", Top(t).p, None, x) - TopWeight(t, x))
  BY <1>0, <1>1, WeightTypes DEF TopWeight
<1> QED BY <1>0, <1>2, QuietGotos DEF Places

LEMMA ExitMarkCounts ==
  ASSUME TInv, Counts, TInv', NEW t \in Thread, ExitMark(t)
  PROVE  Counts'
<1>0. /\ ~Idle(t) /\ Top(t).op = "exit" /\ Top(t).at = "mark"
      /\ UNCHANGED <<ownVars, leaked>> /\ refs \in [Proc -> Int] /\ refs' = refs
      /\ Goto(t, "notify", None)
  BY DEF ExitMark, At, Counts, ownVars, treeVars, objVars, hostVars
<1>1. \A x \in Proc : TopWeight(t, x) = Weight(Top(t).op, "notify", Top(t).p, None, x)
  BY <1>0, ProcTreeAssumption DEF TopWeight, Weight, One
<1>2. \A x \in Proc : refs'[x] =
        refs[x] + (Weight(Top(t).op, "notify", Top(t).p, None, x) - TopWeight(t, x))
  BY <1>0, <1>1, WeightTypes DEF TopWeight
<1> QED BY <1>0, <1>2, QuietGotos DEF Places

LEMMA ExitNotifyCounts ==
  ASSUME TInv, Counts, TInv', NEW t \in Thread, ExitNotify(t)
  PROVE  Counts'
<1>0. /\ ~Idle(t) /\ Top(t).op = "exit" /\ Top(t).at = "notify"
      /\ UNCHANGED <<ownVars, leaked>> /\ refs \in [Proc -> Int]
      /\ Goto(t, "leave", None)
  BY NotRefsQuiet DEF ExitNotify, At, Counts
<1>1. PICK p \in Proc : p = Top(t).p
  BY <1>0, Tops DEF TInv
<1>2. refs' = Count(refs, p, -1)
  BY <1>1 DEF ExitNotify
<1>3. \A x \in Proc : TopWeight(t, x) = IF x = p THEN 2 ELSE 0
  BY <1>0, <1>1 DEF TopWeight, Weight, One
<1>4. \A x \in Proc : Weight(Top(t).op, "leave", Top(t).p, None, x) =
                        IF x = p THEN 1 ELSE 0
  BY <1>0, <1>1 DEF Weight, One
<1>5. refs' \in [Proc -> Int]
      /\ \A x \in Proc : refs'[x] = refs[x] + (IF x = p THEN -1 ELSE 0)
  BY <1>0, <1>2, CountAdds
<1> QED BY <1>0, <1>3, <1>4, <1>5, QuietGotos DEF Places

LEMMA ExitLeaveCounts ==
  ASSUME TInv, Counts, TInv', NEW t \in Thread, ExitLeave(t)
  PROVE  Counts'
<1>0. /\ ~Idle(t) /\ Top(t).op = "exit" /\ Top(t).at = "leave"
      /\ UNCHANGED <<ownVars, leaked>> /\ refs \in [Proc -> Int] /\ Return(t)
  BY DEF ExitLeave, At, Counts, ownVars, treeVars
<1>1. PICK p \in Proc : p = Top(t).p
  BY <1>0, Tops DEF TInv
<1>2. refs' = Count(refs, p, -1)
  BY <1>1 DEF ExitLeave
<1>3. \A x \in Proc : TopWeight(t, x) = IF x = p THEN 1 ELSE 0
  BY <1>0, <1>1 DEF TopWeight, Weight, One
<1>4. refs' \in [Proc -> Int]
      /\ \A x \in Proc : refs'[x] = refs[x] + (IF x = p THEN -1 ELSE 0)
  BY <1>0, <1>2, CountAdds
<1> QED BY <1>0, <1>3, <1>4, QuietReturns

LEMMA WaitReapCounts ==
  ASSUME TInv, Counts, TInv', NEW t \in Thread, NEW q \in Proc, NEW c \in Proc,
         WaitReap(t, q, c)
  PROVE  Counts'
<1>0. /\ Idle(t) /\ UNCHANGED <<ownVars, leaked>> /\ refs \in [Proc -> Int]
  BY NotRefsQuiet DEF WaitReap, Counts
<1>1. PICK y \in AnyProc \cup {None} :
        /\ refs' = Count(Count(refs, c, 1), y, 1)
        /\ stack' = [stack EXCEPT ![t] = <<Frame("reap", "begin", c, None),
                                           Frame("wait", "drop", c, y)>>]
  <2>1. CASE /\ refs' = Count(Count(refs, c, 1), q, 1)
             /\ stack' = [stack EXCEPT ![t] = <<Frame("reap", "begin", c, None),
                                                Frame("wait", "drop", c, q)>>]
    BY <2>1 DEF AnyProc
  <2>2. CASE /\ refs' = Count(refs, c, 1)
             /\ stack' = [stack EXCEPT ![t] = <<Frame("reap", "begin", c, None),
                                                Frame("wait", "drop", c, None)>>]
    <3>1. refs' = Count(Count(refs, c, 1), None, 1)
      BY <2>2, ProcTreeAssumption DEF Count
    <3> QED BY <2>2, <3>1
  <2> QED BY <2>1, <2>2 DEF WaitReap
<1>2. refs' \in [Proc -> Int]
      /\ \A x \in Proc : refs'[x] = refs[x] + (IF x = c THEN 1 ELSE 0)
                                            + (IF x = y THEN 1 ELSE 0)
  <2>1. /\ Count(refs, c, 1) \in [Proc -> Int]
        /\ \A x \in Proc : Count(refs, c, 1)[x] = refs[x] + (IF x = c THEN 1 ELSE 0)
    BY <1>0, CountAdds
  <2> DEFINE r == Count(refs, c, 1)
  <2>2. refs' = Count(r, y, 1)
    BY <1>1
  <2>3. r \in [Proc -> Int] /\ \A x \in Proc : r[x] = refs[x] + (IF x = c THEN 1 ELSE 0)
    BY <2>1
  <2> HIDE DEF r
  <2>4. refs' \in [Proc -> Int]
        /\ \A x \in Proc : refs'[x] = r[x] + (IF x = y THEN 1 ELSE 0)
    BY <2>2, <2>3, CountAdds
  <2> QED BY <2>3, <2>4
<1>3. \A x \in Proc : Weight("wait", "drop", c, y, x) =
        (IF x = c THEN 1 ELSE 0) + (IF x = y THEN 1 ELSE 0)
  BY DEF Weight, One
<1>4. ASSUME NEW x \in Proc
      PROVE  \E k \in Int : Grows(x, k) /\ refs'[x] = refs[x] + k
  <2>1. Grows(x, Weight("wait", "drop", c, y, x))
    BY <1>0, <1>1, Ranges, WaitGrows
  <2>2. refs'[x] = refs[x] + Weight("wait", "drop", c, y, x)
        /\ Weight("wait", "drop", c, y, x) \in Int
    BY <1>0, <1>2, <1>3
  <2> QED BY <2>1, <2>2
<1> QED BY <1>0, <1>2, <1>4, QuietBalances

LEMMA WaitDoneCounts ==
  ASSUME TInv, Counts, TInv', NEW t \in Thread, WaitDone(t)
  PROVE  Counts'
<1>0. /\ ~Idle(t) /\ Top(t).op = "wait" /\ Top(t).at = "drop"
      /\ UNCHANGED <<ownVars, leaked>> /\ refs \in [Proc -> Int] /\ Return(t)
  BY NotRefsQuiet DEF WaitDone, At, Counts
<1>1. PICK p \in Proc, q \in AnyProc \cup {None} : p = Top(t).p /\ q = Top(t).q
  BY <1>0, Tops DEF TInv
<1>2. PICK r : r = Count(refs, p, -1) /\ refs' = Count(r, q, -1)
  BY <1>1 DEF WaitDone
<1>3. /\ r \in [Proc -> Int]
      /\ \A x \in Proc : r[x] = refs[x] + (IF x = p THEN -1 ELSE 0)
  BY <1>0, <1>2, CountAdds
<1>4. /\ refs' \in [Proc -> Int]
      /\ \A x \in Proc : refs'[x] = r[x] + (IF x = q THEN -1 ELSE 0)
  BY <1>2, <1>3, CountAdds
<1>5. \A x \in Proc : TopWeight(t, x) =
        (IF x = p THEN 1 ELSE 0) + (IF x = q THEN 1 ELSE 0)
  BY <1>0, <1>1 DEF TopWeight, Weight, One
<1>6. \A x \in Proc : refs'[x] = refs[x] - TopWeight(t, x)
  BY <1>0, <1>3, <1>4, <1>5
<1> QED BY <1>0, <1>4, <1>6, QuietReturns

LEMMA RegisterCounts ==
  ASSUME TInv, Counts, TInv', NEW t \in Thread, SpawnRegister(t)
  PROVE  Counts'
<1>0. /\ ~Idle(t) /\ Top(t).op = "spawn" /\ Top(t).at = "register"
      /\ UNCHANGED <<ownVars, leaked>> /\ refs' = refs /\ refs \in [Proc -> Int]
      /\ Return(t)
  BY DEF SpawnRegister, At, Counts, ownVars, treeVars, objVars
<1>1. \A x \in Proc : TopWeight(t, x) = 0
  BY <1>0 DEF TopWeight, Weight, One
<1> QED BY <1>0, <1>1, QuietReturns

LEMMA LaunchCounts ==
  ASSUME TInv, Counts, TInv', NEW t \in Thread, NEW q \in AnyProc,
         NEW p \in Proc, SpawnLaunch(t, q, p)
  PROVE  Counts'
<1>0. /\ Idle(t) /\ UNCHANGED <<ownVars, leaked>> /\ refs' = refs
      /\ refs \in [Proc -> Int]
      /\ stack' = [stack EXCEPT ![t] = <<Frame("spawn", "insert", p, q)>>]
  BY DEF SpawnLaunch, Start, Counts, ownVars, treeVars, objVars
<1>1. ASSUME NEW x \in Proc PROVE Grows(x, 0)
  <2>1. Grows(x, Weight("spawn", "insert", p, q, x))
    BY <1>0, Ranges, StartGrows DEF Places
  <2>2. Weight("spawn", "insert", p, q, x) = 0
    BY DEF Weight, One
  <2> QED BY <2>1, <2>2
<1>2. \A x \in Proc : refs'[x] = refs[x] + 0
  BY <1>0
<1> QED BY <1>0, <1>1, <1>2, QuietBalances

-----------------------------------------------------------------------------
(* The steps that change who else owns a reference, or lose one            *)

LEMMA GotoBalances ==
  ASSUME TInv, Counts, TInv', NEW t \in Thread, ~Idle(t), NEW l \in Places,
         NEW q \in AnyProc \cup {None}, Goto(t, l, q),
         refs' \in [Proc -> Int], leaked' \in [Proc -> Nat],
         \A x \in Proc : refs'[x] =
           refs[x] + (Owned(x)' - Owned(x))
             + (Weight(Top(t).op, l, Top(t).p, q, x) - TopWeight(t, x))
             + (leaked'[x] - leaked[x])
  PROVE  Counts'
<1>1. ASSUME NEW x \in Proc
      PROVE  \E k \in Int :
               /\ Grows(x, k)
               /\ refs'[x] = refs[x] + (Owned(x)' - Owned(x)) + k
                               + (leaked'[x] - leaked[x])
  <2>1. Grows(x, Weight(Top(t).op, l, Top(t).p, q, x) - TopWeight(t, x))
    BY Ranges, GotoGrows
  <2>2. Weight(Top(t).op, l, Top(t).p, q, x) - TopWeight(t, x) \in Int
    BY WeightTypes DEF TopWeight
  <2> QED BY <2>1, <2>2
<1> QED BY <1>1, Balances

LEMMA ReturnBalances ==
  ASSUME TInv, Counts, TInv', NEW t \in Thread, ~Idle(t), Return(t),
         refs' \in [Proc -> Int], leaked' \in [Proc -> Nat],
         \A x \in Proc : refs'[x] =
           refs[x] + (Owned(x)' - Owned(x)) - TopWeight(t, x)
             + (leaked'[x] - leaked[x])
  PROVE  Counts'
<1>1. ASSUME NEW x \in Proc
      PROVE  \E k \in Int :
               /\ Grows(x, k)
               /\ refs'[x] = refs[x] + (Owned(x)' - Owned(x)) + k
                               + (leaked'[x] - leaked[x])
  <2>1. Grows(x, - TopWeight(t, x))
    BY Ranges, ReturnGrows
  <2>2. TopWeight(t, x) \in Nat
    BY WeightTypes DEF TopWeight
  <2>3. refs[x] + (Owned(x)' - Owned(x)) - TopWeight(t, x) + (leaked'[x] - leaked[x])
        = refs[x] + (Owned(x)' - Owned(x)) + (- TopWeight(t, x)) + (leaked'[x] - leaked[x])
    <3>1. /\ refs[x] \in Int /\ leaked[x] \in Nat /\ Owned(x) \in Nat
          /\ leaked'[x] \in Nat
      BY Ranges
    <3>2. Owned(x)' \in Nat
      BY OwnedAfter
    <3> QED BY <2>2, <3>1, <3>2
  <2> QED BY <2>1, <2>2, <2>3
<1> QED BY <1>1, Balances

\* One owner outside the frames changes.
LEMMA TableSum ==
  ASSUME TInv, Counts, UNCHANGED <<held, session, parent, kids>>
  PROVE  \A x \in Proc : Owned(x)' - Owned(x) = InTable(x)' - InTable(x)
<1> SUFFICES ASSUME NEW x \in Proc
             PROVE  Owned(x)' - Owned(x) = InTable(x)' - InTable(x)
  OBVIOUS
<1>1. PICK b \in Int, c \in Int, d \in Int, e \in Int :
        b = InHeld(x) /\ c = InSession(x) /\ d = HasParent(x) /\ e = Len(kids[x])
  BY Ranges DEF InHeld, InSession, HasParent
<1>2. b = InHeld(x)' /\ c = InSession(x)' /\ d = HasParent(x)' /\ e = Len(kids'[x])
  BY <1>1 DEF InHeld, InSession, HasParent
<1>3. InTable(x) \in Int /\ InTable(x)' \in Int
  BY DEF InTable
<1>4. Owned(x) = InTable(x) + b + c + d + e /\ Owned(x)' = InTable(x)' + b + c + d + e
  BY <1>1, <1>2 DEF Owned
<1> QED BY <1>3, <1>4

LEMMA HeldSum ==
  ASSUME TInv, Counts, UNCHANGED <<table, session, parent, kids>>
  PROVE  \A x \in Proc : Owned(x)' - Owned(x) = InHeld(x)' - InHeld(x)
<1> SUFFICES ASSUME NEW x \in Proc
             PROVE  Owned(x)' - Owned(x) = InHeld(x)' - InHeld(x)
  OBVIOUS
<1>1. PICK b \in Int, c \in Int, d \in Int, e \in Int :
        b = InTable(x) /\ c = InSession(x) /\ d = HasParent(x) /\ e = Len(kids[x])
  BY Ranges DEF InTable, InSession, HasParent
<1>2. b = InTable(x)' /\ c = InSession(x)' /\ d = HasParent(x)' /\ e = Len(kids'[x])
  BY <1>1 DEF InTable, InSession, HasParent
<1>3. InHeld(x) \in Int /\ InHeld(x)' \in Int
  BY DEF InHeld
<1>4. Owned(x) = b + InHeld(x) + c + d + e /\ Owned(x)' = b + InHeld(x)' + c + d + e
  BY <1>1, <1>2 DEF Owned
<1> QED BY <1>3, <1>4

LEMMA SessionSum ==
  ASSUME TInv, Counts, UNCHANGED <<table, held, parent, kids>>
  PROVE  \A x \in Proc : Owned(x)' - Owned(x) = InSession(x)' - InSession(x)
<1> SUFFICES ASSUME NEW x \in Proc
             PROVE  Owned(x)' - Owned(x) = InSession(x)' - InSession(x)
  OBVIOUS
<1>1. PICK b \in Int, c \in Int, d \in Int, e \in Int :
        b = InTable(x) /\ c = InHeld(x) /\ d = HasParent(x) /\ e = Len(kids[x])
  BY Ranges DEF InTable, InHeld, HasParent
<1>2. b = InTable(x)' /\ c = InHeld(x)' /\ d = HasParent(x)' /\ e = Len(kids'[x])
  BY <1>1 DEF InTable, InHeld, HasParent
<1>3. InSession(x) \in Int /\ InSession(x)' \in Int
  BY DEF InSession
<1>4. Owned(x) = b + c + InSession(x) + d + e /\ Owned(x)' = b + c + InSession(x)' + d + e
  BY <1>1, <1>2 DEF Owned
<1> QED BY <1>3, <1>4

LEMMA InsertCounts ==
  ASSUME TInv, Counts, TInv', NEW t \in Thread, SpawnInsert(t)
  PROVE  Counts'
<1>0. /\ ~Idle(t) /\ Top(t).op = "spawn" /\ Top(t).at = "insert"
      /\ UNCHANGED <<held, session, parent, kids, leaked>>
      /\ refs \in [Proc -> Int] /\ leaked' \in [Proc -> Nat]
  BY DEF SpawnInsert, At, treeVars, Counts
<1>1. Depth(t) \in Levels(t) /\ FrameAt(t, Depth(t)) = Top(t)
  BY <1>0, Tops DEF TInv
<1>2. PICK p \in Proc, q \in AnyProc \cup {None} : p = Top(t).p /\ q = Top(t).q
  BY <1>0, Tops DEF TInv
<1>3. \A x \in Proc : TopWeight(t, x) = 0
  BY <1>0 DEF TopWeight, Weight, One
<1>4. CASE table' = table \cup {p} /\ refs' = Count(refs, p, 2) /\ Goto(t, "adopt", q)
  <2>1. p \notin table
    BY <1>0, <1>1, <1>2 DEF TInv, Births, Unborn
  <2>2. refs' \in [Proc -> Int]
        /\ \A x \in Proc : refs'[x] = refs[x] + (IF x = p THEN 2 ELSE 0)
    BY <1>0, <1>4, CountAdds
  <2>3. \A x \in Proc : Weight(Top(t).op, "adopt", Top(t).p, q, x) =
                          IF x = p THEN 1 ELSE 0
    BY <1>0, <1>2 DEF Weight, One
  <2>4. \A x \in Proc : Owned(x)' - Owned(x) = IF x = p THEN 1 ELSE 0
    <3>1. \A x \in Proc : Owned(x)' - Owned(x) = InTable(x)' - InTable(x)
      BY <1>0, TableSum
    <3>2. \A x \in Proc : InTable(x)' - InTable(x) = IF x = p THEN 1 ELSE 0
      BY <1>4, <2>1 DEF InTable
    <3> QED BY <3>1, <3>2
  <2>5. \A x \in Proc : refs[x] \in Int /\ leaked'[x] = leaked[x]
                        /\ leaked[x] \in Nat /\ Owned(x) \in Nat
    BY <1>0, Ranges
  <2>6. \A x \in Proc : refs'[x] =
          refs[x] + (Owned(x)' - Owned(x))
            + (Weight(Top(t).op, "adopt", Top(t).p, q, x) - TopWeight(t, x))
            + (leaked'[x] - leaked[x])
    BY <1>3, <2>2, <2>3, <2>4, <2>5
  <2> QED BY <1>0, <1>4, <2>2, <2>6, GotoBalances DEF Places
<1>5. CASE UNCHANGED <<table, refs>> /\ Return(t)
  <2>1. UNCHANGED <<ownVars, leaked>>
    BY <1>0, <1>5 DEF ownVars
  <2>2. \A x \in Proc : refs'[x] = refs[x] - TopWeight(t, x)
    BY <1>0, <1>3, <1>5
  <2> QED BY <1>0, <1>5, <2>1, <2>2, QuietReturns
<1> QED BY <1>2, <1>4, <1>5 DEF SpawnInsert, SpawnFailed

LEMMA AdoptCounts ==
  ASSUME TInv, Counts, TInv', NEW t \in Thread, SpawnAdopt(t)
  PROVE  Counts'
<1>0. /\ ~Idle(t) /\ Top(t).op = "spawn" /\ Top(t).at = "adopt"
      /\ UNCHANGED ownVars
      /\ refs \in [Proc -> Int] /\ leaked \in [Proc -> Nat]
  BY DEF SpawnAdopt, At, treeVars, Counts, ownVars, hostVars
<1>1. PICK p \in Proc, q \in AnyProc \cup {None} : p = Top(t).p /\ q = Top(t).q
  BY <1>0, Tops DEF TInv
<1>2. \A x \in Proc : TopWeight(t, x) = IF x = p THEN 1 ELSE 0
  BY <1>0, <1>1 DEF TopWeight, Weight, One
<1>3. CASE refs' = Count(refs, q, 1) /\ Goto(t, "contract", q) /\ UNCHANGED leaked
  <2>1. refs' \in [Proc -> Int]
        /\ \A x \in Proc : refs'[x] = refs[x] + (IF x = q THEN 1 ELSE 0)
    BY <1>0, <1>3, CountAdds
  <2>2. \A x \in Proc : Weight(Top(t).op, "contract", Top(t).p, q, x) =
                          (IF x = p THEN 1 ELSE 0) + (IF x = q THEN 1 ELSE 0)
    BY <1>0, <1>1 DEF Weight, One
  <2> QED BY <1>0, <1>2, <1>3, <2>1, <2>2, QuietGotos DEF Places
<1>4. CASE leaked' = Count(leaked, p, 1) /\ Goto(t, "undo", q) /\ UNCHANGED refs
  <2>1. /\ leaked' \in [Proc -> Nat]
        /\ \A x \in Proc : leaked'[x] = leaked[x] + (IF x = p THEN 1 ELSE 0)
    BY <1>0, <1>4 DEF Count
  <2>2. \A x \in Proc : Weight(Top(t).op, "undo", Top(t).p, q, x) = 0
    BY <1>0 DEF Weight, One
  <2>3. \A x \in Proc : refs[x] \in Int /\ Owned(x)' = Owned(x)
                        /\ leaked[x] \in Nat /\ Owned(x) \in Nat
    BY <1>0, Ranges DEF Owned, ownVars,
       InTable, InHeld, InSession, HasParent
  <2>4. \A x \in Proc : refs'[x] =
          refs[x] + (Owned(x)' - Owned(x))
            + (Weight(Top(t).op, "undo", Top(t).p, q, x) - TopWeight(t, x))
            + (leaked'[x] - leaked[x])
    BY <1>2, <1>4, <2>1, <2>2, <2>3
  <2> QED BY <1>0, <1>4, <2>1, <2>4, GotoBalances DEF Places
<1> QED BY <1>1, <1>3, <1>4 DEF SpawnAdopt

LEMMA ContractCounts ==
  ASSUME TInv, Counts, TInv', NEW t \in Thread, SpawnContract(t)
  PROVE  Counts'
<1>0. /\ ~Idle(t) /\ Top(t).op = "spawn" /\ Top(t).at = "contract"
      /\ UNCHANGED <<table, held, session>>
      /\ refs \in [Proc -> Int] /\ leaked \in [Proc -> Nat]
  BY DEF SpawnContract, At, Counts, hostVars
<1>1. Depth(t) \in Levels(t) /\ FrameAt(t, Depth(t)) = Top(t)
  BY <1>0, Tops DEF TInv
<1>2. PICK p \in Proc, q \in AnyProc \cup {None} : p = Top(t).p /\ q = Top(t).q
  BY <1>0, Tops DEF TInv
<1>3. q \in AnyProc /\ parent[p] = None
  BY <1>0, <1>1, <1>2 DEF TInv, Births, Spawns, Early
<1>4. \A x \in Proc : TopWeight(t, x) =
        (IF x = p THEN 1 ELSE 0) + (IF x = q THEN 1 ELSE 0)
  BY <1>0, <1>2 DEF TopWeight, Weight, One
<1>5. CASE /\ refs' = Count(refs, p, 1) /\ parent' = [parent EXCEPT ![p] = q]
           /\ kids' = [kids EXCEPT ![q] = Append(@, p)]
           /\ Goto(t, "ready", q) /\ UNCHANGED leaked
  <2>1. refs' \in [Proc -> Int]
        /\ \A x \in Proc : refs'[x] = refs[x] + (IF x = p THEN 1 ELSE 0)
    BY <1>0, <1>5, CountAdds
  <2>2. \A x \in Proc : Weight(Top(t).op, "ready", Top(t).p, q, x) =
                          IF x = p THEN 1 ELSE 0
    BY <1>0, <1>2 DEF Weight, One
  <2>3. /\ parent'[p] = q /\ q # None /\ \A x \in Proc : x # p => parent'[x] = parent[x]
        /\ \A x \in Proc : Len(kids'[x]) = Len(kids[x]) + (IF x = q THEN 1 ELSE 0)
    <3>1. q # None
      BY <1>3, ProcTreeAssumption DEF AnyProc
    <3>2. parent'[p] = q /\ \A x \in Proc : x # p => parent'[x] = parent[x]
      BY <1>5 DEF TInv, Data
    <3>3. kids[q] \in Seq(Proc) /\ Len(Append(kids[q], p)) = Len(kids[q]) + 1
      BY <1>3, AppendProperties DEF TInv, Data
    <3>4. \A x \in Proc : Len(kids[x]) \in Nat
      BY Ranges
    <3>5. kids'[q] = Append(kids[q], p) /\ \A x \in Proc : x # q => kids'[x] = kids[x]
      BY <1>3, <1>5 DEF TInv, Data, AnyProc
    <3>6. ASSUME NEW x \in Proc
          PROVE  Len(kids'[x]) = Len(kids[x]) + (IF x = q THEN 1 ELSE 0)
      <4>1. CASE x = q
        BY <3>3, <3>5, <4>1
      <4>2. CASE x # q
        BY <3>4, <3>5, <4>2
      <4> QED BY <4>1, <4>2
    <3> QED BY <3>1, <3>2, <3>6
  <2>4. ASSUME NEW x \in Proc
        PROVE  Owned(x)' = Owned(x) + (IF x = p THEN 1 ELSE 0) + (IF x = q THEN 1 ELSE 0)
    <3>1. Len(kids[x]) \in Nat
      BY Ranges
    <3>2. HasParent(x)' = HasParent(x) + (IF x = p THEN 1 ELSE 0)
      BY <1>3, <2>3 DEF HasParent
    <3>3. /\ InTable(x)' = InTable(x) + 0 /\ InHeld(x)' = InHeld(x) + 0
          /\ InSession(x)' = InSession(x) + 0
      BY <1>0 DEF InTable, InHeld, InSession
    <3>4. Len(kids'[x]) = Len(kids[x]) + (IF x = q THEN 1 ELSE 0)
      BY <2>3
    <3>5. PICK k \in Int, m \in Int :
            k = (IF x = p THEN 1 ELSE 0) /\ m = (IF x = q THEN 1 ELSE 0)
      OBVIOUS
    <3>6. HasParent(x)' = HasParent(x) + k /\ Len(kids'[x]) = Len(kids[x]) + m
          /\ 0 \in Int
      BY <3>2, <3>4, <3>5
    <3>7. Owned(x)' = Owned(x) + (0 + 0 + 0 + k + m)
      BY <3>1, <3>3, <3>6, OwnedSum
    <3>8. Owned(x) \in Nat
      BY Ranges
    <3> QED BY <3>5, <3>7, <3>8
  <2>5. \A x \in Proc : refs[x] \in Int /\ leaked'[x] = leaked[x]
                        /\ leaked[x] \in Nat /\ Owned(x) \in Nat
    BY <1>5, Ranges
  <2>6. \A x \in Proc : refs'[x] =
          refs[x] + (Owned(x)' - Owned(x))
            + (Weight(Top(t).op, "ready", Top(t).p, q, x) - TopWeight(t, x))
            + (leaked'[x] - leaked[x])
    BY <1>4, <2>1, <2>2, <2>4, <2>5
  <2> QED BY <1>0, <1>5, <2>1, <2>6, GotoBalances DEF Places
<1>6. CASE /\ refs' = Count(refs, p, -1) /\ leaked' = Count(leaked, q, 1)
           /\ Goto(t, "undo", q) /\ UNCHANGED treeVars
  <2>1. refs' \in [Proc -> Int]
        /\ \A x \in Proc : refs'[x] = refs[x] + (IF x = p THEN -1 ELSE 0)
    BY <1>0, <1>6, CountAdds
  <2>2. /\ leaked' \in [Proc -> Nat]
        /\ \A x \in Proc : leaked'[x] = leaked[x] + (IF x = q THEN 1 ELSE 0)
    <3>1. CASE q \in Proc
      BY <1>0, <1>6, <3>1 DEF Count
    <3>2. CASE q \notin Proc
      BY <1>0, <1>6, <3>2 DEF Count
    <3> QED BY <3>1, <3>2
  <2>3. \A x \in Proc : Weight(Top(t).op, "undo", Top(t).p, q, x) = 0
    BY <1>0 DEF Weight, One
  <2>4. \A x \in Proc : refs[x] \in Int /\ Owned(x)' = Owned(x)
                        /\ leaked[x] \in Nat /\ Owned(x) \in Nat
    BY <1>0, <1>6, Ranges DEF Owned, treeVars,
       InTable, InHeld, InSession, HasParent
  <2>5. \A x \in Proc : refs'[x] =
          refs[x] + (Owned(x)' - Owned(x))
            + (Weight(Top(t).op, "undo", Top(t).p, q, x) - TopWeight(t, x))
            + (leaked'[x] - leaked[x])
    BY <1>4, <2>1, <2>2, <2>3, <2>4
  <2> QED BY <1>0, <1>6, <2>1, <2>2, <2>5, GotoBalances DEF Places
<1> QED BY <1>2, <1>5, <1>6 DEF SpawnContract

LEMMA UndoCounts ==
  ASSUME TInv, Counts, TInv', NEW t \in Thread, SpawnUndo(t)
  PROVE  Counts'
<1>0. /\ ~Idle(t) /\ Top(t).op = "spawn" /\ Top(t).at = "undo" /\ Return(t)
      /\ UNCHANGED <<held, session, parent, kids, leaked>>
      /\ refs \in [Proc -> Int] /\ leaked' \in [Proc -> Nat]
  BY DEF SpawnUndo, SpawnFailed, At, treeVars, Counts
<1>1. PICK p \in Proc : p = Top(t).p
  BY <1>0, Tops DEF TInv
<1>2. /\ table' = table \ {p}
      /\ refs' = IF p \in table THEN Count(refs, p, -1) ELSE refs
  BY <1>1 DEF SpawnUndo, Remove
<1>3. \A x \in Proc : TopWeight(t, x) = 0
  BY <1>0 DEF TopWeight, Weight, One
<1>4. /\ refs' \in [Proc -> Int]
      /\ \A x \in Proc : refs'[x] = refs[x] + (InTable(x)' - InTable(x))
  <2>1. CASE p \in table
    <3>1. refs' \in [Proc -> Int]
          /\ \A x \in Proc : refs'[x] = refs[x] + (IF x = p THEN -1 ELSE 0)
      BY <1>0, <1>2, <2>1, CountAdds
    <3>2. \A x \in Proc : InTable(x)' - InTable(x) = IF x = p THEN -1 ELSE 0
      BY <1>2, <2>1 DEF InTable
    <3> QED BY <3>1, <3>2
  <2>2. CASE p \notin table
    <3>1. refs' = refs /\ table' = table
      BY <1>2, <2>2
    <3>2. \A x \in Proc : InTable(x)' - InTable(x) = 0
      BY <3>1 DEF InTable
    <3> QED BY <1>0, <3>1, <3>2
  <2> QED BY <2>1, <2>2
<1>5. \A x \in Proc : Owned(x)' - Owned(x) = InTable(x)' - InTable(x)
  BY <1>0, TableSum
<1>6. \A x \in Proc : refs[x] \in Int /\ leaked'[x] = leaked[x] /\ leaked[x] \in Nat
                      /\ InTable(x)' - InTable(x) \in Int
  BY <1>0, Ranges DEF InTable
<1>7. \A x \in Proc : refs'[x] =
        refs[x] + (Owned(x)' - Owned(x)) - TopWeight(t, x) + (leaked'[x] - leaked[x])
  BY <1>3, <1>4, <1>5, <1>6
<1> QED BY <1>0, <1>4, <1>7, ReturnBalances

LEMMA RemoveCounts ==
  ASSUME TInv, Counts, TInv', NEW t \in Thread, ReapRemove(t)
  PROVE  Counts'
<1>0. /\ ~Idle(t) /\ Top(t).op = "reap" /\ Top(t).at = "remove" /\ Return(t)
      /\ UNCHANGED <<held, session, parent, kids, leaked>>
      /\ refs \in [Proc -> Int] /\ leaked' \in [Proc -> Nat]
  BY DEF ReapRemove, At, treeVars, Counts
<1>1. PICK p \in Proc : p = Top(t).p
  BY <1>0, Tops DEF TInv
<1>2. PICK r : r = Count(refs, p, -1)
  OBVIOUS
<1>3. /\ table' = table \ {p}
      /\ refs' = IF p \in table THEN Count(r, p, -1) ELSE r
  BY <1>1, <1>2 DEF ReapRemove, Remove
<1>4. \A x \in Proc : TopWeight(t, x) = IF x = p THEN 1 ELSE 0
  BY <1>0, <1>1, ProcTreeAssumption DEF TopWeight, Weight, One
<1>5. /\ r \in [Proc -> Int]
      /\ \A x \in Proc : r[x] = refs[x] + (IF x = p THEN -1 ELSE 0)
  BY <1>0, <1>2, CountAdds
<1>6. /\ refs' \in [Proc -> Int]
      /\ \A x \in Proc : refs'[x] = r[x] + (InTable(x)' - InTable(x))
  <2>1. CASE p \in table
    <3>1. refs' \in [Proc -> Int]
          /\ \A x \in Proc : refs'[x] = r[x] + (IF x = p THEN -1 ELSE 0)
      BY <1>3, <1>5, <2>1, CountAdds
    <3>2. \A x \in Proc : InTable(x)' - InTable(x) = IF x = p THEN -1 ELSE 0
      BY <1>3, <2>1 DEF InTable
    <3> QED BY <3>1, <3>2
  <2>2. CASE p \notin table
    <3>1. refs' = r /\ table' = table
      BY <1>3, <2>2
    <3>2. \A x \in Proc : InTable(x)' - InTable(x) = 0
      BY <3>1 DEF InTable
    <3>3. \A x \in Proc : r[x] \in Int
      BY <1>5
    <3> QED BY <1>5, <3>1, <3>2, <3>3
  <2> QED BY <2>1, <2>2
<1>7. \A x \in Proc : Owned(x)' - Owned(x) = InTable(x)' - InTable(x)
  BY <1>0, TableSum
<1>8. \A x \in Proc : refs[x] \in Int /\ leaked'[x] = leaked[x] /\ leaked[x] \in Nat
                      /\ InTable(x)' - InTable(x) \in Int
  BY <1>0, Ranges DEF InTable
<1>9. \A x \in Proc : refs'[x] =
        refs[x] + (Owned(x)' - Owned(x)) - TopWeight(t, x) + (leaked'[x] - leaked[x])
  BY <1>4, <1>5, <1>6, <1>7, <1>8
<1> QED BY <1>0, <1>6, <1>9, ReturnBalances

LEMMA ReadyCounts ==
  ASSUME TInv, Counts, TInv', NEW t \in Thread, SpawnReady(t)
  PROVE  Counts'
<1>0. /\ ~Idle(t) /\ Top(t).op = "spawn" /\ Top(t).at = "ready"
      /\ UNCHANGED <<table, session, parent, kids, leaked>> /\ refs' = refs
      /\ refs \in [Proc -> Int] /\ leaked' \in [Proc -> Nat]
  BY DEF SpawnReady, At, treeVars, objVars, Counts
<1>1. Depth(t) \in Levels(t) /\ FrameAt(t, Depth(t)) = Top(t)
  BY <1>0, Tops DEF TInv
<1>2. PICK p \in Proc, q \in AnyProc \cup {None} : p = Top(t).p /\ q = Top(t).q
  BY <1>0, Tops DEF TInv
<1>3. p \notin held /\ held' = held \cup {p} /\ Goto(t, "register", q)
  BY <1>0, <1>1, <1>2 DEF TInv, Spawns, SpawnReady
<1>4. \A x \in Proc : TopWeight(t, x) = IF x = p THEN 1 ELSE 0
  BY <1>0, <1>2 DEF TopWeight, Weight, One
<1>5. \A x \in Proc : Weight(Top(t).op, "register", Top(t).p, q, x) = 0
  BY <1>0 DEF Weight, One
<1>6. \A x \in Proc : Owned(x)' - Owned(x) = InHeld(x)' - InHeld(x)
  BY <1>0, HeldSum
<1>7. \A x \in Proc : InHeld(x)' - InHeld(x) = IF x = p THEN 1 ELSE 0
  BY <1>3 DEF InHeld
<1>8. \A x \in Proc : refs[x] \in Int /\ leaked'[x] = leaked[x] /\ leaked[x] \in Nat
  BY <1>0, Ranges
<1>9. \A x \in Proc : refs'[x] =
        refs[x] + (Owned(x)' - Owned(x))
          + (Weight(Top(t).op, "register", Top(t).p, q, x) - TopWeight(t, x))
          + (leaked'[x] - leaked[x])
  BY <1>0, <1>4, <1>5, <1>6, <1>7, <1>8
<1> QED BY <1>0, <1>3, <1>9, GotoBalances DEF Places

LEMMA UnlinkCounts ==
  ASSUME TInv, Counts, TInv', NEW t \in Thread, ReapUnlink(t)
  PROVE  Counts'
<1>0. /\ ~Idle(t) /\ Top(t).op = "reap" /\ Top(t).at = "unlink"
      /\ Goto(t, "remove", None)
      /\ UNCHANGED <<table, held, session, leaked>>
      /\ refs \in [Proc -> Int] /\ leaked' \in [Proc -> Nat]
  BY DEF ReapUnlink, At, hostVars, Counts
<1>1. Depth(t) \in Levels(t) /\ FrameAt(t, Depth(t)) = Top(t)
  BY <1>0, Tops DEF TInv
<1>2. PICK p \in Proc, q \in AnyProc \cup {None} : p = Top(t).p /\ q = Top(t).q
  BY <1>0, Tops DEF TInv
<1>3. parent[p] = q /\ q # None /\ q \in AnyProc
  BY <1>0, <1>1, <1>2 DEF TInv, Reaps, Locked
<1>4. PICK r : r = Count(refs, p, -1)
  OBVIOUS
<1>5. /\ refs' = Count(r, q, -2) /\ parent' = [parent EXCEPT ![p] = None]
      /\ kids' = [kids EXCEPT ![q] = SubSeq([@ EXCEPT ![idx[p] + 1] = LastKid(q)],
                                            1, Len(kids[q]) - 1)]
  BY <1>2, <1>4 DEF ReapUnlink, EndContract
<1>6. /\ r \in [Proc -> Int]
      /\ \A x \in Proc : r[x] = refs[x] + (IF x = p THEN -1 ELSE 0)
  BY <1>0, <1>4, CountAdds
<1>7. /\ refs' \in [Proc -> Int]
      /\ \A x \in Proc : refs'[x] = r[x] + (IF x = q THEN -2 ELSE 0)
  BY <1>5, <1>6, CountAdds
<1>8. /\ \A x \in Proc : TopWeight(t, x) =
           (IF x = p THEN 1 ELSE 0) + (IF x = q THEN 1 ELSE 0)
      /\ \A x \in Proc : Weight(Top(t).op, "remove", Top(t).p, None, x) =
           IF x = p THEN 1 ELSE 0
  BY <1>0, <1>2, ProcTreeAssumption DEF TopWeight, Weight, One
<1>9. \A x \in Proc : Len(kids'[x]) = Len(kids[x]) + (IF x = q THEN -1 ELSE 0)
  <2>1. /\ kids[q] \in Seq(Proc) /\ Len(kids[q]) \in Nat
        /\ idx[p] + 1 \in 1 .. Len(kids[q])
    <3>1. PICK i \in 1 .. Len(kids[q]) : kids[q][i] = p
      BY <1>3 DEF TInv, ContractSymmetric
    <3>2. idx[p] = i - 1
      BY <1>3, <3>1 DEF TInv, ContractSymmetric
    <3>3. kids[q] \in Seq(Proc) /\ Len(kids[q]) \in Nat
      BY <1>3, LenProperties DEF TInv, Data
    <3> QED BY <3>2, <3>3
  <2>2. Len(kids[q]) > 0
    BY <2>1
  <2> DEFINE s == [kids[q] EXCEPT ![idx[p] + 1] = LastKid(q)]
  <2>3. LastKid(q) \in Proc
    BY <2>1, <2>2, ElementOfSeq DEF LastKid
  <2>4. s \in Seq(Proc) /\ Len(s) = Len(kids[q])
    BY <2>1, <2>3, ExceptSeq
  <2>5. kids'[q] = SubSeq(s, 1, Len(kids[q]) - 1)
        /\ \A x \in Proc : x # q => kids'[x] = kids[x]
    BY <1>3, <1>5 DEF TInv, Data, AnyProc
  <2> HIDE DEF s
  <2>6. Len(kids'[q]) = Len(kids[q]) - 1
    BY <2>1, <2>2, <2>4, <2>5, SubSeqProperties
  <2>7. \A x \in Proc : Len(kids[x]) \in Nat
    BY Ranges
  <2>8. ASSUME NEW x \in Proc
        PROVE  Len(kids'[x]) = Len(kids[x]) + (IF x = q THEN -1 ELSE 0)
    <3>1. CASE x = q
      BY <2>1, <2>6, <3>1
    <3>2. CASE x # q
      BY <2>5, <2>7, <3>2
    <3> QED BY <3>1, <3>2
  <2> QED BY <2>8
<1>10. ASSUME NEW x \in Proc
       PROVE  Owned(x)' = Owned(x) + (IF x = p THEN -1 ELSE 0)
                                   + (IF x = q THEN -1 ELSE 0)
  <2>1. Len(kids[x]) \in Nat
    BY Ranges
  <2>2. parent'[x] = IF x = p THEN None ELSE parent[x]
    BY <1>5 DEF TInv, Data
  <2>3. HasParent(x)' = HasParent(x) + (IF x = p THEN -1 ELSE 0)
    BY <1>3, <2>2 DEF HasParent
  <2>4. /\ InTable(x)' = InTable(x) + 0 /\ InHeld(x)' = InHeld(x) + 0
        /\ InSession(x)' = InSession(x) + 0
    BY <1>0 DEF InTable, InHeld, InSession
  <2>5. PICK k \in Int, m \in Int :
          k = (IF x = p THEN -1 ELSE 0) /\ m = (IF x = q THEN -1 ELSE 0)
    OBVIOUS
  <2>6. HasParent(x)' = HasParent(x) + k /\ Len(kids'[x]) = Len(kids[x]) + m
        /\ 0 \in Int
    <3>1. HasParent(x)' = HasParent(x) + k
      BY <2>3, <2>5
    <3>2. Len(kids'[x]) = Len(kids[x]) + m
      BY <1>9, <2>5
    <3> QED BY <3>1, <3>2
  <2>7. Owned(x)' = Owned(x) + (0 + 0 + 0 + k + m)
    BY <2>1, <2>4, <2>6, OwnedSum
  <2>8. Owned(x) \in Nat
    BY Ranges
  <2> QED BY <2>5, <2>7, <2>8
<1>11. \A x \in Proc : refs[x] \in Int /\ leaked'[x] = leaked[x]
                       /\ leaked[x] \in Nat /\ Owned(x) \in Nat
  BY <1>0, Ranges
<1>12. \A x \in Proc : refs'[x] =
         refs[x] + (Owned(x)' - Owned(x))
           + (Weight(Top(t).op, "remove", Top(t).p, None, x) - TopWeight(t, x))
           + (leaked'[x] - leaked[x])
  BY <1>6, <1>7, <1>8, <1>10, <1>11
<1> QED BY <1>0, <1>7, <1>12, GotoBalances DEF Places

LEMMA ExitBeginCounts ==
  ASSUME TInv, Counts, TInv', NEW t \in Thread, NEW p \in Proc, ExitBegin(t, p)
  PROVE  Counts'
<1>0. /\ UNCHANGED <<table, session, parent, kids, leaked>> /\ refs' = refs
      /\ refs \in [Proc -> Int] /\ leaked' \in [Proc -> Nat]
  BY DEF ExitBegin, objVars, treeVars, Counts
<1>1. CASE p \in held /\ held' = held \ {p} /\ Start(t, Frame("exit", "status", p, None))
  <2>1. \A x \in Proc : Weight("exit", "status", p, None, x) = IF x = p THEN 1 ELSE 0
    BY ProcTreeAssumption DEF Weight, One
  <2>2. \A x \in Proc : Owned(x)' - Owned(x) = InHeld(x)' - InHeld(x)
    BY <1>0, HeldSum
  <2>3. \A x \in Proc : InHeld(x)' - InHeld(x) = IF x = p THEN -1 ELSE 0
    BY <1>1 DEF InHeld
  <2>4. \A x \in Proc : refs[x] \in Int /\ leaked'[x] = leaked[x]
                        /\ leaked[x] \in Nat
    BY <1>0, Ranges
  <2>5. ASSUME NEW x \in Proc
        PROVE  \E k \in Int :
                 /\ Grows(x, k)
                 /\ refs'[x] = refs[x] + (Owned(x)' - Owned(x)) + k
                                 + (leaked'[x] - leaked[x])
    <3>1. Grows(x, Weight("exit", "status", p, None, x))
      BY <1>1, Ranges, StartGrows DEF Start, Places
    <3>2. /\ Weight("exit", "status", p, None, x) \in Int
          /\ refs'[x] = refs[x] + (Owned(x)' - Owned(x))
                          + Weight("exit", "status", p, None, x)
                          + (leaked'[x] - leaked[x])
      BY <1>0, <2>1, <2>2, <2>3, <2>4
    <3> QED BY <3>1, <3>2
  <2> QED BY <1>0, <2>5, Balances
<1>2. CASE UNCHANGED <<held, stack>>
  <2>1. UNCHANGED <<ownVars, leaked>>
    BY <1>0, <1>2 DEF ownVars
  <2>2. \A x \in Proc : Grows(x, 0) /\ refs'[x] = refs[x] + 0
    BY <1>0, <1>2, Ranges, StillGrows
  <2> QED BY <1>0, <2>1, <2>2, QuietBalances
<1> QED BY <1>1, <1>2 DEF ExitBegin

LEMMA SessionCounts ==
  ASSUME TInv, Counts, TInv', NEW q \in Proc, OpenSession(q) \/ CloseSession(q)
  PROVE  Counts'
<1>0. /\ UNCHANGED <<table, held, parent, kids, leaked, stack>>
      /\ refs \in [Proc -> Int] /\ leaked' \in [Proc -> Nat]
  BY DEF OpenSession, CloseSession, treeVars, hostVars, Counts
<1>1. PICK n \in Int :
        /\ refs' = Count(refs, q, n)
        /\ \A x \in Proc : InSession(x)' - InSession(x) = IF x = q THEN n ELSE 0
  <2>1. CASE OpenSession(q)
    <3>1. q \notin session /\ session' = session \cup {q} /\ refs' = Count(refs, q, 1)
      BY <2>1 DEF OpenSession
    <3>2. \A x \in Proc : InSession(x)' - InSession(x) = IF x = q THEN 1 ELSE 0
      BY <3>1 DEF InSession
    <3> QED BY <3>1, <3>2
  <2>2. CASE CloseSession(q)
    <3>1. q \in session /\ session' = session \ {q} /\ refs' = Count(refs, q, -1)
      BY <2>2 DEF CloseSession
    <3>2. \A x \in Proc : InSession(x)' - InSession(x) = IF x = q THEN -1 ELSE 0
      BY <3>1 DEF InSession
    <3> QED BY <3>1, <3>2
  <2> QED BY <2>1, <2>2
<1>2. /\ refs' \in [Proc -> Int]
      /\ \A x \in Proc : refs'[x] = refs[x] + (IF x = q THEN n ELSE 0)
  BY <1>0, <1>1, CountAdds
<1>3. \A x \in Proc : Owned(x)' - Owned(x) = InSession(x)' - InSession(x)
  BY <1>0, SessionSum
<1>4. ASSUME NEW x \in Proc
      PROVE  \E k \in Int :
               /\ Grows(x, k)
               /\ refs'[x] = refs[x] + (Owned(x)' - Owned(x)) + k
                               + (leaked'[x] - leaked[x])
  <2>1. Grows(x, 0)
    BY <1>0, Ranges, StillGrows
  <2>2. refs[x] \in Int /\ leaked[x] \in Nat /\ leaked'[x] = leaked[x]
    BY <1>0, Ranges
  <2>3. refs'[x] = refs[x] + (Owned(x)' - Owned(x)) + 0 + (leaked'[x] - leaked[x])
    BY <1>1, <1>2, <1>3, <2>2
  <2> QED BY <2>1, <2>3
<1> QED BY <1>0, <1>2, <1>4, Balances

LEMMA IdleCounts ==
  ASSUME TInv, Counts, TInv', UNCHANGED <<ownVars, leaked, refs, stack>>
  PROVE  Counts'
<1>1. refs' \in [Proc -> Int]
  BY DEF Counts
<1>2. \A x \in Proc : Grows(x, 0) /\ refs'[x] = refs[x] + 0
  BY Ranges, StillGrows
<1> QED BY <1>1, <1>2, QuietBalances

-----------------------------------------------------------------------------
(* The invariant                                                           *)

LEMMA CountStart == Init => CInv
<1> SUFFICES ASSUME Init PROVE CInv
  OBVIOUS
<1>1. TInv
  BY Initially
<1>2. \A t \in Thread : Levels(t) = {}
  BY DEF Init, Levels
<1>3. ASSUME NEW x \in Proc PROVE FramesHolding(x) = {}
  <2>1. UNION {{t} \X Levels(t) \X {"p", "p2", "q"} : t \in Thread} = {}
    <3>1. \A t \in Thread : {t} \X Levels(t) \X {"p", "p2", "q"} = {}
      BY <1>2
    <3> QED BY <3>1
  <2> QED BY <2>1 DEF FramesHolding
<1>4. ASSUME NEW x \in Proc
      PROVE  IsFiniteSet(FramesHolding(x)) /\ Cardinality(FramesHolding(x)) = 0
  BY <1>3, FS_EmptySet
<1>5. ASSUME NEW x \in Proc PROVE Owned(x) = 0
  <2>1. Len(kids[x]) = 0
    BY DEF Init, AnyProc
  <2>2. InTable(x) = 0 /\ InHeld(x) = 0 /\ InSession(x) = 0 /\ HasParent(x) = 0
    BY DEF Init, InTable, InHeld, InSession, HasParent
  <2> QED BY <2>1, <2>2 DEF Owned
<1>6. /\ refs \in [Proc -> Int] /\ leaked \in [Proc -> Nat]
      /\ \A x \in Proc : refs[x] = 0 /\ leaked[x] = 0
  BY DEF Init
<1>7. Counts
  BY <1>4, <1>5, <1>6 DEF Counts
<1> QED BY <1>1, <1>7 DEF CInv

LEMMA CountStep == CInv /\ [Next]_vars => CInv'
<1> SUFFICES ASSUME TInv, Counts, [Next]_vars PROVE TInv' /\ Counts'
  BY DEF CInv
<1>0. TInv'
  BY Inductive
<1>1. ASSUME NEW t \in Thread, Continue(t) PROVE Counts'
  <2>1. CASE SpawnInsert(t) \/ SpawnAdopt(t) \/ SpawnContract(t) \/ SpawnUndo(t)
             \/ SpawnReady(t) \/ SpawnRegister(t)
    BY <1>0, <2>1, InsertCounts, AdoptCounts, ContractCounts, UndoCounts,
       ReadyCounts, RegisterCounts
  <2>2. CASE ReapBegin(t) \/ KillChild(t) \/ DropChild(t) \/ ReapParent(t)
             \/ ReapUnlink(t) \/ ReapRemove(t)
    BY <1>0, <2>2, ReapBeginCounts, KillCounts, DropCounts, ReapParentCounts,
       UnlinkCounts, RemoveCounts
  <2>3. CASE ExitStatus(t) \/ ExitRetain(t) \/ ExitKids(t) \/ ExitMark(t)
             \/ ExitNotify(t) \/ ExitLeave(t) \/ WaitDone(t)
    BY <1>0, <2>3, ExitStatusCounts, ExitRetainCounts, ExitKidsCounts,
       ExitMarkCounts, ExitNotifyCounts, ExitLeaveCounts, WaitDoneCounts
  <2> QED BY <1>1, <2>1, <2>2, <2>3 DEF Continue
<1>2. ASSUME NEW t \in Thread, Call(t) PROVE Counts'
  BY <1>0, <1>2, LaunchCounts, WaitReapCounts DEF Call
<1>3. ASSUME NEW t \in Thread, NEW p \in Proc, ExitBegin(t, p) PROVE Counts'
  BY <1>0, <1>3, ExitBeginCounts
<1>4. ASSUME NEW p \in Proc, OpenSession(p) \/ CloseSession(p) PROVE Counts'
  BY <1>0, <1>4, SessionCounts
<1>5. ASSUME NEW p \in Proc, HostDies(p) PROVE Counts'
  <2>1. UNCHANGED <<ownVars, leaked, refs, stack>>
    BY <1>5 DEF HostDies, objVars, treeVars, ownVars
  <2> QED BY <1>0, <2>1, IdleCounts
<1>6. CASE UNCHANGED kernVars
  <2>1. UNCHANGED <<ownVars, leaked, refs, stack>>
    BY <1>6 DEF kernVars, ownVars
  <2> QED BY <1>0, <2>1, IdleCounts
<1> QED BY <1>0, <1>1, <1>2, <1>3, <1>4, <1>5, <1>6 DEF Next, Rest, Jam, vars

\* The set of owners that Entitled counts, one by one.
LEMMA Owners ==
  ASSUME NEW x
  PROVE  Cardinality({s \in {"table", "held", "session", "child"} :
                        \/ s = "table" /\ x \in table
                        \/ s = "held" /\ x \in held
                        \/ s = "session" /\ x \in session
                        \/ s = "child" /\ parent[x] # None})
           = One(x \in table) + One(x \in held)
               + One(x \in session) + One(parent[x] # None)
<1> DEFINE E == {}
           A == E \cup {s \in {"table"} : x \in table}
           B == A \cup {s \in {"held"} : x \in held}
           C == B \cup {s \in {"session"} : x \in session}
           D == C \cup {s \in {"child"} : parent[x] # None}
<1>0. IsFiniteSet(E) /\ Cardinality(E) = 0
  BY FS_EmptySet
<1>1. /\ IsFiniteSet(A)
      /\ Cardinality(A) = Cardinality(E) - One("table" \in E) + One("table" \in A)
  <2>1. \A e : e # "table" => (e \in E <=> e \in A)
    OBVIOUS
  <2> HIDE DEF E, A
  <2> QED BY <1>0, <2>1, ChangeOne
<1>2. /\ IsFiniteSet(B)
      /\ Cardinality(B) = Cardinality(A) - One("held" \in A) + One("held" \in B)
  <2>1. \A e : e # "held" => (e \in A <=> e \in B)
    OBVIOUS
  <2> HIDE DEF A, B
  <2> QED BY <1>1, <2>1, ChangeOne
<1>3. /\ IsFiniteSet(C)
      /\ Cardinality(C) = Cardinality(B) - One("session" \in B) + One("session" \in C)
  <2>1. \A e : e # "session" => (e \in B <=> e \in C)
    OBVIOUS
  <2> HIDE DEF B, C
  <2> QED BY <1>2, <2>1, ChangeOne
<1>4. /\ IsFiniteSet(D)
      /\ Cardinality(D) = Cardinality(C) - One("child" \in C) + One("child" \in D)
  <2>1. \A e : e # "child" => (e \in C <=> e \in D)
    OBVIOUS
  <2> HIDE DEF C, D
  <2> QED BY <1>3, <2>1, ChangeOne
<1>5. /\ "table" \notin E /\ ("table" \in A <=> x \in table)
      /\ "held" \notin A /\ ("held" \in B <=> x \in held)
      /\ "session" \notin B /\ ("session" \in C <=> x \in session)
      /\ "child" \notin C /\ ("child" \in D <=> parent[x] # None)
  OBVIOUS
<1>6. {s \in {"table", "held", "session", "child"} :
                        \/ s = "table" /\ x \in table
                        \/ s = "held" /\ x \in held
                        \/ s = "session" /\ x \in session
                        \/ s = "child" /\ parent[x] # None} = D
  OBVIOUS
<1> HIDE DEF A, B, C, D, E
<1> QED BY <1>0, <1>1, <1>2, <1>3, <1>4, <1>5, <1>6 DEF One

LEMMA EntitledOwned ==
  ASSUME TInv, Counts, NEW x \in Proc
  PROVE  Entitled(x) = Owned(x) + Cardinality(FramesHolding(x))
<1>1. PICK a \in Int, b \in Int, c \in Int, d \in Int :
        /\ a = One(x \in table) /\ b = One(x \in held)
        /\ c = One(x \in session) /\ d = One(parent[x] # None)
  BY DEF One
<1>2. a = InTable(x) /\ b = InHeld(x) /\ c = InSession(x) /\ d = HasParent(x)
  BY <1>1 DEF One, InTable, InHeld, InSession, HasParent
<1>3. Entitled(x) = (a + b + c + d) + Len(kids[x]) + Cardinality(FramesHolding(x))
  <2> DEFINE S == {s \in {"table", "held", "session", "child"} :
                     \/ s = "table" /\ x \in table
                     \/ s = "held" /\ x \in held
                     \/ s = "session" /\ x \in session
                     \/ s = "child" /\ parent[x] # None}
  <2>1. Cardinality(S) = One(x \in table) + One(x \in held)
                           + One(x \in session) + One(parent[x] # None)
    BY Owners
  <2>2. Entitled(x) = Cardinality(S) + Len(kids[x]) + Cardinality(FramesHolding(x))
    BY DEF Entitled
  <2> HIDE DEF S
  <2> QED BY <1>1, <2>1, <2>2
<1>4. Owned(x) = a + b + c + d + Len(kids[x])
  BY <1>2 DEF Owned
<1> QED BY <1>3, <1>4, Ranges

LEMMA CountExactly == CInv => CountExact
<1> SUFFICES ASSUME TInv, Counts, NEW x \in Proc
             PROVE  refs[x] = Entitled(x) + leaked[x]
  BY DEF CInv, CountExact
<1> QED BY EntitledOwned DEF Counts

\* What Jam adds is a process or the table.
Jams == jam \subseteq AnyProc \cup {"table"}

LEMMA JamStep == Jams /\ [Next]_vars => Jams'
BY DEF Jams, Next, Rest, Jam, vars

LEMMA Typed == CInv /\ Jams => TypeOK
<1> SUFFICES ASSUME TInv, Counts, Jams PROVE TypeOK
  BY DEF CInv
<1>1. ASSUME NEW x \in Proc PROVE refs[x] \in Nat
  BY Ranges DEF Counts
<1>2. refs \in [Proc -> Nat] /\ leaked \in [Proc -> Nat]
  BY <1>1 DEF Counts
<1> QED BY <1>2 DEF TInv, Data, Stacks, Jams, TypeOK

\* Every reference is accounted for, on every level of every stack.
THEOREM Counted == Spec => []CInv
<1> QED BY CountStart, CountStep, PTL DEF Spec

\* The counter of a process is at every moment what its holders are entitled
\* to and what the failure paths of proc_spawn gave up: no release comes early
\* and nothing else leaks, whatever the number of threads and processes.
THEOREM CountsAreExact == Spec => []CountExact
<1> QED BY CountExactly, Counted, PTL

\* The variables have their types; that a counter never goes below zero rests
\* on its exactness.
THEOREM Typing == Spec => []TypeOK
<1>1. Init => Jams
  BY DEF Init, Jams
<1> QED BY <1>1, JamStep, Typed, Counted, PTL DEF Spec

-----------------------------------------------------------------------------
(* The references that keep what an operation is busy with                 *)

\* The counter is positive for what some frame owns,
LEMMA KeptByFrame ==
  ASSUME CInv, NEW x \in Proc, NEW u \in Thread, NEW n \in Levels(u),
         NEW r \in Reason, Holds(FrameAt(u, n), r, x)
  PROVE  refs[x] > 0
<1>1. <<u, n, r>> \in FramesHolding(x)
  BY Members DEF MembersHold, HoldsAt
<1>2. IsFiniteSet(FramesHolding(x)) /\ FramesHolding(x) # {}
  BY <1>1 DEF CInv, Counts
<1>3. Cardinality(FramesHolding(x)) \in Nat /\ Cardinality(FramesHolding(x)) # 0
  BY <1>2, FS_CardinalityType, FS_EmptySet
<1>4. Owned(x) \in Nat /\ leaked[x] \in Nat
  BY Ranges DEF CInv
<1>5. refs[x] = Owned(x) + Cardinality(FramesHolding(x)) + leaked[x]
  BY DEF CInv, Counts
<1> QED BY <1>3, <1>4, <1>5

\* and for what is in the table or has a session.
LEMMA KeptOutside ==
  ASSUME CInv, NEW x \in Proc, x \in table \/ x \in session
  PROVE  refs[x] > 0
<1>1. /\ InTable(x) \in Nat /\ InHeld(x) \in Nat /\ InSession(x) \in Nat
      /\ HasParent(x) \in Nat /\ Len(kids[x]) \in Nat
      /\ InTable(x) + InSession(x) > 0
  <2>1. Len(kids[x]) \in Nat
    BY Ranges DEF CInv
  <2> QED BY <2>1 DEF InTable, InHeld, InSession, HasParent
<1>2. Owned(x) > 0 /\ Owned(x) \in Nat
  BY <1>1 DEF Owned
<1>3. Cardinality(FramesHolding(x)) \in Nat /\ leaked[x] \in Nat
  BY Ranges DEF CInv
<1>4. refs[x] = Owned(x) + Cardinality(FramesHolding(x)) + leaked[x]
  BY DEF CInv, Counts
<1> QED BY <1>2, <1>3, <1>4

LEMMA KeptInUse ==
  ASSUME CInv, Order, NEW t \in Thread, NEW n \in Levels(t)
  PROVE  /\ FrameAt(t, n).at \notin {"insert", "register"} =>
              refs[FrameAt(t, n).p] > 0
         /\ FrameAt(t, n).q \in Proc => refs[FrameAt(t, n).q] > 0
<1> DEFINE f == FrameAt(t, n)
<1>0. Stacks /\ {"p", "p2", "q"} = Reason /\ Spinless
  BY DEF CInv, TInv, Reason
<1>1. f \in FrameType /\ f.p \in Proc /\ Fits(f.op, f.at, f.q) /\ f.at # "spin"
  BY <1>0, FrameTypes DEF Order, FrameOrder, Tidy, Spinless
<1>2. f.op = "spawn" => Spawning(t) /\ f = Top(t)
  <2>1. ASSUME f.op = "spawn" PROVE Spawning(t) /\ f = Top(t)
    <3>1. n = Depth(t) /\ ~Idle(t)
      BY <2>1 DEF Order, FrameOrder, Innermost, Levels, Idle
    <3> QED BY <1>0, <2>1, <3>1, Tops DEF Spawning
  <2> QED BY <2>1
<1>3. ASSUME f.at \notin {"insert", "register"} PROVE refs[f.p] > 0
  <2>1. CASE f.op = "spawn" /\ f.at \in {"adopt", "contract", "ready"}
    <3>1. Holds(f, "p", f.p)
      BY <2>1 DEF Holds
    <3> QED BY <1>0, <1>1, <3>1, KeptByFrame
  <2>2. CASE f.op = "spawn" /\ f.at = "undo"
    <3>1. f.p \in table
      BY <1>2, <2>2 DEF Order, Heirless, Early
    <3> QED BY <1>1, <3>1, KeptOutside
  <2>3. CASE f.op \in {"exit", "wait"} \/ (f.op = "reap" /\ f.at # "begin")
    <3>1. Holds(f, "p", f.p)
      BY <2>3 DEF Holds
    <3> QED BY <1>0, <1>1, <3>1, KeptByFrame
  <2>4. CASE f.op = "reap" /\ f.at = "begin"
    <3>1. PICK m \in Levels(t) : Calls(FrameAt(t, m), f.p)
      BY <2>4 DEF Order, FrameOrder, Callers
    <3>2. Holds(FrameAt(t, m), "q", f.p) \/ Holds(FrameAt(t, m), "p", f.p)
      BY <3>1 DEF Calls, Holds
    <3> QED BY <1>0, <1>1, <3>2, KeptByFrame
  <2>5. f.op \in {"spawn", "reap", "exit", "wait"}
    BY <1>1 DEF FrameType
  <2> QED BY <1>1, <1>3, <2>1, <2>2, <2>3, <2>4, <2>5 DEF Fits
<1>4. ASSUME f.q \in Proc PROVE refs[f.q] > 0
  <2>1. CASE f.op = "spawn"
    <3>1. f.q \in session
      BY <1>2, <1>4, <2>1, ProcTreeAssumption DEF Order, Sessions
    <3> QED BY <1>4, <3>1, KeptOutside
  <2>2. CASE f.op # "spawn"
    <3>1. f.at \in {"drop", "unlink"}
      BY <1>1, <1>4, <2>2, ProcTreeAssumption DEF Fits, FrameType
    <3>2. Holds(f, "q", f.q)
      BY <3>1 DEF Holds
    <3> QED BY <1>0, <1>4, <3>2, KeptByFrame
  <2> QED BY <2>1, <2>2
<1> QED BY <1>3, <1>4

\* What an operation is busy with has a reference at every step, its own or
\* its caller's, its session's or the table's.
THEOREM WorkingReferences == Spec => []NothingFreedInUse
<1>1. OInv /\ CInv => NothingFreedInUse
  BY KeptInUse DEF OInv, NothingFreedInUse
<1> QED BY <1>1, Ordering, Counted, PTL
=============================================================================
