--------------------------- MODULE ProcTree_proofs ---------------------------
(***************************************************************************)
(* Proofs about ProcTree, for any threads, processes and CHILD_PROC_MAX:   *)
(* the two sides of every contract agree, the loops over children never    *)
(* spin, a zombie has its status, locks are taken in order, no process is  *)
(* its own ancestor, and the whole implements ProcLife.                    *)
(***************************************************************************)
EXTENDS ProcTree, TLAPS, FiniteSetTheorems, SequenceTheorems

(***************************************************************************)
(* The inductive invariant speaks of frames: the operations in progress at *)
(* each level of a thread's stack.                                         *)
(***************************************************************************)
Data ==
  /\ valid \subseteq AnyProc /\ table \subseteq Proc
  /\ parent \in [Proc -> AnyProc \cup {None}] /\ idx \in [Proc -> Nat]
  /\ kids \in [AnyProc -> Seq(Proc)]
  /\ zombie \subseteq Proc /\ status \subseteq Proc
  /\ host \in [Proc -> HostState]
  /\ held \subseteq Proc /\ managed \subseteq Proc /\ session \subseteq Proc
  /\ tab \in Thread \cup {None} /\ proctil \in Thread \cup {None}
  /\ panic \in BOOLEAN

Stacks == stack \in [Thread -> Seq(FrameType)]

\* A spawn that has not made its contract.
Early(f) == f.op = "spawn" /\ f.at \in {"insert", "adopt", "contract", "undo"}

\* A reap that has the table's lock.
Locked(f) == f.op = "reap" /\ f.at # "begin"

\* Nothing has published p: it has not been spawned, or is about to be entered.
Unborn(p) ==
  \/ host[p] = "none"
  \/ \E t \in Thread : \E n \in Levels(t) :
       LET f == FrameAt(t, n) IN f.op = "spawn" /\ f.at = "insert" /\ f.p = p

\* Each process is spawned once, by one frame; until the contract is made
\* nobody else is busy with it.
Spawns ==
  \A t \in Thread : \A n \in Levels(t) : LET f == FrameAt(t, n) IN
    /\ host[f.p] # "none"
    /\ Early(f) =>
         /\ parent[f.p] = None /\ f.p \notin zombie
         /\ \A u \in Thread : \A m \in Levels(u) :
              FrameAt(u, m).p = f.p => u = t /\ m = n
    /\ f.op = "spawn" /\ f.at # "register" =>
         /\ f.p \notin held
         /\ \A u \in Thread : \A m \in Levels(u) :
              FrameAt(u, m).op = "spawn" /\ FrameAt(u, m).p = f.p
                => u = t /\ m = n

\* Nobody knows an unborn process, and a contract is made with a born one.
Births ==
  /\ \A p \in Proc : Unborn(p) =>
       p \notin valid \cup table \cup held /\ \A x \in Proc : parent[x] # p
  /\ \A p \in Proc : host[p] = "none" => parent[p] = None /\ p \notin zombie
  /\ \A t \in Thread : \A n \in Levels(t) : LET f == FrameAt(t, n) IN
       f.op = "spawn" /\ f.at = "contract" =>
         f.q \in AnyProc /\ \A x \in Proc : f.q = x => ~Unborn(x)

\* One reap at a time has the table's lock; from unlink on it knows its
\* parent, and to be removed it has left it.
Reaps ==
  \A t \in Thread : \A n \in Levels(t) : LET f == FrameAt(t, n) IN
    Locked(f) =>
      /\ tab = t
      /\ \A m \in Levels(t) : Locked(FrameAt(t, m)) => m = n
      /\ f.at = "unlink" => f.q # None /\ parent[f.p] = f.q
      /\ f.at = "remove" => parent[f.p] = None

\* A child in an array can be retained.
KidsValid == \A q \in AnyProc : \A i \in 1 .. Len(kids[q]) : kids[q][i] \in valid

\* No frame spins: what NoSpin says of the top, of every level.
Spinless ==
  \A t \in Thread : \A n \in Levels(t) : FrameAt(t, n).at # "spin"

\* Past proc_state_change an exit is recorded, or there is no parent to read it.
Recorded(p) == p \in status \/ parent[p] \notin valid

Records ==
  /\ \A p \in zombie : Recorded(p)
  /\ \A t \in Thread : \A n \in Levels(t) : LET f == FrameAt(t, n) IN
       f.op = "exit" /\ f.at # "status" => Recorded(f.p)

TInv ==
  /\ Data /\ Stacks /\ Spawns /\ Births /\ Reaps /\ KidsValid /\ Spinless /\ Records
  /\ ContractSymmetric

-----------------------------------------------------------------------------
(* Sequences and frames                                                    *)

LEMMA ReplaceFirst ==
  ASSUME NEW S, NEW s \in Seq(S), s # <<>>, NEW f \in S
  PROVE  /\ <<f>> \o Tail(s) \in Seq(S)
         /\ Len(<<f>> \o Tail(s)) = Len(s)
         /\ (<<f>> \o Tail(s))[1] = f
         /\ \A i \in 2 .. Len(s) : (<<f>> \o Tail(s))[i] = s[i]
<1>1. /\ Tail(s) \in Seq(S) /\ Len(Tail(s)) = Len(s) - 1
      /\ \A i \in 1 .. Len(Tail(s)) : Tail(s)[i] = s[i + 1]
  BY HeadTailProperties
<1>2. <<f>> \in Seq(S) /\ Len(<<f>>) = 1 /\ <<f>>[1] = f
  OBVIOUS
<1> QED BY <1>1, <1>2, ConcatProperties

LEMMA ReplaceAndPush ==
  ASSUME NEW S, NEW s \in Seq(S), s # <<>>, NEW f \in S, NEW g \in S
  PROVE  /\ <<g, f>> \o Tail(s) \in Seq(S)
         /\ Len(<<g, f>> \o Tail(s)) = Len(s) + 1
         /\ (<<g, f>> \o Tail(s))[1] = g /\ (<<g, f>> \o Tail(s))[2] = f
         /\ \A i \in 2 .. Len(s) : (<<g, f>> \o Tail(s))[i + 1] = s[i]
<1>1. /\ Tail(s) \in Seq(S) /\ Len(Tail(s)) = Len(s) - 1
      /\ \A i \in 1 .. Len(Tail(s)) : Tail(s)[i] = s[i + 1]
  BY HeadTailProperties
<1>2. /\ <<g, f>> \in Seq(S) /\ Len(<<g, f>>) = 2
      /\ <<g, f>>[1] = g /\ <<g, f>>[2] = f
  OBVIOUS
<1> QED BY <1>1, <1>2, ConcatProperties

\* The depth of t's stack, which is the level of its innermost operation.
Depth(t) == Len(stack[t])

\* The frames of every other thread, and those below the top of t, stay.
Kept(t) ==
  \A u \in Thread : \A n \in Levels(u)' :
    \/ u = t /\ n >= Depth(t)
    \/ n \in Levels(u) /\ FrameAt(u, n)' = FrameAt(u, n)

LEMMA Tops ==
  ASSUME Stacks, NEW t \in Thread, ~Idle(t)
  PROVE  /\ Depth(t) \in Levels(t) /\ FrameAt(t, Depth(t)) = Top(t)
         /\ Top(t) \in FrameType /\ Depth(t) \in Nat
         /\ Top(t).p \in Proc /\ Top(t).q \in AnyProc \cup {None}
<1>1. stack[t] \in Seq(FrameType) /\ stack[t] # <<>>
  BY DEF Stacks, Idle
<1>2. Len(stack[t]) \in Nat /\ Len(stack[t]) > 0 /\ Head(stack[t]) = stack[t][1]
      /\ Head(stack[t]) \in FrameType
  BY <1>1, EmptySeq, HeadTailProperties
<1>3. Depth(t) \in Levels(t) /\ FrameAt(t, Depth(t)) = Top(t) /\ Depth(t) \in Nat
  BY <1>2 DEF Depth, Levels, FrameAt, Top
<1>4. Top(t).p \in Proc /\ Top(t).q \in AnyProc \cup {None}
  BY <1>2 DEF Top, FrameType
<1> QED BY <1>2, <1>3, <1>4 DEF Top

LEMMA FrameTypes ==
  ASSUME Stacks, NEW t \in Thread, NEW n \in Levels(t)
  PROVE  /\ FrameAt(t, n) \in FrameType /\ FrameAt(t, n).p \in Proc
         /\ FrameAt(t, n).q \in AnyProc \cup {None}
<1>1. stack[t] \in Seq(FrameType) /\ Len(stack[t]) \in Nat
  BY DEF Stacks
<1>2. Len(stack[t]) + 1 - n \in 1 .. Len(stack[t])
  BY <1>1 DEF Levels
<1>3. FrameAt(t, n) \in FrameType
  BY <1>1, <1>2, ElementOfSeq DEF FrameAt
<1> QED BY <1>3 DEF FrameType

LEMMA Replaced ==
  ASSUME Stacks, NEW t \in Thread, ~Idle(t), NEW f \in FrameType,
         stack' = [stack EXCEPT ![t] = <<f>> \o Tail(@)]
  PROVE  /\ Stacks' /\ Kept(t)
         /\ \A u \in Thread : Levels(u)' = Levels(u)
         /\ \A n \in Levels(t)' : n >= Depth(t) => n = Depth(t)
         /\ \A n \in Levels(t)' : n = Depth(t) => FrameAt(t, n)' = f
<1> DEFINE s == stack[t]
<1>1. s \in Seq(FrameType) /\ s # <<>> /\ Len(s) \in Nat
  BY DEF Stacks, Idle
<1> DEFINE r == <<f>> \o Tail(s)
<1>2. /\ r \in Seq(FrameType) /\ Len(r) = Len(s) /\ r[1] = f
      /\ \A i \in 2 .. Len(s) : r[i] = s[i]
  BY <1>1, ReplaceFirst
<1>3. stack'[t] = r /\ \A u \in Thread : u # t => stack'[u] = stack[u]
  BY DEF Stacks
<1>4. Stacks'
  BY <1>2, <1>3 DEF Stacks
<1> HIDE DEF r
<1>5. \A u \in Thread : Levels(u)' = Levels(u)
  BY <1>2, <1>3 DEF Levels
<1>6. \A n \in Levels(t)' : n >= Depth(t) => n = Depth(t)
  BY <1>1, <1>2, <1>3 DEF Levels, Depth
<1>7. \A n \in Levels(t)' : n = Depth(t) => FrameAt(t, n)' = f
  BY <1>1, <1>2, <1>3 DEF Levels, Depth, FrameAt
<1>8. ASSUME NEW u \in Thread, NEW n \in Levels(u)'
      PROVE  \/ u = t /\ n >= Depth(t)
             \/ n \in Levels(u) /\ FrameAt(u, n)' = FrameAt(u, n)
  BY <1>1, <1>2, <1>3 DEF Levels, Depth, FrameAt
<1> QED BY <1>4, <1>5, <1>6, <1>7, <1>8 DEF Kept

LEMMA Pushed ==
  ASSUME Stacks, NEW t \in Thread, ~Idle(t), NEW f \in FrameType,
         NEW g \in FrameType,
         stack' = [stack EXCEPT ![t] = <<g, f>> \o Tail(@)]
  PROVE  /\ Stacks' /\ Kept(t)
         /\ \A n \in Levels(t)' : n >= Depth(t) => n \in {Depth(t), Depth(t) + 1}
         /\ \A n \in Levels(t)' : n = Depth(t) => FrameAt(t, n)' = f
         /\ \A n \in Levels(t)' : n = Depth(t) + 1 => FrameAt(t, n)' = g
         /\ \A u \in Thread : u # t => Levels(u)' = Levels(u)
         /\ Levels(t)' = Levels(t) \cup {Depth(t) + 1}
<1> DEFINE s == stack[t]
<1>1. s \in Seq(FrameType) /\ s # <<>> /\ Len(s) \in Nat /\ Len(s) > 0
  BY EmptySeq DEF Stacks, Idle
<1> DEFINE r == <<g, f>> \o Tail(s)
<1>2. /\ r \in Seq(FrameType) /\ Len(r) = Len(s) + 1 /\ r[1] = g /\ r[2] = f
      /\ \A i \in 2 .. Len(s) : r[i + 1] = s[i]
  BY <1>1, ReplaceAndPush
<1>3. stack'[t] = r /\ \A u \in Thread : u # t => stack'[u] = stack[u]
  BY DEF Stacks
<1>4. Stacks'
  BY <1>2, <1>3 DEF Stacks
<1> HIDE DEF r
<1>5. \A u \in Thread : u # t => Levels(u)' = Levels(u)
  BY <1>3 DEF Levels
<1>6. \A n \in Levels(t)' : n >= Depth(t) => n \in {Depth(t), Depth(t) + 1}
  BY <1>1, <1>2, <1>3 DEF Levels, Depth
<1>7. \A n \in Levels(t)' : n = Depth(t) => FrameAt(t, n)' = f
  BY <1>1, <1>2, <1>3 DEF Levels, Depth, FrameAt
<1>8. ASSUME NEW n \in Levels(t)', n = Depth(t) + 1 PROVE FrameAt(t, n)' = g
  <2>1. n = Len(s) + 1 /\ Len(r) + 1 - n = 1
    BY <1>1, <1>2, <1>8 DEF Depth
  <2> QED BY <1>2, <1>3, <2>1 DEF FrameAt
<1>9. ASSUME NEW u \in Thread, NEW n \in Levels(u)'
      PROVE  \/ u = t /\ n >= Depth(t)
             \/ n \in Levels(u) /\ FrameAt(u, n)' = FrameAt(u, n)
  <2>1. CASE u # t
    BY <1>3, <2>1 DEF Levels, FrameAt
  <2>2. CASE u = t /\ n < Depth(t)
    <3>1. n \in 1 .. Len(s) /\ Len(s) + 1 - n \in 2 .. Len(s)
      BY <1>1, <1>2, <1>3, <2>2 DEF Levels, Depth
    <3>2. r[Len(s) + 1 - n + 1] = s[Len(s) + 1 - n]
      BY <1>2, <3>1
    <3>3. Len(r) + 1 - n = Len(s) + 1 - n + 1
      BY <1>1, <1>2, <3>1
    <3> QED BY <1>3, <2>2, <3>1, <3>2, <3>3 DEF Levels, FrameAt
  <2> QED BY <1>1, <1>2, <1>3, <2>1, <2>2 DEF Levels, Depth
<1>10. Levels(t)' = Levels(t) \cup {Depth(t) + 1}
  BY <1>1, <1>2, <1>3 DEF Levels, Depth
<1> QED BY <1>4, <1>5, <1>6, <1>7, <1>8, <1>9, <1>10 DEF Kept

LEMMA Popped ==
  ASSUME Stacks, NEW t \in Thread, ~Idle(t), Return(t)
  PROVE  /\ Stacks' /\ Kept(t)
         /\ \A n \in Levels(t)' : n < Depth(t)
         /\ \A u \in Thread : u # t => Levels(u)' = Levels(u)
         /\ Levels(t)' = Levels(t) \ {Depth(t)}
<1> DEFINE s == stack[t]
<1>1. s \in Seq(FrameType) /\ s # <<>> /\ Len(s) \in Nat /\ Len(s) > 0
  BY EmptySeq DEF Stacks, Idle
<1> DEFINE r == Tail(s)
<1>2. /\ r \in Seq(FrameType) /\ Len(r) = Len(s) - 1
      /\ \A i \in 1 .. Len(r) : r[i] = s[i + 1]
  BY <1>1, HeadTailProperties
<1>3. stack'[t] = r /\ \A u \in Thread : u # t => stack'[u] = stack[u]
  BY DEF Stacks, Return
<1>4. Stacks'
  BY <1>2, <1>3 DEF Stacks, Return
<1> HIDE DEF r
<1>5. \A u \in Thread : u # t => Levels(u)' = Levels(u)
  BY <1>3 DEF Levels
<1>6. Levels(t)' = Levels(t) \ {Depth(t)} /\ \A n \in Levels(t)' : n < Depth(t)
  BY <1>1, <1>2, <1>3 DEF Levels, Depth
<1>7. ASSUME NEW u \in Thread, NEW n \in Levels(u)'
      PROVE  \/ u = t /\ n >= Depth(t)
             \/ n \in Levels(u) /\ FrameAt(u, n)' = FrameAt(u, n)
  <2>1. CASE u # t
    BY <1>3, <2>1 DEF Levels, FrameAt
  <2>2. CASE u = t
    <3>1. n \in 1 .. Len(s) /\ Len(s) - n \in 1 .. Len(r)
      BY <1>1, <1>2, <1>3, <2>2 DEF Levels
    <3>2. r[Len(s) - n] = s[Len(s) - n + 1]
      BY <1>2, <3>1
    <3>3. Len(r) + 1 - n = Len(s) - n /\ Len(s) - n + 1 = Len(s) + 1 - n
      BY <1>1, <1>2, <3>1
    <3> QED BY <1>3, <2>2, <3>1, <3>2, <3>3 DEF Levels, FrameAt
  <2> QED BY <2>1, <2>2
<1> QED BY <1>4, <1>5, <1>6, <1>7 DEF Kept

LEMMA Started ==
  ASSUME Stacks, NEW t \in Thread, Idle(t), NEW f \in FrameType,
         stack' = [stack EXCEPT ![t] = <<f>>]
  PROVE  /\ Stacks' /\ Kept(t) /\ Depth(t) = 0 /\ Levels(t) = {}
         /\ Levels(t)' = {1} /\ FrameAt(t, 1)' = f
         /\ \A u \in Thread : u # t => Levels(u)' = Levels(u)
<1>1. stack[t] = <<>> /\ Len(stack[t]) = 0
  BY DEF Idle
<1>2. stack'[t] = <<f>> /\ \A u \in Thread : u # t => stack'[u] = stack[u]
  BY DEF Stacks
<1>3. <<f>> \in Seq(FrameType) /\ Len(<<f>>) = 1 /\ <<f>>[1] = f
  OBVIOUS
<1>4. Stacks'
  BY <1>3 DEF Stacks
<1>5. Depth(t) = 0 /\ Levels(t) = {} /\ Levels(t)' = {1} /\ FrameAt(t, 1)' = f
  BY <1>1, <1>2, <1>3 DEF Depth, Levels, FrameAt
<1>6. \A u \in Thread : u # t => Levels(u)' = Levels(u)
  BY <1>2 DEF Levels
<1>7. Kept(t)
  BY <1>2, <1>5 DEF Kept, Levels, FrameAt
<1> QED BY <1>4, <1>5, <1>6, <1>7

LEMMA StartedTwo ==
  ASSUME Stacks, NEW t \in Thread, Idle(t), NEW f \in FrameType,
         NEW g \in FrameType, stack' = [stack EXCEPT ![t] = <<g, f>>]
  PROVE  /\ Stacks' /\ Kept(t) /\ Depth(t) = 0 /\ Levels(t) = {}
         /\ Levels(t)' = {1, 2} /\ FrameAt(t, 1)' = f /\ FrameAt(t, 2)' = g
         /\ \A u \in Thread : u # t => Levels(u)' = Levels(u)
<1>1. stack[t] = <<>> /\ Len(stack[t]) = 0
  BY DEF Idle
<1>2. stack'[t] = <<g, f>> /\ \A u \in Thread : u # t => stack'[u] = stack[u]
  BY DEF Stacks
<1>3. <<g, f>> \in Seq(FrameType) /\ Len(<<g, f>>) = 2
      /\ <<g, f>>[1] = g /\ <<g, f>>[2] = f
  OBVIOUS
<1>4. Stacks'
  BY <1>3 DEF Stacks
<1>5. Depth(t) = 0 /\ Levels(t) = {} /\ Levels(t)' = {1, 2}
      /\ FrameAt(t, 1)' = f /\ FrameAt(t, 2)' = g
  BY <1>1, <1>2, <1>3 DEF Depth, Levels, FrameAt
<1>6. \A u \in Thread : u # t => Levels(u)' = Levels(u)
  BY <1>2 DEF Levels
<1>7. Kept(t)
  BY <1>2, <1>5 DEF Kept, Levels, FrameAt
<1> QED BY <1>4, <1>5, <1>6, <1>7

LEMMA SameStack ==
  ASSUME Stacks, UNCHANGED stack
  PROVE  /\ Stacks'
         /\ \A u \in Thread : /\ Levels(u)' = Levels(u)
                              /\ \A n \in Levels(u) : FrameAt(u, n)' = FrameAt(u, n)
BY DEF Stacks, Levels, FrameAt

-----------------------------------------------------------------------------
(* Steps that do not change the tree: new frames of old operations, and    *)
(* operations on processes somebody knows.                                 *)

Old(u, n) == n \in Levels(u) /\ FrameAt(u, n)' = FrameAt(u, n)

\* The frame goes on with an operation; only a spawn may be early.
Continued(u, n) ==
  /\ n \in Levels(u)
  /\ FrameAt(u, n)'.p = FrameAt(u, n).p /\ FrameAt(u, n)'.op = FrameAt(u, n).op
  /\ Early(FrameAt(u, n)') => Early(FrameAt(u, n))
  /\ FrameAt(u, n)'.op = "spawn" /\ FrameAt(u, n)'.at # "register" =>
       FrameAt(u, n).at # "register"

\* A new operation, on a process past its contract.
Known(u, n) ==
  /\ FrameAt(u, n)'.op # "spawn"
  /\ parent[FrameAt(u, n)'.p] # None \/ FrameAt(u, n)'.p \in held

\* A frame that breaks none of the invariants but perhaps Reaps.
Proper(u, n) ==
  /\ Continued(u, n) \/ Known(u, n)
  /\ FrameAt(u, n)'.at \notin {"insert", "spin"}
  /\ FrameAt(u, n)'.op = "spawn" /\ FrameAt(u, n)'.at = "contract" =>
       /\ FrameAt(u, n)'.q \in AnyProc
       /\ \A x \in Proc : FrameAt(u, n)'.q = x => ~Unborn(x)
  /\ FrameAt(u, n)'.op = "exit" /\ FrameAt(u, n)'.at # "status" =>
       \A x \in Proc : FrameAt(u, n)'.p = x => Recorded(x)'

\* What such a step may do to the rest of the state.
Tame ==
  /\ UNCHANGED <<parent, idx, kids, zombie>>
  /\ table' \subseteq table /\ held' \subseteq held /\ status \subseteq status'
  /\ valid' \subseteq valid
  /\ \A x \in valid \ valid' : x \in Proc /\ parent[x] = None
  /\ \A x \in Proc : host'[x] = "none" <=> host[x] = "none"

LEMMA TameSteps ==
  ASSUME TInv, Data', Stacks', Reaps', Tame,
         \A u \in Thread : \A n \in Levels(u)' : Old(u, n) \/ Proper(u, n)
  PROVE  TInv'
<1>0. Stacks /\ Stacks'
  BY DEF TInv
<1>1. \A u \in Thread : \A n \in Levels(u)' : Continued(u, n) \/ Known(u, n)
  BY DEF Old, Proper, Continued
<1>2. ASSUME NEW u \in Thread, NEW n \in Levels(u)'
      PROVE  FrameAt(u, n)'.p \in Proc /\ FrameAt(u, n)'.q \in AnyProc \cup {None}
  <2>1. stack'[u] \in Seq(FrameType) /\ Len(stack'[u]) \in Nat
    BY <1>0 DEF Stacks
  <2>2. Len(stack'[u]) + 1 - n \in 1 .. Len(stack'[u])
    BY <2>1 DEF Levels
  <2>3. FrameAt(u, n)' \in FrameType
    BY <2>1, <2>2, ElementOfSeq DEF FrameAt
  <2> QED BY <2>3 DEF FrameType
<1>3. \A x \in Proc : parent[x] # None \/ x \in held => host[x] # "none"
  BY DEF TInv, Births, Unborn
<1>4. Spawns'
  <2> SUFFICES ASSUME NEW t \in Thread, NEW n \in Levels(t)'
      PROVE
        /\ host'[FrameAt(t, n)'.p] # "none"
        /\ Early(FrameAt(t, n)') =>
             /\ parent'[FrameAt(t, n)'.p] = None /\ FrameAt(t, n)'.p \notin zombie'
             /\ \A u \in Thread : \A m \in Levels(u)' :
                  FrameAt(u, m)'.p = FrameAt(t, n)'.p => u = t /\ m = n
        /\ FrameAt(t, n)'.op = "spawn" /\ FrameAt(t, n)'.at # "register" =>
             /\ FrameAt(t, n)'.p \notin held'
             /\ \A u \in Thread : \A m \in Levels(u)' :
                  FrameAt(u, m)'.op = "spawn" /\ FrameAt(u, m)'.p = FrameAt(t, n)'.p
                    => u = t /\ m = n
    BY DEF Spawns, Early
  <2> DEFINE p == FrameAt(t, n)'.p
  <2>1. p \in Proc
    BY <1>2
  <2>2. host'[p] # "none"
    <3>1. CASE Continued(t, n)
      BY <2>1, <3>1 DEF TInv, Spawns, Continued, Tame
    <3>2. CASE Known(t, n)
      BY <1>3, <2>1, <3>2 DEF Known, Tame
    <3> QED BY <1>1, <3>1, <3>2
  <2>3. ASSUME Early(FrameAt(t, n)')
        PROVE  /\ parent'[p] = None /\ p \notin zombie'
               /\ \A u \in Thread : \A m \in Levels(u)' :
                    FrameAt(u, m)'.p = p => u = t /\ m = n
    <3>1. /\ n \in Levels(t) /\ Early(FrameAt(t, n)) /\ FrameAt(t, n).p = p
      BY <1>1, <2>3 DEF Continued, Known, Early
    <3>2. /\ parent[p] = None /\ p \notin zombie /\ p \notin held
          /\ \A u \in Thread : \A m \in Levels(u) :
               FrameAt(u, m).p = p => u = t /\ m = n
      BY <3>1 DEF TInv, Spawns, Early
    <3>3. ASSUME NEW u \in Thread, NEW m \in Levels(u)', FrameAt(u, m)'.p = p
          PROVE  u = t /\ m = n
      <4>1. ~Known(u, m)
        BY <3>2, <3>3 DEF Known
      <4> QED BY <1>1, <3>2, <3>3, <4>1 DEF Continued
    <3> QED BY <3>2, <3>3 DEF Tame
  <2>4. ASSUME FrameAt(t, n)'.op = "spawn", FrameAt(t, n)'.at # "register"
        PROVE  /\ p \notin held'
               /\ \A u \in Thread : \A m \in Levels(u)' :
                    FrameAt(u, m)'.op = "spawn" /\ FrameAt(u, m)'.p = p
                      => u = t /\ m = n
    <3>1. /\ n \in Levels(t) /\ FrameAt(t, n).p = p
          /\ FrameAt(t, n).op = "spawn" /\ FrameAt(t, n).at # "register"
      BY <1>1, <2>4 DEF Continued, Known
    <3>2. /\ p \notin held
          /\ \A u \in Thread : \A m \in Levels(u) :
               FrameAt(u, m).op = "spawn" /\ FrameAt(u, m).p = p => u = t /\ m = n
      BY <3>1 DEF TInv, Spawns
    <3>3. ASSUME NEW u \in Thread, NEW m \in Levels(u)',
                 FrameAt(u, m)'.op = "spawn", FrameAt(u, m)'.p = p
          PROVE  u = t /\ m = n
      BY <1>1, <3>2, <3>3 DEF Continued, Known
    <3> QED BY <3>2, <3>3 DEF Tame
  <2> QED BY <2>2, <2>3, <2>4
<1>5. \A p \in Proc : Unborn(p)' => Unborn(p)
  <2> SUFFICES ASSUME NEW p \in Proc, Unborn(p)' PROVE Unborn(p)
    OBVIOUS
  <2>1. CASE host'[p] = "none"
    BY <2>1 DEF Tame, Unborn
  <2>2. ASSUME NEW u \in Thread, NEW n \in Levels(u)',
               FrameAt(u, n)'.op = "spawn", FrameAt(u, n)'.at = "insert",
               FrameAt(u, n)'.p = p
        PROVE  Unborn(p)
    <3>1. Old(u, n)
      BY <2>2 DEF Proper
    <3> QED BY <2>2, <3>1 DEF Old, Unborn
  <2> QED BY <2>1, <2>2 DEF Unborn
<1>6. Births'
  <2>1. \A p \in Proc : Unborn(p)' =>
          p \notin valid' \cup table' \cup held' /\ \A x \in Proc : parent'[x] # p
    BY <1>5 DEF TInv, Births, Tame
  <2>2. \A p \in Proc : host'[p] = "none" => parent'[p] = None /\ p \notin zombie'
    BY DEF TInv, Births, Tame
  <2>3. ASSUME NEW u \in Thread, NEW n \in Levels(u)',
               FrameAt(u, n)'.op = "spawn", FrameAt(u, n)'.at = "contract"
        PROVE  /\ FrameAt(u, n)'.q \in AnyProc
               /\ \A x \in Proc : FrameAt(u, n)'.q = x => ~Unborn(x)
    <3>1. CASE Old(u, n)
      <4>1. /\ FrameAt(u, n).q \in AnyProc
            /\ \A x \in Proc : FrameAt(u, n).q = x => ~Unborn(x)
        BY <2>3, <3>1 DEF TInv, Births, Old
      <4> QED BY <3>1, <4>1 DEF Old
    <3>2. CASE Proper(u, n)
      BY <2>3, <3>2 DEF Proper
    <3> QED BY <3>1, <3>2
  <2>4. ASSUME NEW u \in Thread, NEW n \in Levels(u)', NEW q \in Proc,
               FrameAt(u, n)'.q = q,
               FrameAt(u, n)'.op = "spawn", FrameAt(u, n)'.at = "contract"
        PROVE  ~Unborn(q)'
    BY <1>5, <2>3, <2>4
  <2>5. \A u \in Thread : \A n \in Levels(u)' :
          FrameAt(u, n)'.op = "spawn" /\ FrameAt(u, n)'.at = "contract" =>
            /\ FrameAt(u, n)'.q \in AnyProc
            /\ \A q \in Proc : FrameAt(u, n)'.q = q => ~Unborn(q)'
    BY <2>3, <2>4
  <2> QED BY <2>1, <2>2, <2>5 DEF Births
<1>7. KidsValid'
  <2>1. ASSUME NEW q \in AnyProc, NEW i \in 1 .. Len(kids[q])
        PROVE  kids[q][i] \in valid'
    <3>1. kids[q][i] \in valid /\ parent[kids[q][i]] = q
      BY DEF TInv, KidsValid, ContractSymmetric
    <3>2. q # None
      BY ProcTreeAssumption DEF AnyProc
    <3> QED BY <3>1, <3>2 DEF Tame
  <2> QED BY <2>1 DEF KidsValid, Tame
<1>8. Spinless'
  BY DEF TInv, Spinless, Old, Proper
<1>9. Records'
  <2>1. ASSUME NEW x \in Proc, Recorded(x) PROVE Recorded(x)'
    BY <2>1 DEF Recorded, Tame
  <2>2. \A x \in zombie' : Recorded(x)'
    BY <2>1 DEF TInv, Records, Data, Tame
  <2>3. ASSUME NEW u \in Thread, NEW n \in Levels(u)', NEW x \in Proc,
               FrameAt(u, n)'.p = x,
               FrameAt(u, n)'.op = "exit", FrameAt(u, n)'.at # "status"
        PROVE  Recorded(x)'
    <3>1. CASE Old(u, n)
      BY <2>1, <2>3, <3>1 DEF TInv, Records, Old
    <3>2. CASE Proper(u, n)
      BY <2>3, <3>2 DEF Proper, Recorded
    <3> QED BY <3>1, <3>2
  <2>4. \A u \in Thread : \A n \in Levels(u)' :
          FrameAt(u, n)'.op = "exit" /\ FrameAt(u, n)'.at # "status" =>
            \A x \in Proc : FrameAt(u, n)'.p = x => Recorded(x)'
    BY <2>3
  <2> QED BY <1>2, <2>2, <2>4 DEF Records
<1>10. ContractSymmetric'
  BY DEF TInv, ContractSymmetric, Tame
<1> QED BY <1>4, <1>6, <1>7, <1>8, <1>9, <1>10 DEF TInv

-----------------------------------------------------------------------------
(* The table's lock                                                        *)

LEMMA LockKept ==
  ASSUME TInv, NEW t \in Thread, Kept(t), UNCHANGED <<parent, tab>>,
         \A n \in Levels(t)' : n >= Depth(t) /\ Locked(FrameAt(t, n)') =>
           /\ n \in Levels(t) /\ Locked(FrameAt(t, n))
           /\ FrameAt(t, n)'.at = "unlink" =>
                FrameAt(t, n)'.q # None /\ parent[FrameAt(t, n)'.p] = FrameAt(t, n)'.q
           /\ FrameAt(t, n)'.at = "remove" => parent[FrameAt(t, n)'.p] = None
  PROVE  Reaps'
<1>1. ASSUME NEW u \in Thread, NEW n \in Levels(u)', Locked(FrameAt(u, n)')
      PROVE  /\ n \in Levels(u) /\ Locked(FrameAt(u, n))
             /\ FrameAt(u, n)'.at = "unlink" =>
                  FrameAt(u, n)'.q # None /\ parent[FrameAt(u, n)'.p] = FrameAt(u, n)'.q
             /\ FrameAt(u, n)'.at = "remove" => parent[FrameAt(u, n)'.p] = None
  <2>1. CASE u = t /\ n >= Depth(t)
    BY <1>1, <2>1
  <2>2. CASE n \in Levels(u) /\ FrameAt(u, n)' = FrameAt(u, n)
    BY <1>1, <2>2 DEF TInv, Reaps
  <2> QED BY <2>1, <2>2 DEF Kept
<1>2. ASSUME NEW u \in Thread, NEW n \in Levels(u)', Locked(FrameAt(u, n)')
      PROVE  /\ tab' = u
             /\ \A m \in Levels(u)' : Locked(FrameAt(u, m)') => m = n
  BY <1>1, <1>2 DEF TInv, Reaps
<1> QED BY <1>1, <1>2 DEF Reaps, Locked

LEMMA LockTaken ==
  ASSUME TInv, NEW t \in Thread, Kept(t), tab = None, tab' = t,
         \A n \in Levels(t)' : n >= Depth(t) /\ Locked(FrameAt(t, n)') =>
           n = Depth(t) /\ FrameAt(t, n)'.at \notin {"unlink", "remove"}
  PROVE  Reaps'
<1>1. \A u \in Thread : \A n \in Levels(u) : ~Locked(FrameAt(u, n))
  BY ProcTreeAssumption DEF TInv, Reaps
<1>2. \A u \in Thread : \A n \in Levels(u)' : Locked(FrameAt(u, n)') =>
        u = t /\ n = Depth(t) /\ FrameAt(u, n)'.at \notin {"unlink", "remove"}
  BY <1>1 DEF Kept
<1> QED BY <1>2 DEF Reaps, Locked

LEMMA LockGiven ==
  ASSUME TInv, NEW t \in Thread, Kept(t), ~Idle(t), Locked(Top(t)),
         \A n \in Levels(t)' : n < Depth(t)
  PROVE  Reaps'
<1>1. Depth(t) \in Levels(t) /\ FrameAt(t, Depth(t)) = Top(t)
  BY Tops DEF TInv
<1>2. tab = t /\ \A m \in Levels(t) : Locked(FrameAt(t, m)) => m = Depth(t)
  BY <1>1 DEF TInv, Reaps
<1>3. ASSUME NEW u \in Thread, NEW n \in Levels(u)', Locked(FrameAt(u, n)')
      PROVE  FALSE
  <2>1. n \in Levels(u) /\ Locked(FrameAt(u, n)) /\ (u = t => n < Depth(t))
    <3>1. u = t => n < Depth(t)
      OBVIOUS
    <3>2. Depth(t) \in Int /\ (u = t => n \in Int)
      BY <1>1 DEF Levels, TInv, Stacks, Depth
    <3>3. ~(u = t /\ n >= Depth(t))
      BY <3>1, <3>2
    <3> QED BY <1>3, <3>1, <3>3 DEF Kept
  <2>2. u = t
    BY <1>2, <2>1 DEF TInv, Reaps
  <2>3. n = Depth(t)
    BY <1>2, <2>1, <2>2
  <2> QED BY <2>1, <2>2, <2>3, <1>1 DEF Levels, TInv, Stacks, Depth
<1> QED BY <1>3 DEF Reaps, Locked

-----------------------------------------------------------------------------
(* The five ways in which a step changes its thread's stack                *)

Places == {"insert", "adopt", "contract", "undo", "ready", "register",
           "begin", "kids", "drop", "spin", "unlink", "remove",
           "status", "retain", "mark", "notify", "leave"}

LEMMA GotoSteps ==
  ASSUME TInv, NEW t \in Thread, ~Idle(t), Data', Tame,
         NEW l \in Places \ {"insert", "spin", "begin"},
         NEW q \in AnyProc \cup {None}, Goto(t, l, q),
         Top(t).op = "spawn" =>
           /\ l \in {"adopt", "contract", "undo"} => Early(Top(t))
           /\ l # "register" => Top(t).at # "register"
           /\ l = "contract" =>
                q \in AnyProc /\ \A x \in Proc : q = x => ~Unborn(x),
         Top(t).op = "exit" /\ l # "status" =>
           \A x \in Proc : Top(t).p = x => Recorded(x)',
         Top(t).op = "reap" =>
           \/ /\ tab' = tab /\ Top(t).at # "begin"
              /\ l = "unlink" => q # None /\ parent[Top(t).p] = q
              /\ l = "remove" => parent[Top(t).p] = None
           \/ tab = None /\ tab' = t /\ l = "kids",
         Top(t).op # "reap" => tab' = tab
  PROVE  TInv'
<1>0. Stacks
  BY DEF TInv
<1> DEFINE f == Frame(Top(t).op, l, Top(t).p, q)
<1>1. /\ Depth(t) \in Levels(t) /\ FrameAt(t, Depth(t)) = Top(t)
      /\ Top(t) \in FrameType /\ Depth(t) \in Nat /\ Top(t).p \in Proc
  BY <1>0, Tops
<1>2. /\ f \in FrameType /\ f.op = Top(t).op /\ f.at = l /\ f.p = Top(t).p
      /\ f.q = q
  BY <1>1 DEF Frame, FrameType, Places
<1>3. stack' = [stack EXCEPT ![t] = <<f>> \o Tail(@)]
  BY DEF Goto
<1> HIDE DEF f
<1>4. /\ Stacks' /\ Kept(t)
      /\ \A u \in Thread : Levels(u)' = Levels(u)
      /\ \A n \in Levels(t)' : n >= Depth(t) => n = Depth(t)
      /\ \A n \in Levels(t)' : n = Depth(t) => FrameAt(t, n)' = f
  BY <1>0, <1>2, <1>3, Replaced
<1>5. Reaps'
  <2>1. CASE tab' = tab
    <3>1. ASSUME NEW n \in Levels(t)', n >= Depth(t), Locked(FrameAt(t, n)')
          PROVE  /\ n \in Levels(t) /\ Locked(FrameAt(t, n))
                 /\ FrameAt(t, n)'.at = "unlink" =>
                      /\ FrameAt(t, n)'.q # None
                      /\ parent[FrameAt(t, n)'.p] = FrameAt(t, n)'.q
                 /\ FrameAt(t, n)'.at = "remove" => parent[FrameAt(t, n)'.p] = None
      <4>1. n = Depth(t) /\ FrameAt(t, n)' = f
        BY <1>4, <3>1
      <4>2. Top(t).op = "reap"
        BY <1>2, <3>1, <4>1 DEF Locked
      <4>3. /\ Top(t).at # "begin"
            /\ l = "unlink" => q # None /\ parent[Top(t).p] = q
            /\ l = "remove" => parent[Top(t).p] = None
        BY <2>1, <4>2, ProcTreeAssumption
      <4> QED BY <1>1, <1>2, <4>1, <4>2, <4>3 DEF Locked
    <3> QED BY <1>4, <2>1, <3>1, LockKept DEF Tame
  <2>2. CASE tab = None /\ tab' = t /\ l = "kids"
    <3>1. \A n \in Levels(t)' : n >= Depth(t) /\ Locked(FrameAt(t, n)') =>
            n = Depth(t) /\ FrameAt(t, n)'.at \notin {"unlink", "remove"}
      BY <1>2, <1>4, <2>2
    <3> QED BY <1>4, <2>2, <3>1, LockTaken
  <2> QED BY <2>1, <2>2
<1>6. ASSUME NEW u \in Thread, NEW n \in Levels(u)'
      PROVE  Old(u, n) \/ Proper(u, n)
  <2>1. CASE u = t /\ n >= Depth(t)
    <3>1. n = Depth(t) /\ FrameAt(t, n)' = f
      BY <1>4, <2>1
    <3>2. Continued(t, n)
      BY <1>1, <1>2, <3>1 DEF Continued, Early
    <3> QED BY <1>2, <2>1, <3>1, <3>2 DEF Proper
  <2>2. CASE n \in Levels(u) /\ FrameAt(u, n)' = FrameAt(u, n)
    BY <2>2 DEF Old
  <2> QED BY <1>4, <2>1, <2>2 DEF Kept
<1> QED BY <1>4, <1>5, <1>6, TameSteps

LEMMA ReturnSteps ==
  ASSUME TInv, NEW t \in Thread, ~Idle(t), Data', Tame, Return(t),
         tab' = tab \/ Locked(Top(t))
  PROVE  TInv'
<1>0. Stacks
  BY DEF TInv
<1>1. /\ Stacks' /\ Kept(t)
      /\ \A n \in Levels(t)' : n < Depth(t)
      /\ Levels(t)' = Levels(t) \ {Depth(t)}
  BY <1>0, Popped
<1>2. Depth(t) \in Int /\ \A n \in Levels(t)' : n \in Int
  BY <1>0, <1>1, Tops DEF Levels
<1>3. \A n \in Levels(t)' : ~(n >= Depth(t))
  BY <1>1, <1>2
<1>4. Reaps'
  <2>1. CASE tab' = tab
    BY <1>1, <1>3, <2>1, LockKept DEF Tame
  <2>2. CASE Locked(Top(t))
    BY <1>1, <2>2, LockGiven
  <2> QED BY <2>1, <2>2
<1>5. \A u \in Thread : \A n \in Levels(u)' : Old(u, n)
  BY <1>1, <1>3 DEF Kept, Old
<1> QED BY <1>1, <1>4, <1>5, TameSteps

\* A call of proc_reap for a process somebody knows.
LEMMA CallSteps ==
  ASSUME TInv, NEW t \in Thread, ~Idle(t), Data', Tame, tab' = tab,
         NEW l \in {"drop", "leave"}, NEW q \in AnyProc \cup {None},
         NEW c \in Proc, CallReap(t, l, q, c), parent[c] # None,
         Top(t).op = "reap" \/ Top(t).op = "exit",
         Top(t).op = "reap" => Top(t).at # "begin",
         Top(t).op = "exit" =>
           \A x \in Proc : Top(t).p = x => Recorded(x)'
  PROVE  TInv'
<1>0. Stacks
  BY DEF TInv
<1> DEFINE f == Frame(Top(t).op, l, Top(t).p, q)
           g == Frame("reap", "begin", c, None)
<1>1. /\ Depth(t) \in Levels(t) /\ FrameAt(t, Depth(t)) = Top(t)
      /\ Top(t) \in FrameType /\ Depth(t) \in Nat /\ Top(t).p \in Proc
  BY <1>0, Tops
<1>2. /\ f \in FrameType /\ f.op = Top(t).op /\ f.at = l /\ f.p = Top(t).p
      /\ g \in FrameType /\ g.op = "reap" /\ g.at = "begin" /\ g.p = c
  BY <1>1 DEF Frame, FrameType
<1>3. stack' = [stack EXCEPT ![t] = <<g, f>> \o Tail(@)]
  BY DEF CallReap
<1> HIDE DEF f, g
<1>4. /\ Stacks' /\ Kept(t)
      /\ \A n \in Levels(t)' : n >= Depth(t) => n \in {Depth(t), Depth(t) + 1}
      /\ \A n \in Levels(t)' : n = Depth(t) => FrameAt(t, n)' = f
      /\ \A n \in Levels(t)' : n = Depth(t) + 1 => FrameAt(t, n)' = g
  BY <1>0, <1>2, <1>3, Pushed
<1>5. Reaps'
  <2>1. ASSUME NEW n \in Levels(t)', n >= Depth(t), Locked(FrameAt(t, n)')
        PROVE  /\ n \in Levels(t) /\ Locked(FrameAt(t, n))
               /\ FrameAt(t, n)'.at \notin {"unlink", "remove"}
    <3>1. n = Depth(t) /\ FrameAt(t, n)' = f
      BY <1>2, <1>4, <2>1 DEF Locked
    <3> QED BY <1>1, <1>2, <2>1, <3>1 DEF Locked
  <2> QED BY <1>4, <2>1, LockKept DEF Tame
<1>6. ASSUME NEW u \in Thread, NEW n \in Levels(u)'
      PROVE  Old(u, n) \/ Proper(u, n)
  <2>1. CASE u = t /\ n = Depth(t)
    <3>1. FrameAt(t, n)' = f
      BY <1>4, <2>1
    <3>2. Continued(t, n)
      BY <1>1, <1>2, <2>1, <3>1 DEF Continued, Early
    <3> QED BY <1>2, <2>1, <3>1, <3>2 DEF Proper
  <2>2. CASE u = t /\ n = Depth(t) + 1
    <3>1. FrameAt(t, n)' = g
      BY <1>4, <2>2
    <3> QED BY <1>2, <2>2, <3>1 DEF Proper, Known
  <2>3. CASE n \in Levels(u) /\ FrameAt(u, n)' = FrameAt(u, n)
    BY <2>3 DEF Old
  <2> QED BY <1>4, <2>1, <2>2, <2>3 DEF Kept
<1> QED BY <1>4, <1>5, <1>6, TameSteps

\* A new operation, that is no spawn, on processes somebody knows.
LEMMA StartSteps ==
  ASSUME TInv, NEW t \in Thread, Idle(t), Data', Tame, tab' = tab,
         NEW p \in Proc, NEW q \in AnyProc \cup {None},
         \/ /\ p \in held
            /\ stack' = [stack EXCEPT ![t] = <<Frame("exit", "status", p, None)>>]
         \/ /\ parent[p] # None
            /\ stack' = [stack EXCEPT ![t] = <<Frame("reap", "begin", p, None),
                                               Frame("wait", "drop", p, q)>>]
  PROVE  TInv'
<1>0. Stacks
  BY DEF TInv
<1> DEFINE e == Frame("exit", "status", p, None)
           f == Frame("wait", "drop", p, q)
           g == Frame("reap", "begin", p, None)
<1>1. /\ e \in FrameType /\ e.op = "exit" /\ e.at = "status" /\ e.p = p
      /\ f \in FrameType /\ f.op = "wait" /\ f.at = "drop" /\ f.p = p
      /\ g \in FrameType /\ g.op = "reap" /\ g.at = "begin" /\ g.p = p
  BY DEF Frame, FrameType
<1>2. \/ p \in held /\ stack' = [stack EXCEPT ![t] = <<e>>]
      \/ parent[p] # None /\ stack' = [stack EXCEPT ![t] = <<g, f>>]
  OBVIOUS
<1> HIDE DEF e, f, g
<1>3. /\ Stacks' /\ Kept(t) /\ Depth(t) = 0 /\ Levels(t) = {}
      /\ \A n \in Levels(t)' :
           \/ p \in held /\ FrameAt(t, n)' = e
           \/ parent[p] # None /\ FrameAt(t, n)' \in {f, g}
  <2>1. CASE p \in held /\ stack' = [stack EXCEPT ![t] = <<e>>]
    BY <1>0, <1>1, <2>1, Started
  <2>2. CASE parent[p] # None /\ stack' = [stack EXCEPT ![t] = <<g, f>>]
    <3>1. /\ Stacks' /\ Kept(t) /\ Depth(t) = 0 /\ Levels(t) = {}
          /\ Levels(t)' = {1, 2} /\ FrameAt(t, 1)' = f /\ FrameAt(t, 2)' = g
      BY <1>0, <1>1, <2>2, StartedTwo
    <3>2. \A n \in Levels(t)' : FrameAt(t, n)' \in {f, g}
      BY <3>1
    <3> QED BY <2>2, <3>1, <3>2
  <2> QED BY <1>2, <2>1, <2>2
<1>4. Reaps'
  BY <1>1, <1>3, LockKept DEF Locked, Tame
<1>5. ASSUME NEW u \in Thread, NEW n \in Levels(u)'
      PROVE  Old(u, n) \/ Proper(u, n)
  <2>1. CASE u = t
    BY <1>1, <1>3, <2>1 DEF Proper, Known
  <2>2. CASE u # t
    BY <1>3, <2>2 DEF Kept, Old
  <2> QED BY <2>1, <2>2
<1> QED BY <1>3, <1>4, <1>5, TameSteps

\* Nobody's operation moves.
LEMMA StillSteps ==
  ASSUME TInv, Data', Tame, tab' = tab, UNCHANGED stack
  PROVE  TInv'
<1>1. /\ Stacks'
      /\ \A u \in Thread : /\ Levels(u)' = Levels(u)
                           /\ \A n \in Levels(u) : FrameAt(u, n)' = FrameAt(u, n)
  BY SameStack DEF TInv
<1>2. Reaps'
  <2>1. \A u \in Thread : \A n \in Levels(u)' :
          n \in Levels(u) /\ FrameAt(u, n)' = FrameAt(u, n)
    BY <1>1
  <2> QED BY <2>1 DEF TInv, Reaps, Locked, Tame
<1>3. \A u \in Thread : \A n \in Levels(u)' : Old(u, n)
  BY <1>1 DEF Old
<1> QED BY <1>1, <1>2, <1>3, TameSteps

\* What Goto does to the frames.
LEMMA GotoFrames ==
  ASSUME Stacks, NEW t \in Thread, ~Idle(t), NEW l \in Places,
         NEW q \in AnyProc \cup {None}, Goto(t, l, q)
  PROVE  /\ Stacks' /\ Kept(t)
         /\ Depth(t) \in Levels(t) /\ FrameAt(t, Depth(t)) = Top(t)
         /\ Top(t).p \in Proc
         /\ \A u \in Thread : Levels(u)' = Levels(u)
         /\ \A u \in Thread : \A n \in Levels(u) :
              u # t \/ n # Depth(t) => FrameAt(u, n)' = FrameAt(u, n)
         /\ \A n \in Levels(t) : n = Depth(t) =>
              /\ FrameAt(t, n)'.op = Top(t).op /\ FrameAt(t, n)'.at = l
              /\ FrameAt(t, n)'.p = Top(t).p /\ FrameAt(t, n)'.q = q
<1> DEFINE f == Frame(Top(t).op, l, Top(t).p, q)
<1>1. /\ Depth(t) \in Levels(t) /\ FrameAt(t, Depth(t)) = Top(t)
      /\ Top(t) \in FrameType /\ Depth(t) \in Nat /\ Top(t).p \in Proc
  BY Tops
<1>2. /\ f \in FrameType /\ f.op = Top(t).op /\ f.at = l /\ f.p = Top(t).p
      /\ f.q = q
  BY <1>1 DEF Frame, FrameType, Places
<1>3. stack' = [stack EXCEPT ![t] = <<f>> \o Tail(@)]
  BY DEF Goto
<1> HIDE DEF f
<1>4. /\ Stacks' /\ Kept(t)
      /\ \A u \in Thread : Levels(u)' = Levels(u)
      /\ \A n \in Levels(t)' : n >= Depth(t) => n = Depth(t)
      /\ \A n \in Levels(t)' : n = Depth(t) => FrameAt(t, n)' = f
  BY <1>2, <1>3, Replaced
<1>5. ASSUME NEW u \in Thread, NEW n \in Levels(u), u # t \/ n # Depth(t)
      PROVE  FrameAt(u, n)' = FrameAt(u, n)
  <2>1. n \in Levels(u)'
    BY <1>4
  <2> QED BY <1>4, <1>5, <2>1 DEF Kept
<1>6. ASSUME NEW n \in Levels(t), n = Depth(t)
      PROVE  FrameAt(t, n)' = f
  BY <1>4, <1>6
<1> QED BY <1>1, <1>2, <1>4, <1>5, <1>6

LEMMA UnbornAfter ==
  ASSUME UNCHANGED host, NEW x \in Proc, Unborn(x)',
         \A u \in Thread : \A n \in Levels(u)' :
           FrameAt(u, n)'.op = "spawn" /\ FrameAt(u, n)'.at = "insert" =>
             /\ n \in Levels(u) /\ FrameAt(u, n).op = "spawn"
             /\ FrameAt(u, n).at = "insert" /\ FrameAt(u, n).p = FrameAt(u, n)'.p
  PROVE  Unborn(x)
BY DEF Unborn

-----------------------------------------------------------------------------
(* The steps that change the tree, or make a process known                 *)

LEMMA Launches ==
  ASSUME TInv, NEW t \in Thread, NEW q \in AnyProc, NEW p \in Proc,
         SpawnLaunch(t, q, p)
  PROVE  TInv'
<1>0. Stacks
  BY DEF TInv
<1> DEFINE f == Frame("spawn", "insert", p, q)
<1>1. f \in FrameType /\ f.op = "spawn" /\ f.at = "insert" /\ f.p = p
  BY DEF Frame, FrameType
<1>2. /\ host[p] = "none" /\ host' = [host EXCEPT ![p] = "running"]
      /\ Idle(t) /\ stack' = [stack EXCEPT ![t] = <<f>>]
      /\ proctil' = t
      /\ UNCHANGED <<valid, table, parent, idx, kids, zombie, status, held, tab,
                     managed, session, panic>>
  BY DEF SpawnLaunch, Start, objVars, treeVars
<1> HIDE DEF f
<1>3. /\ Stacks' /\ Kept(t) /\ Depth(t) = 0 /\ Levels(t) = {}
      /\ Levels(t)' = {1} /\ FrameAt(t, 1)' = f
  BY <1>0, <1>1, <1>2, Started
<1>4. ASSUME NEW u \in Thread, NEW n \in Levels(u)'
      PROVE  \/ u = t /\ n = 1 /\ FrameAt(u, n)' = f
             \/ Old(u, n)
  BY <1>3 DEF Kept, Old
<1>5. Data'
  BY <1>2 DEF TInv, Data, HostState
<1>6. /\ \A u \in Thread : \A n \in Levels(u) : FrameAt(u, n).p # p
      /\ parent[p] = None /\ p \notin zombie /\ p \notin held
  <2>1. Unborn(p)
    BY <1>2 DEF Unborn
  <2> QED BY <1>2, <2>1 DEF TInv, Spawns, Births
<1>7. \A x \in Proc : host'[x] # "none" <=> (host[x] # "none" \/ x = p)
  BY <1>2 DEF TInv, Data
<1>8. \A u \in Thread : \A n \in Levels(u) : FrameAt(u, n).p \in Proc
  BY <1>0, FrameTypes
<1>9. Spawns'
  <2>1. ASSUME NEW u \in Thread, NEW n \in Levels(u)', Old(u, n)
        PROVE  /\ host'[FrameAt(u, n)'.p] # "none"
               /\ Early(FrameAt(u, n)') =>
                    /\ parent'[FrameAt(u, n)'.p] = None
                    /\ FrameAt(u, n)'.p \notin zombie'
                    /\ \A v \in Thread : \A m \in Levels(v)' :
                         FrameAt(v, m)'.p = FrameAt(u, n)'.p => v = u /\ m = n
               /\ FrameAt(u, n)'.op = "spawn" /\ FrameAt(u, n)'.at # "register" =>
                    /\ FrameAt(u, n)'.p \notin held'
                    /\ \A v \in Thread : \A m \in Levels(v)' :
                         FrameAt(v, m)'.op = "spawn" /\ FrameAt(v, m)'.p = FrameAt(u, n)'.p
                           => v = u /\ m = n
    <3>1. n \in Levels(u) /\ FrameAt(u, n)' = FrameAt(u, n) /\ FrameAt(u, n).p # p
          /\ FrameAt(u, n).p \in Proc
      BY <1>6, <1>8, <2>1 DEF Old
    <3>2. host'[FrameAt(u, n)'.p] # "none"
      BY <1>7, <3>1 DEF TInv, Spawns
    <3>3. ASSUME Early(FrameAt(u, n))
          PROVE  /\ parent'[FrameAt(u, n)'.p] = None
                 /\ FrameAt(u, n)'.p \notin zombie'
                 /\ \A v \in Thread : \A m \in Levels(v)' :
                      FrameAt(v, m)'.p = FrameAt(u, n)'.p => v = u /\ m = n
      <4>1. /\ parent[FrameAt(u, n).p] = None /\ FrameAt(u, n).p \notin zombie
            /\ \A v \in Thread : \A m \in Levels(v) :
                 FrameAt(v, m).p = FrameAt(u, n).p => v = u /\ m = n
        BY <3>1, <3>3 DEF TInv, Spawns, Early
      <4> QED BY <1>1, <1>2, <1>4, <3>1, <4>1 DEF Old
    <3>4. ASSUME FrameAt(u, n).op = "spawn", FrameAt(u, n).at # "register"
          PROVE  /\ FrameAt(u, n)'.p \notin held'
                 /\ \A v \in Thread : \A m \in Levels(v)' :
                      FrameAt(v, m)'.op = "spawn" /\ FrameAt(v, m)'.p = FrameAt(u, n)'.p
                        => v = u /\ m = n
      <4>1. /\ FrameAt(u, n).p \notin held
            /\ \A v \in Thread : \A m \in Levels(v) :
                 FrameAt(v, m).op = "spawn" /\ FrameAt(v, m).p = FrameAt(u, n).p
                   => v = u /\ m = n
        BY <3>1, <3>4 DEF TInv, Spawns
      <4> QED BY <1>1, <1>2, <1>4, <3>1, <4>1 DEF Old
    <3> QED BY <3>1, <3>2, <3>3, <3>4
  <2>2. /\ host'[p] # "none" /\ parent'[p] = None /\ p \notin zombie'
        /\ p \notin held'
        /\ \A v \in Thread : \A m \in Levels(v)' :
             FrameAt(v, m)'.p = p => v = t /\ m = 1
    BY <1>2, <1>4, <1>6, <1>7 DEF Old
  <2>3. ASSUME NEW u \in Thread, NEW n \in Levels(u)', u = t, n = 1, FrameAt(u, n)' = f
        PROVE  /\ host'[FrameAt(u, n)'.p] # "none"
               /\ Early(FrameAt(u, n)') =>
                    /\ parent'[FrameAt(u, n)'.p] = None
                    /\ FrameAt(u, n)'.p \notin zombie'
                    /\ \A v \in Thread : \A m \in Levels(v)' :
                         FrameAt(v, m)'.p = FrameAt(u, n)'.p => v = u /\ m = n
               /\ FrameAt(u, n)'.op = "spawn" /\ FrameAt(u, n)'.at # "register" =>
                    /\ FrameAt(u, n)'.p \notin held'
                    /\ \A v \in Thread : \A m \in Levels(v)' :
                         FrameAt(v, m)'.op = "spawn" /\ FrameAt(v, m)'.p = FrameAt(u, n)'.p
                           => v = u /\ m = n
    BY <1>1, <2>2, <2>3
  <2> QED BY <1>4, <2>1, <2>3 DEF Spawns, Early
<1>10. \A x \in Proc : Unborn(x)' => Unborn(x)
  <2> SUFFICES ASSUME NEW x \in Proc, Unborn(x)' PROVE Unborn(x)
    OBVIOUS
  <2>1. CASE host'[x] = "none" \/ x = p
    BY <1>2, <1>7, <2>1 DEF Unborn
  <2>2. ASSUME NEW u \in Thread, NEW n \in Levels(u)', x # p,
               FrameAt(u, n)'.op = "spawn", FrameAt(u, n)'.at = "insert",
               FrameAt(u, n)'.p = x
        PROVE  Unborn(x)
    <3>1. Old(u, n)
      BY <1>1, <1>4, <2>2
    <3> QED BY <2>2, <3>1 DEF Old, Unborn
  <2> QED BY <2>1, <2>2 DEF Unborn
<1>11. Births'
  <2>1. \A x \in Proc : Unborn(x)' =>
          x \notin valid' \cup table' \cup held' /\ \A y \in Proc : parent'[y] # x
    BY <1>2, <1>10 DEF TInv, Births
  <2>2. \A x \in Proc : host'[x] = "none" => parent'[x] = None /\ x \notin zombie'
    BY <1>2, <1>7 DEF TInv, Births
  <2>3. ASSUME NEW u \in Thread, NEW n \in Levels(u)',
               FrameAt(u, n)'.op = "spawn", FrameAt(u, n)'.at = "contract"
        PROVE  /\ FrameAt(u, n)'.q \in AnyProc
               /\ \A x \in Proc : FrameAt(u, n)'.q = x => ~Unborn(x)'
    <3>1. Old(u, n)
      BY <1>1, <1>4, <2>3
    <3>2. /\ FrameAt(u, n).q \in AnyProc
          /\ \A x \in Proc : FrameAt(u, n).q = x => ~Unborn(x)
      BY <2>3, <3>1 DEF Old, TInv, Births
    <3> QED BY <1>10, <3>1, <3>2 DEF Old
  <2> QED BY <2>1, <2>2, <2>3 DEF Births
<1>12. Reaps' /\ Spinless'
  <2>1. Reaps'
    BY <1>1, <1>2, <1>3, LockKept DEF Locked
  <2>2. Spinless'
    BY <1>1, <1>4 DEF TInv, Spinless, Old
  <2> QED BY <2>1, <2>2
<1>13. KidsValid' /\ ContractSymmetric'
  BY <1>2 DEF TInv, KidsValid, ContractSymmetric
<1>14. Records'
  <2>1. \A x : Recorded(x)' <=> Recorded(x)
    BY <1>2 DEF Recorded
  <2>2. ASSUME NEW u \in Thread, NEW n \in Levels(u)', NEW x \in Proc,
               FrameAt(u, n)'.p = x,
               FrameAt(u, n)'.op = "exit", FrameAt(u, n)'.at # "status"
        PROVE  Recorded(x)'
    BY <1>1, <1>4, <2>1, <2>2 DEF TInv, Records, Old
  <2>3. \A x \in zombie' : Recorded(x)'
    BY <1>2, <2>1 DEF TInv, Records
  <2>4. \A u \in Thread : \A n \in Levels(u)' : FrameAt(u, n)'.p \in Proc
    BY <1>1, <1>4, <1>8 DEF Old
  <2> QED BY <2>2, <2>3, <2>4 DEF Records
<1> QED BY <1>3, <1>5, <1>9, <1>11, <1>12, <1>13, <1>14 DEF TInv

\* Spawns survives a step that makes its own process known.
LEMMA GotoSpawns ==
  ASSUME TInv, NEW t \in Thread, ~Idle(t), NEW l \in Places,
         NEW q \in AnyProc \cup {None}, Goto(t, l, q), UNCHANGED host,
         Top(t).op = "spawn" =>
           /\ l \in {"insert", "adopt", "contract", "undo"} => Early(Top(t))
           /\ l # "register" => Top(t).at # "register",
         \A x \in Proc : parent[x] = None /\ parent'[x] # None =>
           x = Top(t).p /\ Top(t).op = "spawn"
           /\ l \notin {"insert", "adopt", "contract", "undo"},
         \A x \in zombie' \ zombie : x = Top(t).p /\ Top(t).op # "spawn",
         \A x \in held' \ held :
           /\ x = Top(t).p /\ Top(t).op = "spawn"
           /\ Top(t).at # "register" /\ l = "register"
  PROVE  Spawns'
<1> DEFINE d == Depth(t)
           p == Top(t).p
<1>0. Stacks /\ Spawns
  BY DEF TInv
<1>1. /\ d \in Levels(t) /\ FrameAt(t, d) = Top(t) /\ p \in Proc
      /\ \A u \in Thread : Levels(u)' = Levels(u)
      /\ \A u \in Thread : \A n \in Levels(u) :
           u # t \/ n # d => FrameAt(u, n)' = FrameAt(u, n)
      /\ \A n \in Levels(t) : n = d =>
           /\ FrameAt(t, n)'.op = Top(t).op /\ FrameAt(t, n)'.at = l
           /\ FrameAt(t, n)'.p = p
  BY <1>0, GotoFrames
<1> HIDE DEF d, p
<1>2. \A u \in Thread : \A n \in Levels(u) : FrameAt(u, n).p \in Proc
  BY <1>0, FrameTypes
<1>3. \A u \in Thread : \A n \in Levels(u)' :
        /\ n \in Levels(u) /\ FrameAt(u, n)'.p = FrameAt(u, n).p
        /\ FrameAt(u, n)'.op = FrameAt(u, n).op
        /\ u # t \/ n # d => FrameAt(u, n)' = FrameAt(u, n)
        /\ u = t /\ n = d => FrameAt(u, n) = Top(t) /\ FrameAt(u, n)'.at = l
  BY <1>1 DEF p
<1>4. \A x \in Proc : parent[x] = None /\ parent'[x] # None =>
        x = p /\ Top(t).op = "spawn"
        /\ l \notin {"insert", "adopt", "contract", "undo"}
  BY DEF p
<1>5. \A x \in zombie' \ zombie : x = p /\ Top(t).op # "spawn"
  BY DEF p
<1>6. \A x \in held' \ held :
        x = p /\ Top(t).op = "spawn" /\ Top(t).at # "register" /\ l = "register"
  BY DEF p
<1> SUFFICES ASSUME NEW u \in Thread, NEW n \in Levels(u)'
    PROVE
      /\ host'[FrameAt(u, n)'.p] # "none"
      /\ Early(FrameAt(u, n)') =>
           /\ parent'[FrameAt(u, n)'.p] = None /\ FrameAt(u, n)'.p \notin zombie'
           /\ \A v \in Thread : \A m \in Levels(v)' :
                FrameAt(v, m)'.p = FrameAt(u, n)'.p => v = u /\ m = n
      /\ FrameAt(u, n)'.op = "spawn" /\ FrameAt(u, n)'.at # "register" =>
           /\ FrameAt(u, n)'.p \notin held'
           /\ \A v \in Thread : \A m \in Levels(v)' :
                FrameAt(v, m)'.op = "spawn" /\ FrameAt(v, m)'.p = FrameAt(u, n)'.p
                  => v = u /\ m = n
  BY DEF Spawns, Early
<1>7. host'[FrameAt(u, n)'.p] # "none"
  BY <1>0, <1>3 DEF Spawns
<1>8. ASSUME Early(FrameAt(u, n)')
      PROVE  /\ parent'[FrameAt(u, n)'.p] = None /\ FrameAt(u, n)'.p \notin zombie'
             /\ \A v \in Thread : \A m \in Levels(v)' :
                  FrameAt(v, m)'.p = FrameAt(u, n)'.p => v = u /\ m = n
  <2>1. Early(FrameAt(u, n))
    BY <1>3, <1>8 DEF Early
  <2>2. /\ parent[FrameAt(u, n).p] = None /\ FrameAt(u, n).p \notin zombie
        /\ \A v \in Thread : \A m \in Levels(v) :
             FrameAt(v, m).p = FrameAt(u, n).p => v = u /\ m = n
    BY <1>0, <1>3, <2>1 DEF Spawns, Early
  <2>3. FrameAt(u, n).p = p => u = t /\ n = d
    BY <1>1, <2>2 DEF p
  <2>4. u = t /\ n = d => Top(t).op = "spawn" /\ l \in {"insert", "adopt", "contract", "undo"}
    BY <1>3, <1>8 DEF Early
  <2>5. parent'[FrameAt(u, n).p] = None /\ FrameAt(u, n).p \notin zombie'
    BY <1>2, <1>3, <1>4, <1>5, <2>2, <2>3, <2>4
  <2> QED BY <1>3, <2>2, <2>5
<1>9. ASSUME FrameAt(u, n)'.op = "spawn", FrameAt(u, n)'.at # "register"
      PROVE  /\ FrameAt(u, n)'.p \notin held'
             /\ \A v \in Thread : \A m \in Levels(v)' :
                  FrameAt(v, m)'.op = "spawn" /\ FrameAt(v, m)'.p = FrameAt(u, n)'.p
                    => v = u /\ m = n
  <2>1. FrameAt(u, n).op = "spawn" /\ FrameAt(u, n).at # "register"
    BY <1>3, <1>9
  <2>2. /\ FrameAt(u, n).p \notin held
        /\ \A v \in Thread : \A m \in Levels(v) :
             FrameAt(v, m).op = "spawn" /\ FrameAt(v, m).p = FrameAt(u, n).p
               => v = u /\ m = n
    BY <1>0, <1>3, <2>1 DEF Spawns
  <2>3. FrameAt(u, n).p = p /\ Top(t).op = "spawn" => u = t /\ n = d
    BY <1>1, <2>2 DEF p
  <2>4. FrameAt(u, n).p \notin held'
    BY <1>3, <1>6, <1>9, <2>2, <2>3
  <2> QED BY <1>3, <2>2, <2>4
<1> QED BY <1>7, <1>8, <1>9

\* Births, Spinless and Records survive a step that leaves the insert frames
\* alone, or removes one.
LEMMA GotoRest ==
  ASSUME TInv, NEW t \in Thread, ~Idle(t),
         NEW l \in Places \ {"insert", "spin", "contract"},
         NEW q \in AnyProc \cup {None}, Goto(t, l, q), UNCHANGED host,
         \A x \in Proc : Unborn(x) =>
           \/ Top(t).p = x /\ Top(t).op = "spawn"
           \/ /\ x \notin valid' \cup table' \cup held'
              /\ \A y \in Proc : parent'[y] # x,
         \A x \in Proc : parent'[x] # None \/ x \in zombie' =>
           parent[x] # None \/ x \in zombie \/ x = Top(t).p,
         Top(t).op = "spawn" => \A x \in Proc : Unborn(x)' => Top(t).p # x,
         \A x \in Proc : Recorded(x) =>
           Recorded(x)' \/ (x = Top(t).p /\ Early(Top(t))),
         Top(t).op = "exit" => \A x \in Proc : Top(t).p = x => Recorded(x) /\ Recorded(x)',
         \A x \in zombie' : x \in zombie \/ (x = Top(t).p /\ Top(t).op = "exit"),
         zombie' \subseteq Proc
  PROVE  Births' /\ Spinless' /\ Records'
<1> DEFINE d == Depth(t)
<1>0. Stacks /\ Spawns
  BY DEF TInv
<1>1. /\ d \in Levels(t) /\ FrameAt(t, d) = Top(t) /\ Top(t).p \in Proc
      /\ \A u \in Thread : Levels(u)' = Levels(u)
      /\ \A u \in Thread : \A n \in Levels(u) :
           u # t \/ n # d => FrameAt(u, n)' = FrameAt(u, n)
      /\ \A n \in Levels(t) : n = d =>
           /\ FrameAt(t, n)'.op = Top(t).op /\ FrameAt(t, n)'.at = l
           /\ FrameAt(t, n)'.p = Top(t).p
  BY <1>0, GotoFrames
<1> HIDE DEF d
<1>2. \A u \in Thread : \A n \in Levels(u) : FrameAt(u, n).p \in Proc
  BY <1>0, FrameTypes
<1>3. \A u \in Thread : \A n \in Levels(u)' :
        /\ n \in Levels(u) /\ FrameAt(u, n)'.p = FrameAt(u, n).p
        /\ FrameAt(u, n)'.op = FrameAt(u, n).op
        /\ u # t \/ n # d => FrameAt(u, n)' = FrameAt(u, n)
        /\ u = t /\ n = d => FrameAt(u, n) = Top(t) /\ FrameAt(u, n)'.at = l
  BY <1>1
<1>4. host[Top(t).p] # "none"
  BY <1>0, <1>1 DEF Spawns
<1>5. \A x \in Proc : Unborn(x)' => Unborn(x)
  <2>1. \A u \in Thread : \A n \in Levels(u)' :
           FrameAt(u, n)'.op = "spawn" /\ FrameAt(u, n)'.at = "insert" =>
             /\ n \in Levels(u) /\ FrameAt(u, n).op = "spawn"
             /\ FrameAt(u, n).at = "insert" /\ FrameAt(u, n).p = FrameAt(u, n)'.p
    BY <1>3
  <2> QED BY <2>1, UnbornAfter
<1>6. \A x \in Proc : Unborn(x)' =>
        x \notin valid' \cup table' \cup held' /\ \A y \in Proc : parent'[y] # x
  BY <1>5
<1>7. \A x \in Proc : host'[x] = "none" => parent'[x] = None /\ x \notin zombie'
  BY <1>4 DEF TInv, Births
<1>8. ASSUME NEW u \in Thread, NEW n \in Levels(u)',
             FrameAt(u, n)'.op = "spawn", FrameAt(u, n)'.at = "contract"
      PROVE  /\ FrameAt(u, n)'.q \in AnyProc
             /\ \A x \in Proc : FrameAt(u, n)'.q = x => ~Unborn(x)'
  <2>1. n \in Levels(u) /\ FrameAt(u, n)' = FrameAt(u, n)
    BY <1>3, <1>8
  <2>2. /\ FrameAt(u, n).q \in AnyProc
        /\ \A x \in Proc : FrameAt(u, n).q = x => ~Unborn(x)
    BY <1>8, <2>1 DEF TInv, Births
  <2> QED BY <1>5, <2>1, <2>2
<1>9. Spinless'
  BY <1>3 DEF TInv, Spinless
<1>10. \A x \in zombie' : Recorded(x)'
  <2>1. ASSUME NEW x \in zombie PROVE Recorded(x)'
    <3>1. Recorded(x) /\ x \in Proc
      BY DEF TInv, Records, Data
    <3>2. ~(x = Top(t).p /\ Early(Top(t)))
      BY <1>1, <1>0 DEF Spawns, Early
    <3> QED BY <3>1, <3>2
  <2> QED BY <2>1
<1>11. ASSUME NEW u \in Thread, NEW n \in Levels(u)', NEW x \in Proc,
              FrameAt(u, n)'.p = x,
              FrameAt(u, n)'.op = "exit", FrameAt(u, n)'.at # "status"
       PROVE  Recorded(x)'
  <2>1. CASE u = t /\ n = d
    BY <1>3, <1>11, <2>1
  <2>2. CASE u # t \/ n # d
    <3>1. n \in Levels(u) /\ FrameAt(u, n)' = FrameAt(u, n)
      BY <1>3, <2>2
    <3>2. Recorded(x)
      BY <1>11, <3>1 DEF TInv, Records
    <3>3. ~(x = Top(t).p /\ Early(Top(t)))
      <4>1. ASSUME x = Top(t).p, Early(Top(t)) PROVE u = t /\ n = d
        BY <1>0, <1>1, <1>11, <3>1, <4>1 DEF Spawns, Early
      <4> QED BY <2>2, <4>1
    <3> QED BY <3>2, <3>3
  <2> QED BY <2>1, <2>2
<1>12. \A u \in Thread : \A n \in Levels(u)' : FrameAt(u, n)'.p \in Proc
  BY <1>2, <1>3
<1> QED BY <1>6, <1>7, <1>8, <1>9, <1>10, <1>11, <1>12 DEF Births, Records

LEMMA GotoLock ==
  ASSUME TInv, NEW t \in Thread, ~Idle(t), NEW l \in Places,
         NEW q \in AnyProc \cup {None}, Goto(t, l, q), Top(t).op # "reap",
         UNCHANGED <<parent, tab>>
  PROVE  Reaps'
<1>0. Stacks
  BY DEF TInv
<1>1. /\ Kept(t) /\ Depth(t) \in Levels(t) /\ Levels(t)' = Levels(t)
      /\ \A n \in Levels(t) : n = Depth(t) => FrameAt(t, n)'.op = Top(t).op
  BY <1>0, GotoFrames
<1>2. \A n \in Levels(t)' : n >= Depth(t) => n = Depth(t)
  BY <1>0, <1>1 DEF Levels, Depth, Stacks
<1>3. \A n \in Levels(t)' : n >= Depth(t) => ~Locked(FrameAt(t, n)')
  BY <1>1, <1>2 DEF Locked
<1> QED BY <1>1, <1>3, LockKept

\* Once its frame goes on, a process is not unborn.
LEMMA Born ==
  ASSUME TInv, NEW t \in Thread, ~Idle(t), NEW l \in Places \ {"insert"},
         NEW q \in AnyProc \cup {None}, Goto(t, l, q), Top(t).op = "spawn",
         Top(t).at # "register", UNCHANGED host
  PROVE  \A x \in Proc : Unborn(x)' => Top(t).p # x
<1> DEFINE d == Depth(t)
<1>0. Stacks /\ Spawns
  BY DEF TInv
<1>1. /\ d \in Levels(t) /\ FrameAt(t, d) = Top(t) /\ Top(t).p \in Proc
      /\ \A u \in Thread : Levels(u)' = Levels(u)
      /\ \A u \in Thread : \A n \in Levels(u) :
           u # t \/ n # d => FrameAt(u, n)' = FrameAt(u, n)
      /\ \A n \in Levels(t) : n = d => FrameAt(t, n)'.at = l
  BY <1>0, GotoFrames
<1> HIDE DEF d
<1>2. /\ host[Top(t).p] # "none"
      /\ \A u \in Thread : \A m \in Levels(u) :
           FrameAt(u, m).op = "spawn" /\ FrameAt(u, m).p = Top(t).p
             => u = t /\ m = d
  BY <1>0, <1>1 DEF Spawns
<1>3. ASSUME NEW u \in Thread, NEW n \in Levels(u)',
             FrameAt(u, n)'.op = "spawn", FrameAt(u, n)'.at = "insert",
             FrameAt(u, n)'.p = Top(t).p
      PROVE  FALSE
  <2>1. n \in Levels(u) /\ (u # t \/ n # d)
    BY <1>1, <1>3
  <2>2. FrameAt(u, n)' = FrameAt(u, n)
    BY <1>1, <2>1
  <2> QED BY <1>2, <1>3, <2>1, <2>2
<1> QED BY <1>2, <1>3 DEF Unborn

LEMMA Inserts ==
  ASSUME TInv, NEW t \in Thread, SpawnInsert(t)
  PROVE  TInv'
<1>0. /\ ~Idle(t) /\ Top(t).op = "spawn" /\ Top(t).at = "insert" /\ tab' = tab
      /\ UNCHANGED <<parent, idx, kids, zombie, status, held, managed, session, panic>>
  BY DEF SpawnInsert, At, treeVars
<1>1. Depth(t) \in Levels(t) /\ FrameAt(t, Depth(t)) = Top(t) /\ Top(t).p \in Proc
      /\ Top(t).q \in AnyProc \cup {None}
  BY <1>0, Tops DEF TInv
<1>2. PICK p \in Proc, q \in AnyProc \cup {None} : p = Top(t).p /\ q = Top(t).q
  BY <1>1
<1>3. Unborn(p)
  BY <1>0, <1>1, <1>2 DEF Unborn
<1>4. CASE /\ table' = table \cup {p} /\ valid' = valid \cup {p}
           /\ Goto(t, "adopt", q) /\ UNCHANGED <<host, proctil>>
  <2>1. Data'
    BY <1>0, <1>4 DEF TInv, Data, AnyProc
  <2>2. Spawns'
    BY <1>0, <1>4, GotoSpawns DEF Early, Places
  <2>3. \A x \in Proc : Unborn(x) =>
          x = p \/ (x \notin valid' \cup table' \cup held' /\ \A y \in Proc : parent'[y] # x)
    BY <1>0, <1>4 DEF TInv, Births
  <2>4. \A x \in Proc : Recorded(x) => Recorded(x)'
    BY <1>0, <1>3, <1>4 DEF TInv, Births, Recorded
  <2>5. \A x \in Proc : Unborn(x)' => Top(t).p # x
    BY <1>0, <1>4, Born DEF Places
  <2>6. Births' /\ Spinless' /\ Records'
    <3>1. zombie' \subseteq Proc
      BY <2>1 DEF Data
    <3>2. "adopt" \in Places \ {"insert", "spin", "contract"}
      BY DEF Places
    <3>3. /\ \A x \in Proc : Unborn(x) =>
               \/ Top(t).p = x /\ Top(t).op = "spawn"
               \/ /\ x \notin valid' \cup table' \cup held'
                  /\ \A y \in Proc : parent'[y] # x
          /\ \A x \in Proc : parent'[x] # None \/ x \in zombie' =>
               parent[x] # None \/ x \in zombie \/ x = Top(t).p
          /\ \A x \in zombie' : x \in zombie \/ (x = Top(t).p /\ Top(t).op = "exit")
      BY <1>0, <1>2, <2>3
    <3>4. Top(t).op # "exit" /\ host' = host /\ Goto(t, "adopt", q)
      BY <1>0, <1>4
    <3> HIDE <1>0, <1>2, <1>4
    <3> QED BY <1>0, <2>4, <2>5, <3>1, <3>2, <3>3, <3>4, GotoRest
  <2>7. Reaps'
    BY <1>0, <1>4, GotoLock DEF Places
  <2>8. KidsValid' /\ ContractSymmetric'
    BY <1>0, <1>4 DEF TInv, KidsValid, ContractSymmetric
  <2>9. Stacks'
    BY <1>0, <1>4, GotoFrames DEF Places, TInv
  <2> QED BY <2>1, <2>2, <2>6, <2>7, <2>8, <2>9 DEF TInv
<1>5. CASE SpawnFailed(t, p) /\ UNCHANGED <<table, valid>>
  <2>1. Data'
    BY <1>0, <1>2, <1>5 DEF TInv, Data, SpawnFailed, HostState
  <2>2. Tame
    BY <1>0, <1>5 DEF TInv, Data, SpawnFailed, Tame
  <2> QED BY <1>0, <1>5, <2>1, <2>2, ReturnSteps DEF SpawnFailed
<1> QED BY <1>2, <1>4, <1>5 DEF SpawnInsert

LEMMA Readies ==
  ASSUME TInv, NEW t \in Thread, SpawnReady(t)
  PROVE  TInv'
<1>0. /\ ~Idle(t) /\ Top(t).op = "spawn" /\ Top(t).at = "ready"
      /\ held' = held \cup {Top(t).p} /\ proctil' = None
      /\ UNCHANGED <<parent, idx, kids, zombie, status, managed, session, panic,
                     host, valid, table, tab>>
  BY DEF SpawnReady, At, treeVars, objVars
<1>1. PICK p \in Proc, q \in AnyProc \cup {None} : p = Top(t).p /\ q = Top(t).q
  BY <1>0, Tops DEF TInv
<1>2. Goto(t, "register", q)
  BY <1>1 DEF SpawnReady
<1>3. Data'
  BY <1>0, <1>1 DEF TInv, Data
<1>4. Spawns'
  BY <1>0, <1>2, GotoSpawns DEF Places
<1>5. \A x \in Proc : Unborn(x) =>
        x = p \/ (x \notin valid' \cup table' \cup held' /\ \A y \in Proc : parent'[y] # x)
  BY <1>0, <1>1 DEF TInv, Births
<1>6. \A x \in Proc : Recorded(x) => Recorded(x)'
  BY <1>0 DEF Recorded
<1>7. \A x \in Proc : Unborn(x)' => Top(t).p # x
  BY <1>0, <1>2, Born DEF Places
<1>8. Births' /\ Spinless' /\ Records'
  BY <1>0, <1>1, <1>2, <1>3, <1>5, <1>6, <1>7, GotoRest DEF Places, Data, TInv
<1>9. Reaps'
  BY <1>0, <1>2, GotoLock DEF Places
<1>10. KidsValid' /\ ContractSymmetric'
  BY <1>0 DEF TInv, KidsValid, ContractSymmetric
<1>11. Stacks'
  BY <1>0, <1>2, GotoFrames DEF Places, TInv
<1> QED BY <1>3, <1>4, <1>8, <1>9, <1>10, <1>11 DEF TInv

LEMMA Marks ==
  ASSUME TInv, NEW t \in Thread, ExitMark(t)
  PROVE  TInv'
<1>0. /\ ~Idle(t) /\ Top(t).op = "exit" /\ Top(t).at = "mark"
      /\ zombie' = zombie \cup {Top(t).p} /\ Goto(t, "notify", None)
      /\ UNCHANGED <<parent, idx, kids, held, status, managed, session, panic,
                     host, valid, table, tab, proctil>>
  BY DEF ExitMark, At, treeVars, objVars, hostVars, lockVars
<1>1. Depth(t) \in Levels(t) /\ FrameAt(t, Depth(t)) = Top(t) /\ Top(t).p \in Proc
  BY <1>0, Tops DEF TInv
<1>3. Data'
  BY <1>0, <1>1 DEF TInv, Data
<1>4. Spawns'
  BY <1>0, GotoSpawns DEF Places
<1>5. \A x \in Proc : Unborn(x) =>
        x \notin valid' \cup table' \cup held' /\ \A y \in Proc : parent'[y] # x
  BY <1>0 DEF TInv, Births
<1>6. \A x \in Proc : (Recorded(x) => Recorded(x)') /\ (Top(t).p = x => Recorded(x))
  BY <1>0, <1>1 DEF TInv, Records, Recorded
<1>8. Births' /\ Spinless' /\ Records'
  BY <1>0, <1>3, <1>5, <1>6, GotoRest DEF Places, Data
<1>9. Reaps'
  BY <1>0, GotoLock DEF Places
<1>10. KidsValid' /\ ContractSymmetric'
  BY <1>0 DEF TInv, KidsValid, ContractSymmetric
<1>11. Stacks'
  BY <1>0, GotoFrames DEF Places, TInv
<1> QED BY <1>3, <1>4, <1>8, <1>9, <1>10, <1>11 DEF TInv

\* No frame but the spawn's own is busy with p, so the contract is p's first.
LEMMA Contracts ==
  ASSUME TInv, NEW t \in Thread, SpawnContract(t)
  PROVE  TInv'
<1>0. /\ ~Idle(t) /\ Top(t).op = "spawn" /\ Top(t).at = "contract"
      /\ UNCHANGED <<zombie, status, host, held, managed, session, panic,
                     valid, table, tab, proctil>>
  BY DEF SpawnContract, At, hostVars, lockVars
<1>1. Depth(t) \in Levels(t) /\ FrameAt(t, Depth(t)) = Top(t) /\ Top(t).p \in Proc
      /\ Top(t).q \in AnyProc \cup {None}
  BY <1>0, Tops DEF TInv
<1>2. PICK p \in Proc, q \in AnyProc \cup {None} : p = Top(t).p /\ q = Top(t).q
  BY <1>1
<1>3. /\ q \in AnyProc /\ \A x \in Proc : q = x => ~Unborn(x)
  BY <1>0, <1>1, <1>2 DEF TInv, Births
<1>4. /\ parent[p] = None /\ p \notin zombie
      /\ \A u \in Thread : \A m \in Levels(u) :
           FrameAt(u, m).p = p => u = t /\ m = Depth(t)
  BY <1>0, <1>1, <1>2 DEF TInv, Spawns, Early
<1>5. CASE /\ p \in valid /\ parent' = [parent EXCEPT ![p] = q]
           /\ idx' = [idx EXCEPT ![p] = Len(kids[q])]
           /\ kids' = [kids EXCEPT ![q] = Append(@, p)]
           /\ Goto(t, "ready", q)
  <2>0. /\ Append(kids[q], p) \in Seq(Proc)
        /\ Len(Append(kids[q], p)) = Len(kids[q]) + 1
        /\ \A i \in 1 .. Len(kids[q]) : Append(kids[q], p)[i] = kids[q][i]
        /\ Append(kids[q], p)[Len(kids[q]) + 1] = p
        /\ kids[q] \in Seq(Proc) /\ Len(kids[q]) \in Nat
    <3>1. kids[q] \in Seq(Proc)
      BY <1>3 DEF TInv, Data
    <3> QED BY <3>1, AppendProperties, LenProperties
  <2>1. Data'
    BY <1>0, <1>3, <1>5, <2>0 DEF TInv, Data
  <2>2. /\ parent'[p] = q /\ \A x \in Proc : x # p => parent'[x] = parent[x]
        /\ idx'[p] = Len(kids[q]) /\ \A x \in Proc : x # p => idx'[x] = idx[x]
        /\ kids'[q] = Append(kids[q], p)
        /\ \A r \in AnyProc : r # q => kids'[r] = kids[r]
    BY <1>3, <1>5 DEF TInv, Data
  <2>3. Spawns'
    BY <1>0, <1>2, <1>5, <2>2, GotoSpawns DEF Places
  <2>4. \A x \in Proc : Unborn(x) =>
          \/ Top(t).p = x /\ Top(t).op = "spawn"
          \/ /\ x \notin valid' \cup table' \cup held'
             /\ \A y \in Proc : parent'[y] # x
    BY <1>0, <1>3, <2>2 DEF TInv, Births
  <2>5. \A x \in Proc : Recorded(x) => Recorded(x)' \/ x = p
    BY <1>0, <2>2 DEF Recorded
  <2>6. \A x \in Proc : Unborn(x)' => Top(t).p # x
    BY <1>0, <1>5, Born DEF Places
  <2>7. Births' /\ Spinless' /\ Records'
    <3>1. zombie' \subseteq Proc
      BY <2>1 DEF Data
    <3>2. "ready" \in Places \ {"insert", "spin", "contract"}
      BY DEF Places
    <3>3. /\ \A x \in Proc : parent'[x] # None \/ x \in zombie' =>
               parent[x] # None \/ x \in zombie \/ x = Top(t).p
          /\ \A x \in zombie' : x \in zombie
      BY <1>0, <1>2, <2>2
    <3>4. Top(t).op # "exit" /\ host' = host /\ Goto(t, "ready", q) /\ Early(Top(t))
      BY <1>0, <1>5 DEF Early
    <3>5. \A x \in Proc : Recorded(x) =>
            Recorded(x)' \/ (x = Top(t).p /\ Early(Top(t)))
      BY <1>2, <2>5, <3>4
    <3> HIDE <1>0, <1>2, <1>4
    <3> QED BY <1>0, <2>4, <2>6, <3>1, <3>2, <3>3, <3>4, <3>5, GotoRest
  <2>8. /\ Stacks' /\ Levels(t)' = Levels(t)
        /\ \A u \in Thread : Levels(u)' = Levels(u)
        /\ \A u \in Thread : \A n \in Levels(u) :
             u # t \/ n # Depth(t) => FrameAt(u, n)' = FrameAt(u, n)
        /\ \A n \in Levels(t) : n = Depth(t) => FrameAt(t, n)'.op = "spawn"
    BY <1>0, <1>5, GotoFrames DEF Places, TInv
  <2>9. Reaps'
    <3>1. ASSUME NEW u \in Thread, NEW n \in Levels(u)', Locked(FrameAt(u, n)')
          PROVE  /\ n \in Levels(u) /\ FrameAt(u, n)' = FrameAt(u, n)
                 /\ FrameAt(u, n).p # p /\ FrameAt(u, n).p \in Proc
      <4>1. n \in Levels(u)
        BY <2>8
      <4>2. ~(u = t /\ n = Depth(t))
        BY <2>8, <3>1, <4>1 DEF Locked
      <4>3. FrameAt(u, n).p # p
        BY <1>4, <4>1, <4>2
      <4>4. FrameAt(u, n).p \in Proc
        BY <4>1, FrameTypes DEF TInv
      <4> QED BY <2>8, <4>1, <4>2, <4>3, <4>4
    <3> QED BY <1>0, <2>2, <3>1 DEF TInv, Reaps, Locked
  <2>10. ASSUME NEW r \in AnyProc, NEW i \in 1 .. Len(kids'[r])
         PROVE  \/ r = q /\ i = Len(kids[q]) + 1 /\ kids'[r][i] = p
                \/ i \in 1 .. Len(kids[r]) /\ kids'[r][i] = kids[r][i]
    BY <2>0, <2>2
  <2>11. \A r \in AnyProc : \A i \in 1 .. Len(kids[r]) :
           kids[r][i] # p /\ kids[r][i] \in Proc
    <3>1. ASSUME NEW r \in AnyProc, NEW i \in 1 .. Len(kids[r])
          PROVE  kids[r][i] # p /\ kids[r][i] \in Proc
      <4>1. kids[r] \in Seq(Proc)
        BY DEF TInv, Data
      <4>2. kids[r][i] \in Proc
        BY <4>1, ElementOfSeq
      <4>3. parent[kids[r][i]] = r /\ r # None
        BY ProcTreeAssumption DEF TInv, ContractSymmetric, AnyProc
      <4> QED BY <1>4, <4>2, <4>3
    <3> QED BY <3>1
  <2>12. KidsValid'
    <3>1. ASSUME NEW r \in AnyProc, NEW i \in 1 .. Len(kids'[r])
          PROVE  kids'[r][i] \in valid
      BY <1>5, <2>10 DEF TInv, KidsValid
    <3> QED BY <1>0, <3>1 DEF KidsValid
  <2>13. ContractSymmetric'
    <3>1. ASSUME NEW r \in AnyProc, NEW i \in 1 .. Len(kids'[r])
          PROVE  parent'[kids'[r][i]] = r /\ idx'[kids'[r][i]] = i - 1
      <4>1. CASE r = q /\ i = Len(kids[q]) + 1 /\ kids'[r][i] = p
        BY <2>0, <2>2, <4>1
      <4>2. CASE i \in 1 .. Len(kids[r]) /\ kids'[r][i] = kids[r][i]
        <5>1. parent[kids[r][i]] = r /\ idx[kids[r][i]] = i - 1
          BY <4>2 DEF TInv, ContractSymmetric
        <5> QED BY <2>2, <2>11, <4>2, <5>1
      <4> QED BY <2>10, <4>1, <4>2
    <3>2. ASSUME NEW x \in Proc, parent'[x] # None
          PROVE  \E i \in 1 .. Len(kids'[parent'[x]]) : kids'[parent'[x]][i] = x
      <4>1. CASE x = p
        <5>1. Len(kids[q]) + 1 \in 1 .. Len(kids'[q])
          BY <2>0, <2>2
        <5> QED BY <2>0, <2>2, <4>1, <5>1
      <4>2. CASE x # p
        <5>1. parent'[x] = parent[x] /\ parent[x] \in AnyProc
          BY <2>2, <3>2, <4>2 DEF TInv, Data
        <5>2. PICK i \in 1 .. Len(kids[parent[x]]) : kids[parent[x]][i] = x
          BY <3>2, <5>1 DEF TInv, ContractSymmetric
        <5>3. i \in 1 .. Len(kids'[parent[x]]) /\ kids'[parent[x]][i] = x
          <6>1. CASE parent[x] = q
            BY <2>0, <2>2, <5>2, <6>1
          <6>2. CASE parent[x] # q
            BY <2>2, <5>1, <5>2, <6>2
          <6> QED BY <6>1, <6>2
        <5> QED BY <5>1, <5>3
      <4> QED BY <4>1, <4>2
    <3> QED BY <3>1, <3>2 DEF ContractSymmetric
  <2> QED BY <2>1, <2>3, <2>7, <2>8, <2>9, <2>12, <2>13 DEF TInv
<1>6. CASE Goto(t, "undo", q) /\ UNCHANGED treeVars
  <2>1. Data' /\ Tame
    BY <1>0, <1>6 DEF TInv, Data, Tame, treeVars
  <2>2. Early(Top(t))
    BY <1>0 DEF Early
  <2> QED BY <1>0, <1>6, <2>1, <2>2, GotoSteps DEF Places
<1> QED BY <1>2, <1>5, <1>6 DEF SpawnContract

\* The last child takes the slot of the one that leaves.
LEMMA Unlinks ==
  ASSUME TInv, NEW t \in Thread, ReapUnlink(t)
  PROVE  TInv'
<1>0. /\ ~Idle(t) /\ Top(t).op = "reap" /\ Top(t).at = "unlink"
      /\ Goto(t, "remove", None)
      /\ UNCHANGED <<zombie, status, host, held, managed, session, panic,
                     valid, table, tab, proctil>>
  BY DEF ReapUnlink, At, hostVars, lockVars
<1>1. Depth(t) \in Levels(t) /\ FrameAt(t, Depth(t)) = Top(t) /\ Top(t).p \in Proc
      /\ Top(t).q \in AnyProc \cup {None}
  BY <1>0, Tops DEF TInv
<1>2. PICK p \in Proc, q \in AnyProc \cup {None} : p = Top(t).p /\ q = Top(t).q
  BY <1>1
<1>3. /\ q \in AnyProc /\ parent[p] = q /\ tab = t
      /\ \A m \in Levels(t) : Locked(FrameAt(t, m)) => m = Depth(t)
  BY <1>0, <1>1, <1>2 DEF TInv, Reaps, Locked
<1> DEFINE s == kids[q]
           n == Len(s)
           last == s[n]
           k == idx[p] + 1
<1>4. /\ s \in Seq(Proc) /\ n \in Nat
      /\ \A i \in 1 .. n : s[i] \in Proc /\ parent[s[i]] = q /\ idx[s[i]] = i - 1
      /\ \E i \in 1 .. n : s[i] = p
  <2>1. s \in Seq(Proc)
    BY <1>3 DEF TInv, Data
  <2>2. \A i \in 1 .. n : s[i] \in Proc
    BY <2>1, ElementOfSeq
  <2>3. q # None
    BY <1>3, ProcTreeAssumption DEF AnyProc
  <2> QED BY <1>3, <2>1, <2>2, <2>3, LenProperties DEF TInv, ContractSymmetric
<1>5. k \in 1 .. n /\ s[k] = p /\ n > 0 /\ last \in Proc /\ idx[last] = n - 1
      /\ parent[last] = q
  BY <1>4
<1>6. /\ kids' = [kids EXCEPT ![q] = SubSeq([s EXCEPT ![k] = last], 1, n - 1)]
      /\ idx' = [idx EXCEPT ![last] = idx[p], ![p] = 0]
      /\ parent' = [parent EXCEPT ![p] = None]
  BY <1>2 DEF ReapUnlink, MovedIdx, LastKid
<1> DEFINE r == SubSeq([s EXCEPT ![k] = last], 1, n - 1)
<1>7. /\ r \in Seq(Proc) /\ Len(r) = n - 1
      /\ \A i \in 1 .. n - 1 : r[i] = IF i = k THEN last ELSE s[i]
  <2>1. \A i \in 1 .. n - 1 : [s EXCEPT ![k] = last][i] = IF i = k THEN last ELSE s[i]
    BY <1>4, <1>5, ExceptSeq
  <2>2. \A i \in 1 .. n - 1 : [s EXCEPT ![k] = last][i] \in Proc
    BY <1>4, <1>5, <2>1
  <2> QED BY <1>4, <1>5, <2>1, <2>2, SubSeqProperties
<1>7a. k = idx[p] + 1 /\ idx[p] \in Nat /\ last \in Proc
  BY <1>5 DEF TInv, Data
<1>7b. idx' = [idx EXCEPT ![last] = idx[p], ![p] = 0]
  BY <1>6
<1>7c. kids' = [kids EXCEPT ![q] = r] /\ parent' = [parent EXCEPT ![p] = None]
  BY <1>6
<1> HIDE DEF r, s, n, last, k
<1>8. /\ parent'[p] = None /\ \A x \in Proc : x # p => parent'[x] = parent[x]
      /\ idx' \in [Proc -> Nat]
      /\ \A x \in Proc : x # p /\ x # last => idx'[x] = idx[x]
      /\ last # p => idx'[last] = k - 1
      /\ kids' \in [AnyProc -> Seq(Proc)]
      /\ kids'[q] = r /\ \A x \in AnyProc : x # q => kids'[x] = kids[x]
  <2>1. idx \in [Proc -> Nat] /\ kids \in [AnyProc -> Seq(Proc)]
        /\ parent \in [Proc -> AnyProc \cup {None}]
    BY DEF TInv, Data
  <2>2. kids' \in [AnyProc -> Seq(Proc)]
        /\ kids'[q] = r /\ \A x \in AnyProc : x # q => kids'[x] = kids[x]
    BY <1>3, <1>7, <1>7c, <2>1
  <2>3. idx' \in [Proc -> Nat]
    BY <1>7b, <1>7a, <2>1
  <2>4. \A x \in Proc : x # p /\ x # last => idx'[x] = idx[x]
    BY <1>7b, <2>1
  <2>5. last # p => idx'[last] = idx[p]
    BY <1>7b, <1>7a, <2>1
  <2> QED BY <1>7c, <1>7a, <2>1, <2>2, <2>3, <2>4, <2>5
<1>9. Data'
  BY <1>0, <1>6, <1>8 DEF TInv, Data
<1>10. Spawns'
  BY <1>0, <1>8, GotoSpawns, <1>2 DEF Places
<1>11. Births' /\ Spinless' /\ Records'
  <2>1. zombie' \subseteq Proc
    BY <1>9 DEF Data
  <2>2. "remove" \in Places \ {"insert", "spin", "contract"}
    BY DEF Places
  <2>3. \A x \in Proc : Unborn(x) =>
          /\ x \notin valid' \cup table' \cup held'
          /\ \A y \in Proc : parent'[y] # x
    BY <1>0, <1>8, ProcTreeAssumption DEF TInv, Births
  <2>4. /\ \A x \in Proc : parent'[x] # None \/ x \in zombie' =>
             parent[x] # None \/ x \in zombie
        /\ \A x \in zombie' : x \in zombie
    BY <1>0, <1>8
  <2>5. \A x \in Proc : Recorded(x) => Recorded(x)'
    <3>1. None \notin valid
      BY ProcTreeAssumption DEF TInv, Data, AnyProc
    <3> QED BY <1>0, <1>8, <3>1 DEF Recorded
  <2>6. Top(t).op \notin {"exit", "spawn"} /\ host' = host
    BY <1>0
  <2> QED BY <1>0, <2>1, <2>2, <2>3, <2>4, <2>5, <2>6, GotoRest
<1>12. /\ Stacks' /\ \A u \in Thread : Levels(u)' = Levels(u)
       /\ \A u \in Thread : \A m \in Levels(u) :
            u # t \/ m # Depth(t) => FrameAt(u, m)' = FrameAt(u, m)
       /\ \A m \in Levels(t) : m = Depth(t) =>
            FrameAt(t, m)'.at = "remove" /\ FrameAt(t, m)'.p = p
  BY <1>0, <1>2, GotoFrames DEF Places, TInv
<1>13. Reaps'
  <2>1. ASSUME NEW u \in Thread, NEW m \in Levels(u)', Locked(FrameAt(u, m)')
        PROVE  u = t /\ m = Depth(t) /\ m \in Levels(u)
    <3>1. m \in Levels(u)
      BY <1>12
    <3>2. ASSUME u # t \/ m # Depth(t) PROVE FALSE
      <4>1. Locked(FrameAt(u, m))
        BY <1>12, <2>1, <3>1, <3>2
      <4>2. u = t
        BY <1>3, <3>1, <4>1 DEF TInv, Reaps
      <4> QED BY <1>3, <3>1, <3>2, <4>1, <4>2
    <3> QED BY <3>1, <3>2
  <2> QED BY <1>0, <1>3, <1>8, <1>12, <2>1 DEF Reaps, Locked
<1>14. KidsValid'
  <2>1. ASSUME NEW x \in AnyProc, NEW i \in 1 .. Len(kids'[x])
        PROVE  kids'[x][i] \in valid
    <3>1. CASE x # q
      BY <1>8, <3>1 DEF TInv, KidsValid
    <3>2. CASE x = q
      <4>1. \A j \in 1 .. n : s[j] \in valid
        BY <1>3 DEF s, n, TInv, KidsValid
      <4>2. last \in valid
        BY <1>4, <1>5, <4>1 DEF last
      <4>3. i \in 1 .. n - 1 /\ kids'[x][i] = IF i = k THEN last ELSE s[i]
        BY <1>4, <1>7, <1>8, <2>1, <3>2
      <4>4. i \in 1 .. n
        BY <1>4, <4>3
      <4> QED BY <4>1, <4>2, <4>3, <4>4
    <3> QED BY <3>1, <3>2
  <2> QED BY <1>0, <2>1 DEF KidsValid
<1>15. ContractSymmetric'
  <2>1. ASSUME NEW x \in AnyProc, NEW i \in 1 .. Len(kids'[x])
        PROVE  parent'[kids'[x][i]] = x /\ idx'[kids'[x][i]] = i - 1
    <3>1. CASE x # q
      <4>1. kids'[x] = kids[x] /\ kids[x] \in Seq(Proc)
        BY <1>8, <3>1 DEF TInv, Data
      <4>2. kids[x][i] \in Proc /\ parent[kids[x][i]] = x /\ idx[kids[x][i]] = i - 1
        BY <2>1, <4>1, ElementOfSeq DEF TInv, ContractSymmetric
      <4>3. kids[x][i] # p /\ kids[x][i] # last
        BY <1>3, <1>5, <3>1, <4>2
      <4> QED BY <1>8, <4>1, <4>2, <4>3
    <3>2. CASE x = q
      <4>1. i \in 1 .. n - 1 /\ kids'[x][i] = IF i = k THEN last ELSE s[i]
        BY <1>4, <1>7, <1>8, <2>1, <3>2
      <4>2. CASE i = k
        <5>1. last # p
          BY <1>4, <1>5, <4>1, <4>2
        <5> QED BY <1>5, <1>8, <3>2, <4>1, <4>2, <5>1
      <4>3. CASE i # k
        <5>1. s[i] \in Proc /\ s[i] # p /\ s[i] # last /\ parent[s[i]] = q
              /\ idx[s[i]] = i - 1
          BY <1>4, <1>5, <4>1, <4>3 DEF k
        <5> QED BY <1>8, <3>2, <4>1, <4>3, <5>1
      <4> QED BY <4>2, <4>3
    <3> QED BY <3>1, <3>2
  <2>2. ASSUME NEW x \in Proc, parent'[x] # None
        PROVE  \E i \in 1 .. Len(kids'[parent'[x]]) : kids'[parent'[x]][i] = x
    <3>0. x # p /\ parent'[x] = parent[x] /\ parent[x] \in AnyProc
      BY <1>8, <2>2 DEF TInv, Data
    <3>1. PICK i \in 1 .. Len(kids[parent[x]]) : kids[parent[x]][i] = x
      BY <2>2, <3>0 DEF TInv, ContractSymmetric
    <3>2. CASE parent[x] # q
      BY <1>8, <3>0, <3>1, <3>2
    <3>3. CASE parent[x] = q
      <4>1. i \in 1 .. n /\ s[i] = x /\ i # k
        BY <1>5, <3>0, <3>1, <3>3 DEF s, n
      <4>2. CASE i = n
        <5>1. k \in 1 .. n - 1 /\ r[k] = x
          BY <1>4, <1>5, <1>7, <4>1, <4>2 DEF last
        <5> QED BY <1>4, <1>7, <1>8, <3>0, <3>3, <5>1
      <4>3. CASE i # n
        <5>1. i \in 1 .. n - 1 /\ r[i] = x
          BY <1>4, <1>7, <4>1, <4>3
        <5> QED BY <1>4, <1>7, <1>8, <3>0, <3>3, <5>1
      <4> QED BY <4>2, <4>3
    <3> QED BY <3>2, <3>3
  <2> QED BY <2>1, <2>2 DEF ContractSymmetric
<1> QED BY <1>9, <1>10, <1>11, <1>12, <1>13, <1>14, <1>15 DEF TInv

-----------------------------------------------------------------------------
(* The remaining steps                                                     *)

\* All but the references, the managed processes and the stacks.
treeState == <<valid, table, parent, idx, kids, zombie, status, host, held,
               session, tab, proctil, panic>>

LEMMA Quiets ==
  ASSUME TInv, UNCHANGED treeState, managed' \subseteq Proc
  PROVE  Data' /\ Tame /\ tab' = tab
<1>1. Data' /\ tab' = tab
  BY DEF TInv, Data, treeState
<1>2. Tame
  BY DEF TInv, Data, treeState, Tame
<1> QED BY <1>1, <1>2

LEMMA Managed == ASSUME TInv, UNCHANGED notRefs
                 PROVE  UNCHANGED treeState /\ managed' \subseteq Proc
BY DEF TInv, Data, treeState, notRefs, quietVars, hostVars, lockVars, treeVars

LEMMA TopRecorded ==
  ASSUME TInv, NEW t \in Thread, ~Idle(t), UNCHANGED treeState,
         Top(t).op = "exit", Top(t).at # "status"
  PROVE  \A x \in Proc : Top(t).p = x => Recorded(x)'
<1>1. Depth(t) \in Levels(t) /\ FrameAt(t, Depth(t)) = Top(t)
  BY Tops DEF TInv
<1>2. Recorded(Top(t).p)
  BY <1>1 DEF TInv, Records
<1> QED BY <1>2 DEF Recorded, treeState

LEMMA Adopts == ASSUME TInv, NEW t \in Thread, SpawnAdopt(t) PROVE TInv'
<1>0. /\ ~Idle(t) /\ Top(t).op = "spawn" /\ Top(t).at = "adopt"
      /\ UNCHANGED treeState /\ UNCHANGED managed
  BY DEF SpawnAdopt, At, treeVars, hostVars, lockVars, treeState
<1>1. Data' /\ Tame /\ tab' = tab
  BY <1>0, Quiets DEF TInv, Data
<1>2. Early(Top(t))
  BY <1>0 DEF Early
<1>3. PICK q \in AnyProc \cup {None} : q = Top(t).q
  BY <1>0, Tops DEF TInv
<1>4. CASE q \in valid /\ Goto(t, "contract", q)
  <2>1. q \in AnyProc /\ \A x \in Proc : q = x => ~Unborn(x)
    BY <1>4 DEF TInv, Data, Births
  <2> QED BY <1>0, <1>1, <1>2, <1>4, <2>1, GotoSteps DEF Places
<1>5. CASE Goto(t, "undo", q)
  BY <1>0, <1>1, <1>2, <1>5, GotoSteps DEF Places
<1> QED BY <1>3, <1>4, <1>5 DEF SpawnAdopt

LEMMA Undoes == ASSUME TInv, NEW t \in Thread, SpawnUndo(t) PROVE TInv'
<1>0. /\ ~Idle(t) /\ Top(t).op = "spawn" /\ Top(t).at = "undo"
      /\ UNCHANGED <<parent, idx, kids, zombie, status, held, managed, session, tab, panic>>
      /\ Return(t) /\ proctil' = None
      /\ host' = [host EXCEPT ![Top(t).p] = IF @ = "running" THEN "killed" ELSE @]
      /\ table' = table \ {Top(t).p}
      /\ valid' = IF Top(t).p \in table THEN valid \ {Top(t).p} ELSE valid
  BY DEF SpawnUndo, At, treeVars, SpawnFailed, Remove
<1>1. Depth(t) \in Levels(t) /\ FrameAt(t, Depth(t)) = Top(t) /\ Top(t).p \in Proc
  BY <1>0, Tops DEF TInv
<1>2. parent[Top(t).p] = None
  BY <1>0, <1>1 DEF TInv, Spawns, Early
<1>3. \A x \in Proc : host'[x] = "none" <=> host[x] = "none"
  BY <1>0 DEF TInv, Data
<1>4. Data'
  BY <1>0 DEF TInv, Data, HostState
<1>5. Tame
  BY <1>0, <1>1, <1>2, <1>3 DEF Tame
<1> QED BY <1>0, <1>4, <1>5, ReturnSteps

LEMMA Registers == ASSUME TInv, NEW t \in Thread, SpawnRegister(t) PROVE TInv'
<1>0. /\ ~Idle(t) /\ UNCHANGED treeState /\ managed' = managed \cup {Top(t).p}
      /\ Return(t)
  BY DEF SpawnRegister, At, treeVars, lockVars, objVars, treeState
<1>1. Top(t).p \in Proc
  BY <1>0, Tops DEF TInv
<1>2. Data' /\ Tame /\ tab' = tab
  BY <1>0, <1>1, Quiets DEF TInv, Data
<1> QED BY <1>0, <1>2, ReturnSteps

LEMMA ReapBegins == ASSUME TInv, NEW t \in Thread, ReapBegin(t) PROVE TInv'
<1>0. /\ ~Idle(t) /\ Top(t).op = "reap" /\ Top(t).at = "begin"
      /\ UNCHANGED <<valid, table, parent, idx, kids, zombie, status, host, held,
                     managed, session, proctil>>
  BY DEF ReapBegin, At, treeVars, quietVars, hostVars
<1>1. CASE panic' = TRUE /\ UNCHANGED <<tab, stack>>
  <2>1. Data' /\ Tame
    BY <1>0, <1>1 DEF TInv, Data, Tame
  <2> QED BY <1>1, <2>1, StillSteps
<1>2. CASE tab = None /\ tab' = t /\ Goto(t, "kids", None) /\ UNCHANGED panic
  <2>1. Data' /\ Tame
    BY <1>0, <1>2 DEF TInv, Data, Tame
  <2> QED BY <1>0, <1>2, <2>1, GotoSteps DEF Places
<1>3. CASE Return(t) /\ UNCHANGED <<tab, panic>>
  <2>1. Data' /\ Tame
    BY <1>0, <1>3 DEF TInv, Data, Tame
  <2> QED BY <1>0, <1>3, <2>1, ReturnSteps
<1> QED BY <1>1, <1>2, <1>3 DEF ReapBegin

\* The last child is a child, so it can be retained.
LEMMA LastKids ==
  ASSUME TInv, NEW p \in Proc, kids[p] # <<>>
  PROVE  LastKid(p) \in Proc /\ LastKid(p) \in valid /\ parent[LastKid(p)] = p
<1>1. kids[p] \in Seq(Proc) /\ p \in AnyProc
  BY DEF TInv, Data, AnyProc
<1>2. Len(kids[p]) \in 1 .. Len(kids[p])
  BY <1>1, EmptySeq, LenProperties
<1>3. kids[p][Len(kids[p])] \in Proc
  BY <1>1, <1>2, ElementOfSeq
<1> QED BY <1>1, <1>2, <1>3 DEF LastKid, TInv, KidsValid, ContractSymmetric

LEMMA KillChildren == ASSUME TInv, NEW t \in Thread, KillChild(t) PROVE TInv'
<1>0. /\ ~Idle(t) /\ Top(t).op \in {"reap", "exit"} /\ Top(t).at = "kids"
      /\ kids[Top(t).p] # <<>> /\ UNCHANGED notRefs
  BY DEF KillChild, At
<1>1. Top(t).p \in Proc
  BY <1>0, Tops DEF TInv
<1>2. /\ LastKid(Top(t).p) \in Proc /\ LastKid(Top(t).p) \in valid
      /\ parent[LastKid(Top(t).p)] = Top(t).p
  BY <1>0, <1>1, LastKids
<1>3. PICK c \in Proc : c = LastKid(Top(t).p)
  BY <1>2
<1>4. CallReap(t, "drop", c, c) /\ c \in AnyProc \cup {None} /\ parent[c] # None
  BY <1>1, <1>2, <1>3, ProcTreeAssumption DEF KillChild, AnyProc
<1>5. UNCHANGED treeState /\ Data' /\ Tame /\ tab' = tab
  BY <1>0, Quiets, Managed
<1>6. Top(t).op = "exit" => \A x \in Proc : Top(t).p = x => Recorded(x)'
  BY <1>0, <1>5, TopRecorded
<1> QED BY <1>0, <1>4, <1>5, <1>6, CallSteps

LEMMA DropChildren == ASSUME TInv, NEW t \in Thread, DropChild(t) PROVE TInv'
<1>0. /\ ~Idle(t) /\ Top(t).op \in {"reap", "exit"} /\ Top(t).at = "drop"
      /\ Goto(t, "kids", None) /\ UNCHANGED notRefs
  BY DEF DropChild, At
<1>1. UNCHANGED treeState /\ Data' /\ Tame /\ tab' = tab
  BY <1>0, Quiets, Managed
<1>2. Top(t).op = "exit" => \A x \in Proc : Top(t).p = x => Recorded(x)'
  BY <1>0, <1>1, TopRecorded
<1> QED BY <1>0, <1>1, <1>2, GotoSteps DEF Places

LEMMA ReapParents == ASSUME TInv, NEW t \in Thread, ReapParent(t) PROVE TInv'
<1>0. /\ ~Idle(t) /\ Top(t).op = "reap" /\ Top(t).at = "kids"
      /\ UNCHANGED <<valid, table, parent, idx, kids, zombie, status, host, held,
                     managed, session, proctil, panic>>
  BY DEF ReapParent, At, treeVars, quietVars, hostVars
<1>1. Top(t).p \in Proc
  BY <1>0, Tops DEF TInv
<1>2. PICK q \in AnyProc \cup {None} : q = parent[Top(t).p]
  BY <1>1 DEF TInv, Data
<1>3. Tame
  BY <1>0 DEF Tame
<1>4. CASE q = None /\ Goto(t, "remove", None) /\ UNCHANGED tab
  <2>1. Data'
    BY <1>0, <1>4 DEF TInv, Data
  <2> QED BY <1>0, <1>2, <1>3, <1>4, <2>1, GotoSteps DEF Places
<1>5. CASE q \in valid /\ Goto(t, "unlink", q) /\ UNCHANGED tab
  <2>1. Data'
    BY <1>0, <1>5 DEF TInv, Data
  <2>2. q # None
    BY <1>5, ProcTreeAssumption DEF TInv, Data, AnyProc
  <2> QED BY <1>0, <1>2, <1>3, <1>5, <2>1, <2>2, GotoSteps DEF Places
<1>6. CASE tab' = None /\ Return(t)
  <2>1. Data'
    BY <1>0, <1>6 DEF TInv, Data
  <2>2. Locked(Top(t))
    BY <1>0 DEF Locked
  <2> QED BY <1>0, <1>3, <1>6, <2>1, <2>2, ReturnSteps
<1> QED BY <1>2, <1>4, <1>5, <1>6 DEF ReapParent

LEMMA ReapRemoves == ASSUME TInv, NEW t \in Thread, ReapRemove(t) PROVE TInv'
<1>0. /\ ~Idle(t) /\ Top(t).op = "reap" /\ Top(t).at = "remove"
      /\ UNCHANGED <<parent, idx, kids, zombie, status, held, managed, session,
                     proctil, panic>>
      /\ Return(t) /\ tab' = None
      /\ host' = [host EXCEPT ![Top(t).p] =
                    IF Top(t).p \in managed /\ @ = "running" THEN "killed" ELSE @]
      /\ table' = table \ {Top(t).p}
      /\ valid' = IF Top(t).p \in table THEN valid \ {Top(t).p} ELSE valid
  BY DEF ReapRemove, At, treeVars, Remove
<1>1. Depth(t) \in Levels(t) /\ FrameAt(t, Depth(t)) = Top(t) /\ Top(t).p \in Proc
  BY <1>0, Tops DEF TInv
<1>2. Locked(Top(t)) /\ parent[Top(t).p] = None
  BY <1>0, <1>1 DEF TInv, Reaps, Locked
<1>3. \A x \in Proc : host'[x] = "none" <=> host[x] = "none"
  BY <1>0 DEF TInv, Data
<1>4. Data'
  BY <1>0 DEF TInv, Data, HostState
<1>5. Tame
  BY <1>0, <1>1, <1>2, <1>3 DEF Tame
<1> QED BY <1>0, <1>2, <1>4, <1>5, ReturnSteps

LEMMA ExitBegins ==
  ASSUME TInv, NEW t \in Thread, NEW p \in Proc, ExitBegin(t, p)
  PROVE  TInv'
<1>0. /\ host[p] = "dead" /\ host' = [host EXCEPT ![p] = "done"]
      /\ UNCHANGED <<valid, table, parent, idx, kids, zombie, status, session,
                     tab, proctil, panic>>
  BY DEF ExitBegin, objVars, treeVars, lockVars
<1>1. \A x \in Proc : host'[x] = "none" <=> host[x] = "none"
  BY <1>0 DEF TInv, Data
<1>2. CASE /\ p \in held /\ held' = held \ {p} /\ UNCHANGED managed
           /\ Start(t, Frame("exit", "status", p, None))
  <2>1. Data' /\ Tame
    BY <1>0, <1>1, <1>2 DEF TInv, Data, Tame, HostState
  <2> QED BY <1>0, <1>2, <2>1, StartSteps DEF Start
<1>3. CASE managed' = managed \ {p} /\ UNCHANGED <<held, stack>>
  <2>1. Data' /\ Tame
    BY <1>0, <1>1, <1>3 DEF TInv, Data, Tame, HostState
  <2> QED BY <1>0, <1>3, <2>1, StillSteps
<1> QED BY <1>2, <1>3 DEF ExitBegin

LEMMA ExitStatuses == ASSUME TInv, NEW t \in Thread, ExitStatus(t) PROVE TInv'
<1>0. /\ ~Idle(t) /\ Top(t).op = "exit" /\ Top(t).at = "status"
      /\ status' = status \cup {p \in {Top(t).p} : parent[p] \in valid}
      /\ Goto(t, "retain", None)
      /\ UNCHANGED <<valid, table, parent, idx, kids, zombie, host, held,
                     managed, session, tab, proctil, panic>>
  BY DEF ExitStatus, At, objVars, treeVars, hostVars, lockVars
<1>1. Top(t).p \in Proc
  BY <1>0, Tops DEF TInv
<1>2. Data' /\ Tame
  BY <1>0, <1>1 DEF TInv, Data, Tame
<1>3. \A x \in Proc : Top(t).p = x => Recorded(x)'
  BY <1>0 DEF Recorded
<1> QED BY <1>0, <1>2, <1>3, GotoSteps DEF Places

LEMMA ExitRetains == ASSUME TInv, NEW t \in Thread, ExitRetain(t) PROVE TInv'
<1>0. /\ ~Idle(t) /\ Top(t).op = "exit" /\ Top(t).at = "retain"
      /\ Goto(t, "kids", None) \/ Goto(t, "leave", None)
      /\ UNCHANGED notRefs
  BY DEF ExitRetain, At
<1>1. UNCHANGED treeState /\ Data' /\ Tame /\ tab' = tab
  BY <1>0, Quiets, Managed
<1>2. \A x \in Proc : Top(t).p = x => Recorded(x)'
  BY <1>0, <1>1, TopRecorded
<1>3. CASE Goto(t, "kids", None)
  BY <1>0, <1>1, <1>2, <1>3, GotoSteps DEF Places
<1>4. CASE Goto(t, "leave", None)
  BY <1>0, <1>1, <1>2, <1>4, GotoSteps DEF Places
<1> QED BY <1>0, <1>3, <1>4

LEMMA ExitKidsSteps == ASSUME TInv, NEW t \in Thread, ExitKids(t) PROVE TInv'
<1>0. /\ ~Idle(t) /\ Top(t).op = "exit" /\ Top(t).at = "kids"
      /\ UNCHANGED notRefs
  BY DEF ExitKids, At
<1>1. UNCHANGED treeState /\ Data' /\ Tame /\ tab' = tab
  BY <1>0, Quiets, Managed
<1>2. \A x \in Proc : Top(t).p = x => Recorded(x)'
  BY <1>0, <1>1, TopRecorded
<1>3. PICK p \in Proc : p = Top(t).p
  BY <1>0, Tops DEF TInv
<1>4. CASE parent[p] = Kernel /\ CallReap(t, "leave", None, p)
  <2>1. parent[p] # None
    BY <1>4, ProcTreeAssumption
  <2> QED BY <1>0, <1>1, <1>2, <1>4, <2>1, CallSteps
<1>5. CASE Goto(t, "mark", None)
  BY <1>0, <1>1, <1>2, <1>5, GotoSteps DEF Places
<1> QED BY <1>3, <1>4, <1>5 DEF ExitKids

LEMMA ExitNotifies == ASSUME TInv, NEW t \in Thread, ExitNotify(t) PROVE TInv'
<1>0. /\ ~Idle(t) /\ Top(t).op = "exit" /\ Top(t).at = "notify"
      /\ Goto(t, "leave", None) /\ UNCHANGED notRefs
  BY DEF ExitNotify, At
<1>1. UNCHANGED treeState /\ Data' /\ Tame /\ tab' = tab
  BY <1>0, Quiets, Managed
<1>2. \A x \in Proc : Top(t).p = x => Recorded(x)'
  BY <1>0, <1>1, TopRecorded
<1> QED BY <1>0, <1>1, <1>2, GotoSteps DEF Places

LEMMA ExitLeaves == ASSUME TInv, NEW t \in Thread, ExitLeave(t) PROVE TInv'
<1>0. /\ ~Idle(t) /\ UNCHANGED treeState /\ managed' = managed \ {Top(t).p}
      /\ Return(t)
  BY DEF ExitLeave, At, treeVars, lockVars, treeState
<1>1. Data' /\ Tame /\ tab' = tab
  BY <1>0, Quiets DEF TInv, Data
<1> QED BY <1>0, <1>1, ReturnSteps

LEMMA WaitReaps ==
  ASSUME TInv, NEW t \in Thread, NEW q \in Proc, NEW c \in Proc,
         WaitReap(t, q, c)
  PROVE  TInv'
<1>0. /\ Idle(t) /\ UNCHANGED notRefs
      /\ c \in {kids[q][i] : i \in 1 .. Len(kids[q])}
      /\ \E x \in {q, None} :
           stack' = [stack EXCEPT ![t] = <<Frame("reap", "begin", c, None),
                                           Frame("wait", "drop", c, x)>>]
  BY DEF WaitReap
<1>1. UNCHANGED treeState /\ Data' /\ Tame /\ tab' = tab
  BY <1>0, Quiets, Managed
<1>2. parent[c] # None
  BY <1>0, ProcTreeAssumption DEF TInv, ContractSymmetric, AnyProc
<1>3. PICK x \in AnyProc \cup {None} :
        stack' = [stack EXCEPT ![t] = <<Frame("reap", "begin", c, None),
                                        Frame("wait", "drop", c, x)>>]
  BY <1>0 DEF AnyProc
<1> QED BY <1>0, <1>1, <1>2, <1>3, StartSteps

LEMMA WaitDones == ASSUME TInv, NEW t \in Thread, WaitDone(t) PROVE TInv'
<1>0. ~Idle(t) /\ Return(t) /\ UNCHANGED notRefs
  BY DEF WaitDone, At
<1>1. Data' /\ Tame /\ tab' = tab
  BY <1>0, Quiets, Managed
<1> QED BY <1>0, <1>1, ReturnSteps

\* The steps that belong to no operation.
LEMMA Outside ==
  ASSUME TInv,
         \/ \E p \in Proc : HostDies(p) \/ OpenSession(p) \/ CloseSession(p)
         \/ UNCHANGED kernVars
  PROVE  TInv'
<1>1. ASSUME NEW p \in Proc, HostDies(p) PROVE TInv'
  <2>1. /\ host[p] # "none" /\ host' = [host EXCEPT ![p] = "dead"]
        /\ UNCHANGED <<valid, table, parent, idx, kids, zombie, status, held,
                       managed, session, tab, proctil, stack, panic>>
    BY <1>1 DEF HostDies, objVars, treeVars, lockVars
  <2>2. Data' /\ Tame
    BY <2>1 DEF TInv, Data, Tame, HostState
  <2> QED BY <2>1, <2>2, StillSteps
<1>2. ASSUME NEW p \in Proc, OpenSession(p) \/ CloseSession(p) PROVE TInv'
  <2>1. /\ session' = session \cup {p} \/ session' = session \ {p}
        /\ UNCHANGED <<valid, table, parent, idx, kids, zombie, status, held,
                       host, managed, tab, proctil, stack, panic>>
    BY <1>2 DEF OpenSession, CloseSession, hostVars, treeVars, lockVars
  <2>2. Data' /\ Tame
    BY <2>1 DEF TInv, Data, Tame
  <2> QED BY <2>1, <2>2, StillSteps
<1>3. CASE UNCHANGED kernVars
  <2>1. Data' /\ Tame
    BY <1>3 DEF TInv, Data, Tame, kernVars
  <2> QED BY <1>3, <2>1, StillSteps DEF kernVars
<1> QED BY <1>1, <1>2, <1>3

-----------------------------------------------------------------------------
(* The invariant                                                           *)

LEMMA Initially == Init => TInv
<1> SUFFICES ASSUME Init PROVE TInv
  OBVIOUS
<1>1. Data
  <2>1. kids \in [AnyProc -> Seq(Proc)]
    <3>1. <<>> \in Seq(Proc)
      OBVIOUS
    <3> QED BY <3>1 DEF Init
  <2>2. host \in [Proc -> HostState] /\ idx \in [Proc -> Nat]
    BY DEF Init, HostState
  <2>3. valid \subseteq AnyProc /\ parent \in [Proc -> AnyProc \cup {None}]
    BY DEF Init, AnyProc
  <2> QED BY <2>1, <2>2, <2>3 DEF Init, Data
<1>2. Stacks /\ \A t \in Thread : Levels(t) = {}
  BY DEF Init, Stacks, Levels
<1>3. Spawns /\ Reaps /\ Spinless
  BY <1>2 DEF Spawns, Reaps, Spinless
<1>4. Births
  BY <1>2, ProcTreeAssumption DEF Init, Births, Unborn
<1>5. Records
  BY <1>2 DEF Init, Records
<1>6. \A q \in AnyProc : kids[q] = <<>> /\ 1 .. Len(kids[q]) = {}
  BY DEF Init
<1>7. KidsValid /\ ContractSymmetric
  BY <1>6 DEF Init, KidsValid, ContractSymmetric
<1> QED BY <1>1, <1>2, <1>3, <1>4, <1>5, <1>7 DEF TInv

LEMMA Inductive == TInv /\ [Next]_vars => TInv'
<1> SUFFICES ASSUME TInv, [Next]_vars PROVE TInv'
  OBVIOUS
<1>1. ASSUME NEW t \in Thread, Continue(t) PROVE TInv'
  <2>1. CASE SpawnInsert(t) \/ SpawnAdopt(t) \/ SpawnContract(t) \/ SpawnUndo(t)
             \/ SpawnReady(t) \/ SpawnRegister(t)
    BY <2>1, Inserts, Adopts, Contracts, Undoes, Readies, Registers
  <2>2. CASE ReapBegin(t) \/ KillChild(t) \/ DropChild(t) \/ ReapParent(t)
             \/ ReapUnlink(t) \/ ReapRemove(t)
    BY <2>2, ReapBegins, KillChildren, DropChildren, ReapParents, Unlinks,
       ReapRemoves
  <2>3. CASE ExitStatus(t) \/ ExitRetain(t) \/ ExitKids(t) \/ ExitMark(t)
             \/ ExitNotify(t) \/ ExitLeave(t) \/ WaitDone(t)
    BY <2>3, ExitStatuses, ExitRetains, ExitKidsSteps, Marks, ExitNotifies,
       ExitLeaves, WaitDones
  <2> QED BY <1>1, <2>1, <2>2, <2>3 DEF Continue
<1>2. ASSUME NEW t \in Thread, Call(t) PROVE TInv'
  BY <1>2, Launches, WaitReaps DEF Call
<1>3. ASSUME NEW t \in Thread, NEW p \in Proc, ExitBegin(t, p) PROVE TInv'
  BY <1>3, ExitBegins
<1>4. CASE \/ \E p \in Proc : HostDies(p) \/ OpenSession(p) \/ CloseSession(p)
           \/ UNCHANGED kernVars
  BY <1>4, Outside
<1> QED BY <1>1, <1>2, <1>3, <1>4 DEF Next, Rest, Jam, vars

\* The tree, the frames and what they know of it are consistent in every
\* state, however spawns, exits, reaps and waits of any number of threads
\* interleave.
THEOREM Invariance == Spec => []TInv
<1> QED BY Initially, Inductive, PTL DEF Spec

\* parent, parent_cld_idx and the array of children of proc_reap and proc_spawn
\* agree in every state.
THEOREM Contract == Spec => []ContractSymmetric
<1>1. TInv => ContractSymmetric
  BY DEF TInv
<1> QED BY <1>1, Invariance, PTL

\* The retry of a child that cannot be retained (spawn.m:231-235) is never
\* taken.
THEOREM NeverSpins == Spec => []NoSpin
<1>1. TInv => NoSpin
  <2> SUFFICES ASSUME TInv PROVE NoSpin
    OBVIOUS
  <2>1. ASSUME NEW t \in Thread, ~Idle(t) PROVE Top(t).at # "spin"
    <3>1. Depth(t) \in Levels(t) /\ FrameAt(t, Depth(t)) = Top(t)
      BY <2>1, Tops DEF TInv
    <3> QED BY <3>1 DEF TInv, Spinless
  <2> QED BY <2>1 DEF NoSpin, At
<1> QED BY <1>1, Invariance, PTL

\* A zombie whose parent can still ask for it has its status: proc_state_change
\* comes before proc_zombify, and what it skipped stays out of reach.
THEOREM Reported == Spec => []ZombieHasStatus
<1>1. TInv => ZombieHasStatus
  BY DEF TInv, Data, Records, Recorded, ZombieHasStatus
<1> QED BY <1>1, Invariance, PTL

-----------------------------------------------------------------------------
(* What frames know of their callers, of the locks and of the sessions: the *)
(* invariant behind the lock order, the forest and the working references.  *)

\* A spawn is never under another operation.
Innermost ==
  \A t \in Thread : \A n \in Levels(t) :
    FrameAt(t, n).op = "spawn" => n = Depth(t)

\* Frame f keeps x while it has called proc_reap(x).
Calls(f, x) ==
  \/ f.at = "drop" /\ f.q = x
  \/ f.op \in {"exit", "wait"} /\ f.p = x

Callers ==
  \A t \in Thread : \A n \in Levels(t) :
    FrameAt(t, n).op = "reap" =>
      \E m \in Levels(t) : n = m + 1 /\ Calls(FrameAt(t, m), FrameAt(t, n).p)

\* Where an operation can be, and where it has nobody but p.
Fits(o, l, q) ==
  /\ o \in {"reap", "exit"} /\ l \notin {"drop", "unlink", "spin"} => q = None
  /\ o = "wait" => l = "drop"
  /\ o = "spawn" =>
       l \in {"insert", "adopt", "contract", "undo", "ready", "register"}

Tidy ==
  \A t \in Thread : \A n \in Levels(t) :
    Fits(FrameAt(t, n).op, FrameAt(t, n).at, FrameAt(t, n).q)

FrameOrder == Innermost /\ Callers /\ Tidy

Spawning(t) == ~Idle(t) /\ Top(t).op = "spawn"
Launching(t) == Spawning(t) /\ Top(t).at # "register"

LockOwners ==
  \A t \in Thread :
    /\ tab = t => ~Idle(t) /\ Top(t).op = "reap"
    /\ proctil = t <=> Launching(t)

\* A spawn's parent is kept by its session; until the contract is made its
\* child has no child, is not its own parent, and once entered is in the table.
Sessions ==
  /\ \A x \in session : host[x] # "none"
  /\ \A t \in Thread : Spawning(t) => Top(t).q \in session \cup {Kernel}

Heirless ==
  \A t \in Thread : Spawning(t) /\ Early(Top(t)) =>
    /\ Top(t).q # Top(t).p /\ \A x \in Proc : parent[x] # Top(t).p
    /\ Top(t).at # "insert" => Top(t).p \in table

Order == FrameOrder /\ LockOwners /\ Sessions /\ Heirless
OInv == TInv /\ Order

LEMMA GotoFrameOrder ==
  ASSUME Stacks, FrameOrder, NEW t \in Thread, ~Idle(t), NEW l \in Places,
         NEW q \in AnyProc \cup {None}, Goto(t, l, q), Fits(Top(t).op, l, q)
  PROVE  FrameOrder'
<1>1. /\ Depth(t) \in Levels(t) /\ FrameAt(t, Depth(t)) = Top(t)
      /\ \A u \in Thread : Levels(u)' = Levels(u)
      /\ \A u \in Thread : \A n \in Levels(u) :
           u # t \/ n # Depth(t) => FrameAt(u, n)' = FrameAt(u, n)
      /\ \A n \in Levels(t) : n = Depth(t) =>
           /\ FrameAt(t, n)'.op = Top(t).op /\ FrameAt(t, n)'.at = l
           /\ FrameAt(t, n)'.p = Top(t).p /\ FrameAt(t, n)'.q = q
  BY GotoFrames
<1>2. \A u \in Thread : Depth(u)' = Depth(u)
  BY <1>1 DEF Stacks, Levels, Depth, Goto
<1>3. \A u \in Thread : \A n \in Levels(u) :
        /\ FrameAt(u, n)'.op = FrameAt(u, n).op
        /\ FrameAt(u, n)'.p = FrameAt(u, n).p
  BY <1>1
<1>4. Innermost'
  BY <1>1, <1>2, <1>3 DEF FrameOrder, Innermost
<1>5. Tidy'
  BY <1>1 DEF FrameOrder, Tidy
<1>6. ASSUME NEW u \in Thread, NEW n \in Levels(u), FrameAt(u, n).op = "reap"
      PROVE  \E m \in Levels(u) :
               n = m + 1 /\ Calls(FrameAt(u, m)', FrameAt(u, n)'.p)
  <2>1. PICK m \in Levels(u) : n = m + 1 /\ Calls(FrameAt(u, m), FrameAt(u, n).p)
    BY <1>6 DEF FrameOrder, Callers
  <2>2. u # t \/ m # Depth(t)
    BY <2>1 DEF Levels, Depth, Stacks
  <2> QED BY <1>1, <1>3, <2>1, <2>2
<1>7. Callers'
  BY <1>1, <1>3, <1>6 DEF Callers
<1> QED BY <1>4, <1>5, <1>7 DEF FrameOrder

LEMMA ReturnFrameOrder ==
  ASSUME Stacks, FrameOrder, NEW t \in Thread, ~Idle(t), Return(t)
  PROVE  /\ FrameOrder'
         /\ ~Idle(t)' => Top(t)'.op # "spawn"
<1>1. /\ Stacks' /\ Kept(t)
      /\ \A n \in Levels(t)' : n < Depth(t)
      /\ \A u \in Thread : u # t => Levels(u)' = Levels(u)
      /\ Levels(t)' = Levels(t) \ {Depth(t)}
  BY Popped
<1>2. Depth(t) \in Nat /\ Depth(t) \in Levels(t)
  BY Tops
<1>3. ASSUME NEW u \in Thread, NEW n \in Levels(u)'
      PROVE  /\ n \in Levels(u) /\ FrameAt(u, n)' = FrameAt(u, n)
             /\ u = t => n # Depth(t)
  BY <1>1, <1>2, <1>3 DEF Kept, Levels
<1>4. \A u \in Thread : u # t => Depth(u)' = Depth(u)
  BY DEF Stacks, Depth, Return
<1>5. Innermost'
  BY <1>3, <1>4 DEF FrameOrder, Innermost
<1>6. Tidy'
  BY <1>3 DEF FrameOrder, Tidy
<1>7. ASSUME NEW u \in Thread, NEW n \in Levels(u)', FrameAt(u, n)'.op = "reap"
      PROVE  \E m \in Levels(u)' :
               n = m + 1 /\ Calls(FrameAt(u, m)', FrameAt(u, n)'.p)
  <2>1. PICK m \in Levels(u) : n = m + 1 /\ Calls(FrameAt(u, m), FrameAt(u, n).p)
    BY <1>3, <1>7 DEF FrameOrder, Callers
  <2>2. m \in Levels(u)'
    <3>1. u = t => m # Depth(t)
      BY <1>2, <1>3, <2>1 DEF Levels, Depth
    <3> QED BY <1>1, <2>1, <3>1
  <2> QED BY <1>3, <2>1, <2>2
<1>8. Callers'
  BY <1>7 DEF Callers
<1>9. ASSUME ~Idle(t)' PROVE Top(t)'.op # "spawn"
  <2>1. PICK n \in Levels(t)' : FrameAt(t, n)' = Top(t)'
    <3>1. stack'[t] \in Seq(FrameType) /\ stack'[t] # <<>>
      BY <1>1, <1>9 DEF Stacks, Idle
    <3>2. Len(stack'[t]) \in Nat /\ Len(stack'[t]) > 0
          /\ Head(stack'[t]) = stack'[t][1]
      BY <3>1, EmptySeq, HeadTailProperties
    <3>3. PICK n : n = Len(stack'[t])
      OBVIOUS
    <3> QED BY <3>2, <3>3 DEF Levels, FrameAt, Top
  <2>2. FrameAt(t, n).op # "spawn" /\ FrameAt(t, n)' = FrameAt(t, n)
    BY <1>3 DEF FrameOrder, Innermost
  <2> QED BY <2>1, <2>2
<1> QED BY <1>5, <1>6, <1>8, <1>9 DEF FrameOrder

LEMMA CallFrameOrder ==
  ASSUME Stacks, FrameOrder, NEW t \in Thread, ~Idle(t), NEW l \in {"drop", "leave"},
         NEW q \in AnyProc \cup {None}, NEW c \in Proc, CallReap(t, l, q, c),
         Top(t).op # "spawn", Fits(Top(t).op, l, q),
         (l = "drop" /\ q = c) \/ (Top(t).op = "exit" /\ Top(t).p = c)
  PROVE  FrameOrder'
<1> DEFINE f == Frame(Top(t).op, l, Top(t).p, q)
           g == Frame("reap", "begin", c, None)
<1>1. /\ Depth(t) \in Levels(t) /\ FrameAt(t, Depth(t)) = Top(t)
      /\ Top(t) \in FrameType /\ Depth(t) \in Nat /\ Top(t).p \in Proc
  BY Tops
<1>2. /\ f \in FrameType /\ f.op = Top(t).op /\ f.at = l /\ f.p = Top(t).p
      /\ f.q = q
      /\ g \in FrameType /\ g.op = "reap" /\ g.at = "begin" /\ g.p = c
      /\ g.q = None
  BY <1>1 DEF Frame, FrameType
<1>3. stack' = [stack EXCEPT ![t] = <<g, f>> \o Tail(@)]
  BY DEF CallReap
<1> HIDE DEF f, g
<1>4. /\ Stacks' /\ Kept(t)
      /\ \A n \in Levels(t)' : n >= Depth(t) => n \in {Depth(t), Depth(t) + 1}
      /\ \A n \in Levels(t)' : n = Depth(t) => FrameAt(t, n)' = f
      /\ \A n \in Levels(t)' : n = Depth(t) + 1 => FrameAt(t, n)' = g
      /\ \A u \in Thread : u # t => Levels(u)' = Levels(u)
      /\ Levels(t)' = Levels(t) \cup {Depth(t) + 1}
  BY <1>2, <1>3, Pushed
<1>5. \A u \in Thread : u # t => Depth(u)' = Depth(u)
  BY <1>3 DEF Stacks, Depth
<1>6. ASSUME NEW u \in Thread, NEW n \in Levels(u)'
      PROVE  \/ u = t /\ n = Depth(t) + 1 /\ FrameAt(u, n)' = g
             \/ u = t /\ n = Depth(t) /\ FrameAt(u, n)' = f
             \/ /\ n \in Levels(u) /\ FrameAt(u, n)' = FrameAt(u, n)
                /\ u = t => n < Depth(t)
  BY <1>1, <1>4, <1>6 DEF Kept, Levels
<1>7. Innermost'
  <2>1. ASSUME NEW u \in Thread, NEW n \in Levels(u)', FrameAt(u, n)'.op = "spawn"
        PROVE  n = Depth(u)'
    <3>1. n \in Levels(u) /\ FrameAt(u, n)' = FrameAt(u, n) /\ (u = t => n < Depth(t))
      BY <1>2, <1>6, <2>1
    <3> QED BY <1>1, <1>5, <2>1, <3>1 DEF FrameOrder, Innermost
  <2> QED BY <2>1 DEF Innermost
<1>8. Tidy'
  <2>1. Fits(g.op, g.at, g.q) /\ Fits(f.op, f.at, f.q)
    BY <1>2 DEF Fits
  <2> QED BY <1>6, <2>1 DEF FrameOrder, Tidy
<1>9. ASSUME NEW u \in Thread, NEW n \in Levels(u)', FrameAt(u, n)'.op = "reap"
      PROVE  \E m \in Levels(u)' :
               n = m + 1 /\ Calls(FrameAt(u, m)', FrameAt(u, n)'.p)
  <2>1. CASE u = t /\ n = Depth(t) + 1
    <3>1. PICK m \in Levels(t)' : m = Depth(t)
      BY <1>1, <1>4
    <3>2. FrameAt(t, m)' = f /\ FrameAt(t, n)' = g
      BY <1>4, <2>1, <3>1
    <3>3. Calls(f, c)
      BY <1>2 DEF Calls
    <3> QED BY <1>2, <2>1, <3>1, <3>2, <3>3
  <2>2. CASE /\ n \in Levels(u) /\ FrameAt(u, n)'.p = FrameAt(u, n).p
             /\ FrameAt(u, n)'.op = FrameAt(u, n).op /\ (u = t => n <= Depth(t))
    <3>1. PICK m \in Levels(u) : n = m + 1 /\ Calls(FrameAt(u, m), FrameAt(u, n).p)
      BY <1>9, <2>2 DEF FrameOrder, Callers
    <3>2. m \in Levels(u)' /\ (u = t => m < Depth(t))
      BY <1>1, <1>4, <2>2, <3>1 DEF Levels
    <3>3. FrameAt(u, m)' = FrameAt(u, m)
      <4>1. m \in Int
        BY <3>1 DEF Levels
      <4> QED BY <1>1, <1>6, <3>2, <4>1
    <3> QED BY <2>2, <3>1, <3>2, <3>3
  <2>3. CASE u = t /\ n = Depth(t) /\ FrameAt(u, n)' = f
    <3>1. /\ n \in Levels(u) /\ FrameAt(u, n)'.p = FrameAt(u, n).p
          /\ FrameAt(u, n)'.op = FrameAt(u, n).op /\ n <= Depth(t)
      BY <1>1, <1>2, <2>3
    <3> QED BY <2>2, <3>1
  <2>4. CASE /\ n \in Levels(u) /\ FrameAt(u, n)' = FrameAt(u, n)
             /\ u = t => n < Depth(t)
    <3>1. u = t => n <= Depth(t)
      BY <1>1, <2>4 DEF Levels
    <3> QED BY <2>2, <2>4, <3>1
  <2> QED BY <1>6, <2>1, <2>3, <2>4
<1>10. Callers'
  BY <1>9 DEF Callers
<1> QED BY <1>7, <1>8, <1>10 DEF FrameOrder

LEMMA StartFrameOrder ==
  ASSUME Stacks, FrameOrder, NEW t \in Thread, NEW p \in Proc,
         NEW q \in AnyProc \cup {None}, Idle(t),
         \/ stack' = [stack EXCEPT ![t] = <<Frame("exit", "status", p, None)>>]
         \/ stack' = [stack EXCEPT ![t] = <<Frame("spawn", "insert", p, q)>>]
         \/ stack' = [stack EXCEPT ![t] = <<Frame("reap", "begin", p, None),
                                            Frame("wait", "drop", p, q)>>]
  PROVE  FrameOrder'
<1> DEFINE e == Frame("exit", "status", p, None)
           s == Frame("spawn", "insert", p, q)
           f == Frame("wait", "drop", p, q)
           g == Frame("reap", "begin", p, None)
<1>1. /\ e \in FrameType /\ e.op = "exit" /\ e.at = "status" /\ e.q = None
      /\ s \in FrameType /\ s.op = "spawn" /\ s.at = "insert" /\ s.q = q
      /\ f \in FrameType /\ f.op = "wait" /\ f.at = "drop" /\ f.p = p
      /\ g \in FrameType /\ g.op = "reap" /\ g.at = "begin" /\ g.p = p
      /\ g.q = None
  BY DEF Frame, FrameType
<1>2. \/ stack' = [stack EXCEPT ![t] = <<e>>]
      \/ stack' = [stack EXCEPT ![t] = <<s>>]
      \/ stack' = [stack EXCEPT ![t] = <<g, f>>]
  OBVIOUS
<1> HIDE DEF e, f, g, s
<1>3. /\ Stacks' /\ Kept(t) /\ Depth(t) = 0 /\ Levels(t) = {}
      /\ \A u \in Thread : u # t => Levels(u)' = Levels(u)
      /\ \/ Levels(t)' = {1} /\ FrameAt(t, 1)' \in {e, s}
         \/ Levels(t)' = {1, 2} /\ FrameAt(t, 1)' = f /\ FrameAt(t, 2)' = g
  BY <1>1, <1>2, Started, StartedTwo
<1>4. \A u \in Thread : u # t => Depth(u)' = Depth(u)
  BY <1>2 DEF Stacks, Depth
<1>5. \A u \in Thread : \A n \in Levels(u)' : u # t =>
        n \in Levels(u) /\ FrameAt(u, n)' = FrameAt(u, n)
  BY <1>3 DEF Kept
<1>6. Levels(t)' = {1} => Depth(t)' = 1
  <2>1. Depth(t)' \in Nat /\ Levels(t)' = 1 .. Depth(t)'
    BY <1>3 DEF Stacks, Levels, Depth
  <2> QED BY <2>1
<1>7. Innermost'
  <2>1. ASSUME NEW n \in Levels(t)', FrameAt(t, n)'.op = "spawn"
        PROVE  n = Depth(t)'
    BY <1>1, <1>3, <1>6, <2>1
  <2>2. ASSUME NEW u \in Thread, NEW n \in Levels(u)', u # t,
               FrameAt(u, n)'.op = "spawn"
        PROVE  n = Depth(u)'
    BY <1>4, <1>5, <2>2 DEF FrameOrder, Innermost
  <2> QED BY <2>1, <2>2 DEF Innermost
<1>8. Tidy'
  <2>1. /\ Fits(e.op, e.at, e.q) /\ Fits(s.op, s.at, s.q)
        /\ Fits(f.op, f.at, f.q) /\ Fits(g.op, g.at, g.q)
    BY <1>1 DEF Fits
  <2>2. \A n \in Levels(t)' : FrameAt(t, n)' \in {e, s, f, g}
    BY <1>3
  <2>3. \A n \in Levels(t)' :
          Fits(FrameAt(t, n)'.op, FrameAt(t, n)'.at, FrameAt(t, n)'.q)
    BY <2>1, <2>2
  <2> QED BY <1>5, <2>3 DEF FrameOrder, Tidy
<1>9. Callers'
  <2>1. ASSUME NEW n \in Levels(t)', FrameAt(t, n)'.op = "reap"
        PROVE  \E m \in Levels(t)' :
                 n = m + 1 /\ Calls(FrameAt(t, m)', FrameAt(t, n)'.p)
    <3>1. Levels(t)' = {1, 2} /\ FrameAt(t, 1)' = f /\ FrameAt(t, 2)' = g
      BY <1>1, <1>3, <2>1
    <3>2. n = 2
      BY <1>1, <2>1, <3>1
    <3>3. Calls(f, p)
      BY <1>1 DEF Calls
    <3> QED BY <1>1, <3>1, <3>2, <3>3
  <2>2. ASSUME NEW u \in Thread, NEW n \in Levels(u)', u # t,
               FrameAt(u, n)'.op = "reap"
        PROVE  \E m \in Levels(u)' :
                 n = m + 1 /\ Calls(FrameAt(u, m)', FrameAt(u, n)'.p)
    <3>1. PICK m \in Levels(u) : n = m + 1 /\ Calls(FrameAt(u, m), FrameAt(u, n).p)
      BY <1>5, <2>2 DEF FrameOrder, Callers
    <3> QED BY <1>3, <1>5, <2>2, <3>1
  <2> QED BY <2>1, <2>2 DEF Callers
<1> QED BY <1>7, <1>8, <1>9 DEF FrameOrder

LEMMA StillFrameOrder ==
  ASSUME Stacks, FrameOrder, UNCHANGED stack PROVE FrameOrder'
BY DEF FrameOrder, Innermost, Callers, Tidy, Levels, FrameAt, Depth

-----------------------------------------------------------------------------
(* The innermost operation of each thread after a step of t                *)

Others(t) == \A u \in Thread \ {t} : stack'[u] = stack[u]

LEMMA GotoTop ==
  ASSUME Stacks, NEW t \in Thread, ~Idle(t), NEW l, NEW q, Goto(t, l, q)
  PROVE  /\ Others(t) /\ ~Idle(t)'
         /\ Top(t)'.op = Top(t).op /\ Top(t)'.at = l /\ Top(t)'.p = Top(t).p
         /\ Top(t)'.q = q
<1> DEFINE f == Frame(Top(t).op, l, Top(t).p, q)
<1>1. f.op = Top(t).op /\ f.at = l /\ f.p = Top(t).p /\ f.q = q
  BY DEF Frame
<1>2. stack' = [stack EXCEPT ![t] = <<f>> \o Tail(@)]
  BY DEF Goto
<1> HIDE DEF f
<1>3. stack[t] \in Seq(FrameType) /\ stack[t] # <<>>
  BY DEF Stacks, Idle
<1>4. Tail(stack[t]) \in Seq(FrameType)
  BY <1>3, HeadTailProperties
<1>5. <<f>> \o Tail(stack[t]) # <<>> /\ Head(<<f>> \o Tail(stack[t])) = f
  BY <1>4
<1>6. stack'[t] = <<f>> \o Tail(stack[t])
  BY <1>2 DEF Stacks
<1> QED BY <1>1, <1>2, <1>5, <1>6 DEF Others, Idle, Top, Stacks

LEMMA CallTop ==
  ASSUME Stacks, NEW t \in Thread, ~Idle(t), NEW l, NEW q, NEW c,
         CallReap(t, l, q, c)
  PROVE  Others(t) /\ ~Idle(t)' /\ Top(t)'.op = "reap"
<1> DEFINE f == Frame(Top(t).op, l, Top(t).p, q)
           g == Frame("reap", "begin", c, None)
<1>1. g.op = "reap"
  BY DEF Frame
<1>2. stack' = [stack EXCEPT ![t] = <<g, f>> \o Tail(@)]
  BY DEF CallReap
<1> HIDE DEF f, g
<1>3. stack[t] \in Seq(FrameType) /\ stack[t] # <<>>
  BY DEF Stacks, Idle
<1>4. Tail(stack[t]) \in Seq(FrameType)
  BY <1>3, HeadTailProperties
<1>5. <<g, f>> \o Tail(stack[t]) # <<>> /\ Head(<<g, f>> \o Tail(stack[t])) = g
  BY <1>4
<1>6. stack'[t] = <<g, f>> \o Tail(stack[t])
  BY <1>2 DEF Stacks
<1> QED BY <1>1, <1>2, <1>5, <1>6 DEF Others, Idle, Top, Stacks

\* The tops of the other threads, and what holds of them, stay.
LEMMA OrderStep ==
  ASSUME TInv, Stacks', Order, NEW t \in Thread, Others(t), FrameOrder',
         tab' \in {tab, None, t},
         tab' = t => ~Idle(t)' /\ Top(t)'.op = "reap",
         proctil' = proctil \/ {proctil, proctil'} \subseteq {None, t},
         proctil' = t <=> Launching(t)',
         session \subseteq session',
         \A x \in session' : host'[x] # "none",
         Spawning(t)' => Top(t)'.q \in session' \cup {Kernel},
         \A x \in Proc : parent'[x] \in {parent[x], None} \/ proctil = t,
         table \ table' = {} \/ (~Idle(t) /\ table \ table' \subseteq {Top(t).p}),
         Spawning(t)' /\ Early(Top(t)') =>
           /\ Top(t)'.q # Top(t)'.p /\ \A x \in Proc : parent'[x] # Top(t)'.p
           /\ Top(t)'.at # "insert" => Top(t)'.p \in table'
  PROVE  Order'
<1>1. \A u \in Thread : u # t =>
        /\ Idle(u)' <=> Idle(u)
        /\ Top(u)' = Top(u)
  BY DEF Others, Idle, Top
<1>2. LockOwners'
  <2>1. ASSUME NEW u \in Thread, u # t
        PROVE  /\ tab' = u => ~Idle(u)' /\ Top(u)'.op = "reap"
               /\ proctil' = u <=> Launching(u)'
    <3>1. /\ tab = u => ~Idle(u) /\ Top(u).op = "reap"
          /\ proctil = u <=> Launching(u)
      BY DEF Order, LockOwners
    <3>2. tab' = u => tab = u
      BY <2>1, ProcTreeAssumption
    <3>3. proctil' = u <=> proctil = u
      BY <2>1, ProcTreeAssumption
    <3>4. Launching(u)' <=> Launching(u)
      BY <1>1, <2>1 DEF Launching, Spawning
    <3> QED BY <1>1, <2>1, <3>1, <3>2, <3>3, <3>4
  <2> QED BY <2>1 DEF LockOwners
<1>3. Sessions'
  <2>1. ASSUME NEW u \in Thread, Spawning(u)'
        PROVE  Top(u)'.q \in session' \cup {Kernel}
    BY <1>1, <2>1 DEF Order, Sessions, Spawning
  <2> QED BY <2>1 DEF Sessions
<1>4. ASSUME NEW u \in Thread, u # t, Spawning(u)', Early(Top(u)')
      PROVE  /\ Top(u)'.q # Top(u)'.p /\ \A x \in Proc : parent'[x] # Top(u)'.p
             /\ Top(u)'.at # "insert" => Top(u)'.p \in table'
  <2>1. Spawning(u) /\ Early(Top(u)) /\ Top(u)' = Top(u) /\ ~Idle(u)
    BY <1>1, <1>4 DEF Spawning
  <2>2. /\ Top(u).q # Top(u).p /\ \A x \in Proc : parent[x] # Top(u).p
        /\ Top(u).at # "insert" => Top(u).p \in table
    BY <2>1 DEF Order, Heirless
  <2>3. proctil # t
    BY <1>4, <2>1 DEF Order, LockOwners, Launching, Early
  <2>4. /\ Depth(u) \in Levels(u) /\ FrameAt(u, Depth(u)) = Top(u)
        /\ Top(u).p \in Proc
    BY <2>1, Tops DEF TInv
  <2>5. ~Idle(t) => Top(t).p # Top(u).p
    <3>1. SUFFICES ASSUME ~Idle(t), Top(t).p = Top(u).p PROVE FALSE
      OBVIOUS
    <3>2. Depth(t) \in Levels(t) /\ FrameAt(t, Depth(t)) = Top(t)
      BY <3>1, Tops DEF TInv
    <3> QED BY <1>4, <2>1, <2>4, <3>1, <3>2 DEF TInv, Spawns
  <2>6. \A x \in Proc : parent'[x] # Top(u).p
    BY <2>2, <2>3, <2>4, ProcTreeAssumption
  <2>7. Top(u).p \in table => Top(u).p \in table'
    BY <2>5
  <2> QED BY <2>1, <2>2, <2>6, <2>7
<1>5. Heirless'
  BY <1>4 DEF Heirless
<1> QED BY <1>2, <1>3, <1>5 DEF Order

\* A step of t that is no part of a spawn.
Calm(t) ==
  /\ UNCHANGED <<proctil, session>>
  /\ \A x \in Proc : host'[x] = "none" <=> host[x] = "none"
  /\ \A x \in Proc : parent'[x] \in {parent[x], None}
  /\ table \ table' = {} \/ (~Idle(t) /\ table \ table' \subseteq {Top(t).p})

LEMMA CalmStep ==
  ASSUME TInv, Stacks', Order, NEW t \in Thread, Others(t), FrameOrder', Calm(t),
         ~Spawning(t), ~Spawning(t)', tab' \in {tab, None, t},
         tab' = t => ~Idle(t)' /\ Top(t)'.op = "reap"
  PROVE  Order'
<1>1. ~Launching(t) /\ ~Launching(t)'
  BY DEF Launching
<1>2. proctil # t /\ proctil' = proctil /\ session' = session
  BY <1>1 DEF Order, LockOwners, Calm
<1>3. \A x \in session' : host'[x] # "none"
  BY <1>2 DEF Order, Sessions, Calm, TInv, Data
<1> QED BY <1>1, <1>2, <1>3, OrderStep DEF Calm

LEMMA CalmGoto ==
  ASSUME TInv, Order, NEW t \in Thread, ~Idle(t), Top(t).op # "spawn", Calm(t),
         NEW l \in Places, NEW q \in AnyProc \cup {None}, Goto(t, l, q),
         Fits(Top(t).op, l, q),
         tab' = tab \/ (Top(t).op = "reap" /\ tab' = t)
  PROVE  Order'
<1>1. Stacks /\ FrameOrder
  BY DEF TInv, Order
<1>2. Stacks' /\ FrameOrder'
  BY <1>1, GotoFrames, GotoFrameOrder
<1>3. Others(t) /\ ~Idle(t)' /\ Top(t)'.op = Top(t).op
  BY <1>1, GotoTop
<1>4. ~Spawning(t) /\ ~Spawning(t)'
  BY <1>3 DEF Spawning
<1>5. tab' = t => ~Idle(t)' /\ Top(t)'.op = "reap"
  BY <1>3 DEF Order, LockOwners
<1> QED BY <1>2, <1>3, <1>4, <1>5, CalmStep

LEMMA CalmReturn ==
  ASSUME TInv, Order, NEW t \in Thread, ~Idle(t), Top(t).op # "spawn", Calm(t),
         Return(t), tab' \in {tab, None}, tab' # t
  PROVE  Order'
<1>1. Stacks /\ FrameOrder
  BY DEF TInv, Order
<1>2. Stacks' /\ FrameOrder' /\ (~Idle(t)' => Top(t)'.op # "spawn")
  BY <1>1, Popped, ReturnFrameOrder
<1>3. Others(t)
  BY <1>1 DEF Others, Return, Stacks
<1>4. ~Spawning(t) /\ ~Spawning(t)'
  BY <1>2 DEF Spawning
<1> QED BY <1>2, <1>3, <1>4, CalmStep

LEMMA CalmCall ==
  ASSUME TInv, Order, NEW t \in Thread, ~Idle(t), Top(t).op # "spawn", Calm(t),
         NEW l \in {"drop", "leave"}, NEW q \in AnyProc \cup {None},
         NEW c \in Proc, CallReap(t, l, q, c), Fits(Top(t).op, l, q), tab' = tab,
         (l = "drop" /\ q = c) \/ (Top(t).op = "exit" /\ Top(t).p = c), Stacks'
  PROVE  Order'
<1>1. Stacks /\ FrameOrder
  BY DEF TInv, Order
<1>2. FrameOrder'
  BY <1>1, CallFrameOrder
<1>3. Others(t) /\ ~Idle(t)' /\ Top(t)'.op = "reap"
  BY <1>1, CallTop
<1>4. ~Spawning(t) /\ ~Spawning(t)'
  BY <1>3 DEF Spawning
<1> QED BY <1>2, <1>3, <1>4, CalmStep

LEMMA CalmStart ==
  ASSUME TInv, Order, NEW t \in Thread, Idle(t), Calm(t), tab' = tab, Stacks',
         NEW p \in Proc, NEW q \in AnyProc \cup {None},
         \/ stack' = [stack EXCEPT ![t] = <<Frame("exit", "status", p, None)>>]
         \/ stack' = [stack EXCEPT ![t] = <<Frame("reap", "begin", p, None),
                                            Frame("wait", "drop", p, q)>>]
  PROVE  Order'
<1>1. Stacks /\ FrameOrder
  BY DEF TInv, Order
<1>2. FrameOrder'
  BY <1>1, StartFrameOrder
<1>3. Others(t)
  BY <1>1 DEF Others, Stacks
<1>4. ~Spawning(t) /\ ~Spawning(t)' /\ tab # t
  <2>1. stack'[t] = <<Frame("exit", "status", p, None)>>
          \/ stack'[t] = <<Frame("reap", "begin", p, None), Frame("wait", "drop", p, q)>>
    BY <1>1 DEF Stacks
  <2>2. Top(t)'.op # "spawn"
    BY <2>1 DEF Top, Frame
  <2> QED BY <2>2 DEF Spawning, Order, LockOwners
<1> QED BY <1>2, <1>3, <1>4, CalmStep

\* Nobody's operation moves.
LEMMA StillOrder ==
  ASSUME TInv, Order, UNCHANGED <<stack, tab, proctil, parent, table>>,
         \A x \in session' : host'[x] # "none",
         \A u \in Thread : Spawning(u) /\ Top(u).q \in session => Top(u).q \in session'
  PROVE  Order'
<1>1. FrameOrder'
  BY StillFrameOrder DEF TInv, Order
<1>2. \A u \in Thread : /\ Idle(u)' <=> Idle(u)
                        /\ Top(u)' = Top(u)
  BY DEF Idle, Top
<1>3. LockOwners' /\ Heirless' /\ Sessions'
  BY <1>2 DEF Order, LockOwners, Heirless, Sessions, Launching, Spawning
<1> QED BY <1>1, <1>3 DEF Order

LEMMA SpawnGoto ==
  ASSUME TInv, Order, NEW t \in Thread, Launching(t), UNCHANGED <<tab, session, host>>,
         NEW l \in {"adopt", "contract", "undo", "ready", "register"},
         Goto(t, l, Top(t).q), table \subseteq table',
         proctil' = IF l = "register" THEN None ELSE proctil,
         l \in {"adopt", "contract", "undo"} =>
           Early(Top(t)) /\ UNCHANGED parent /\ Top(t).p \in table'
  PROVE  Order'
<1>0. ~Idle(t) /\ Top(t).op = "spawn" /\ Stacks /\ FrameOrder
  BY DEF Launching, Spawning, TInv, Order
<1>1. PICK q \in AnyProc \cup {None} : q = Top(t).q
  BY <1>0, Tops
<1>2. l \in Places /\ Fits(Top(t).op, l, q) /\ Goto(t, l, q)
  BY <1>0, <1>1 DEF Places, Fits
<1>3. Stacks' /\ FrameOrder'
  BY <1>0, <1>2, GotoFrames, GotoFrameOrder
<1>4. /\ Others(t) /\ ~Idle(t)' /\ Top(t)'.op = "spawn" /\ Top(t)'.at = l
      /\ Top(t)'.p = Top(t).p /\ Top(t)'.q = Top(t).q
  BY <1>0, <1>1, <1>2, GotoTop
<1>5. proctil = t /\ tab' # t
  BY <1>0 DEF Order, LockOwners
<1>6. Launching(t)' <=> l # "register"
  BY <1>4 DEF Launching, Spawning
<1>7. Top(t)'.q \in session' \cup {Kernel}
  BY <1>0, <1>4 DEF Order, Sessions, Spawning
<1>8. \A x \in session' : host'[x] # "none"
  BY DEF Order, Sessions
<1>9. ASSUME Early(Top(t)')
      PROVE  /\ Top(t)'.q # Top(t)'.p /\ \A x \in Proc : parent'[x] # Top(t)'.p
             /\ Top(t)'.at # "insert" => Top(t)'.p \in table'
  <2>1. l \in {"adopt", "contract", "undo"}
    BY <1>4, <1>9 DEF Early
  <2>2. Top(t).q # Top(t).p /\ \A x \in Proc : parent[x] # Top(t).p
    BY <1>0, <2>1 DEF Order, Heirless, Spawning
  <2> QED BY <1>4, <2>1, <2>2
<1>10. /\ proctil' = proctil \/ {proctil, proctil'} \subseteq {None, t}
       /\ proctil' = t <=> Launching(t)'
  BY <1>5, <1>6, ProcTreeAssumption
<1> QED BY <1>3, <1>4, <1>5, <1>7, <1>8, <1>9, <1>10, OrderStep

LEMMA SpawnReturn ==
  ASSUME TInv, Order, NEW t \in Thread, Spawning(t), Return(t),
         UNCHANGED <<tab, session, parent>>, table \ table' \subseteq {Top(t).p},
         \A x \in Proc : host'[x] = "none" <=> host[x] = "none",
         \/ Launching(t) /\ proctil' = None
         \/ ~Launching(t) /\ proctil' = proctil
  PROVE  Order'
<1>0. ~Idle(t) /\ Top(t).op = "spawn" /\ Stacks /\ FrameOrder
  BY DEF Spawning, TInv, Order
<1>1. Stacks' /\ FrameOrder' /\ ~Spawning(t)'
  BY <1>0, Popped, ReturnFrameOrder DEF Spawning
<1>2. Others(t)
  BY <1>0 DEF Others, Return, Stacks
<1>3. tab' # t /\ ~Launching(t)'
  BY <1>0, <1>1 DEF Order, LockOwners, Launching
<1>4. /\ proctil' = proctil \/ {proctil, proctil'} \subseteq {None, t}
      /\ proctil' # t
  BY ProcTreeAssumption DEF Order, LockOwners
<1>5. \A x \in session' : host'[x] # "none"
  BY DEF Order, Sessions, TInv, Data
<1> QED BY <1>0, <1>1, <1>2, <1>3, <1>4, <1>5, OrderStep

-----------------------------------------------------------------------------
(* The steps                                                               *)

LEMMA LaunchOrder ==
  ASSUME TInv, Order, NEW t \in Thread, NEW q \in AnyProc, NEW p \in Proc,
         SpawnLaunch(t, q, p)
  PROVE  Order'
<1> DEFINE f == Frame("spawn", "insert", p, q)
<1>1. /\ host[p] = "none" /\ host' = [host EXCEPT ![p] = "running"]
      /\ Idle(t) /\ stack' = [stack EXCEPT ![t] = <<f>>]
      /\ q \in session \cup {Kernel} /\ proctil = None /\ proctil' = t
      /\ UNCHANGED <<table, parent, tab, session>>
  BY DEF SpawnLaunch, Start, objVars, treeVars
<1>2. f \in FrameType /\ f.op = "spawn" /\ f.at = "insert" /\ f.p = p /\ f.q = q
  BY DEF Frame, FrameType
<1>3. Stacks /\ FrameOrder
  BY DEF TInv, Order
<1>4. FrameOrder'
  BY <1>1, <1>3, StartFrameOrder
<1> HIDE DEF f
<1>5. Stacks'
  BY <1>1, <1>2, <1>3, Started
<1>6. stack'[t] = <<f>> /\ Others(t)
  BY <1>1, <1>3 DEF Stacks, Others
<1>7. ~Idle(t)' /\ Top(t)' = f /\ Launching(t)' /\ Spawning(t)'
  BY <1>2, <1>6 DEF Idle, Top, Launching, Spawning
<1>8. tab' # t
  BY <1>1 DEF Order, LockOwners
<1>9. \A x \in session : host[x] # "none" /\ host'[x] # "none"
  BY <1>1 DEF Order, Sessions, TInv, Data
<1>10. q # p
  BY <1>1, <1>9, ProcTreeAssumption
<1>11. \A x \in Proc : parent'[x] # p
  <2>1. Unborn(p)
    BY <1>1 DEF Unborn
  <2> QED BY <1>1, <2>1 DEF TInv, Births
<1>12. \A x \in session' : host'[x] # "none"
  BY <1>1, <1>9
<1> QED BY <1>1, <1>2, <1>4, <1>5, <1>6, <1>7, <1>8, <1>10, <1>11, <1>12, OrderStep

LEMMA SpawnOrder ==
  ASSUME TInv, Order, NEW t \in Thread,
         \/ SpawnInsert(t) \/ SpawnAdopt(t) \/ SpawnContract(t) \/ SpawnUndo(t)
         \/ SpawnReady(t) \/ SpawnRegister(t)
  PROVE  Order'
<1>1. Spawning(t) /\ ~Idle(t)
  BY DEF SpawnInsert, SpawnAdopt, SpawnContract, SpawnUndo, SpawnReady,
         SpawnRegister, At, Spawning
<1>2. Top(t).p \in Proc
  BY <1>1, Tops DEF TInv
<1>3. ASSUME SpawnFailed(t, Top(t).p)
      PROVE  /\ Return(t) /\ proctil' = None
             /\ \A x \in Proc : host'[x] = "none" <=> host[x] = "none"
  BY <1>3 DEF SpawnFailed, TInv, Data
<1>4. CASE SpawnInsert(t)
  <2>1. Launching(t) /\ Top(t).at = "insert" /\ UNCHANGED <<tab, session, parent>>
    BY <1>1, <1>4 DEF SpawnInsert, At, Launching, treeVars
  <2>2. CASE /\ table' = table \cup {Top(t).p} /\ Goto(t, "adopt", Top(t).q)
             /\ UNCHANGED <<host, proctil>>
    BY <1>1, <2>1, <2>2, SpawnGoto DEF Early, Spawning
  <2>3. CASE SpawnFailed(t, Top(t).p) /\ UNCHANGED table
    BY <1>1, <1>3, <2>1, <2>3, SpawnReturn
  <2> QED BY <1>4, <2>2, <2>3 DEF SpawnInsert
<1>5. CASE SpawnAdopt(t)
  <2>1. /\ Launching(t) /\ Early(Top(t)) /\ Top(t).p \in table
        /\ UNCHANGED <<tab, session, host, proctil, parent, table>>
    BY <1>1, <1>5 DEF SpawnAdopt, At, Launching, Spawning, Early, treeVars,
       hostVars, lockVars, Order, Heirless
  <2>2. Goto(t, "contract", Top(t).q) \/ Goto(t, "undo", Top(t).q)
    BY <1>5 DEF SpawnAdopt
  <2> QED BY <2>1, <2>2, SpawnGoto
<1>6. CASE SpawnContract(t)
  <2>1. /\ Launching(t) /\ Early(Top(t)) /\ Top(t).p \in table
        /\ UNCHANGED <<tab, session, host, proctil, table>>
    BY <1>1, <1>6 DEF SpawnContract, At, Launching, Spawning, Early,
       hostVars, lockVars, Order, Heirless
  <2>2. \/ Goto(t, "ready", Top(t).q)
        \/ Goto(t, "undo", Top(t).q) /\ UNCHANGED parent
    BY <1>6 DEF SpawnContract, treeVars
  <2> QED BY <2>1, <2>2, SpawnGoto
<1>7. CASE SpawnUndo(t)
  <2>1. /\ Launching(t) /\ SpawnFailed(t, Top(t).p) /\ table' = table \ {Top(t).p}
        /\ UNCHANGED <<tab, session, parent>>
    BY <1>1, <1>7 DEF SpawnUndo, At, Launching, Remove, treeVars
  <2> QED BY <1>1, <1>3, <2>1, SpawnReturn
<1>8. CASE SpawnReady(t)
  <2>1. /\ Launching(t) /\ proctil' = None /\ Goto(t, "register", Top(t).q)
        /\ UNCHANGED <<tab, session, host, table>>
    BY <1>1, <1>8 DEF SpawnReady, At, Launching
  <2> QED BY <2>1, SpawnGoto
<1>9. CASE SpawnRegister(t)
  <2>1. /\ ~Launching(t) /\ Return(t) /\ proctil' = proctil
        /\ UNCHANGED <<tab, session, parent, table, host>>
    BY <1>1, <1>9 DEF SpawnRegister, At, Launching, treeVars, lockVars
  <2> QED BY <1>1, <2>1, SpawnReturn
<1> QED BY <1>4, <1>5, <1>6, <1>7, <1>8, <1>9

\* A step that only counts references, or takes or gives up the table.
LEMMA QuietCalm ==
  ASSUME NEW t, UNCHANGED <<proctil, session, host, parent, table>>
  PROVE  Calm(t)
BY DEF Calm

LEMMA NotRefsCalm ==
  ASSUME NEW t, UNCHANGED notRefs
  PROVE  Calm(t) /\ tab' = tab
BY DEF Calm, notRefs, quietVars, hostVars, lockVars, treeVars

LEMMA ReapOrder ==
  ASSUME TInv, TInv', Order, NEW t \in Thread,
         \/ ReapBegin(t) \/ KillChild(t) \/ DropChild(t) \/ ReapParent(t)
         \/ ReapUnlink(t) \/ ReapRemove(t)
  PROVE  Order'
<1>0. Stacks' /\ None \in AnyProc \cup {None}
  BY DEF TInv
<1>1. CASE ReapBegin(t)
  <2>1. /\ ~Idle(t) /\ Top(t).op = "reap"
        /\ UNCHANGED <<proctil, session, host, parent, table>>
    BY <1>1 DEF ReapBegin, At, quietVars, hostVars, treeVars
  <2>2. Calm(t)
    BY <2>1, QuietCalm
  <2>3. CASE UNCHANGED <<tab, stack>>
    BY <2>1, <2>3, StillOrder DEF Order, Sessions
  <2>4. CASE tab' = t /\ Goto(t, "kids", None)
    <3>1. Fits(Top(t).op, "kids", None) /\ "kids" \in Places
      BY <2>1 DEF Fits, Places
    <3> QED BY <1>0, <2>1, <2>2, <2>4, <3>1, CalmGoto
  <2>5. CASE tab = None /\ UNCHANGED tab /\ Return(t)
    BY <2>1, <2>2, <2>5, CalmReturn, ProcTreeAssumption
  <2> QED BY <1>1, <2>3, <2>4, <2>5 DEF ReapBegin
<1>2. CASE KillChild(t)
  <2>1. /\ ~Idle(t) /\ Top(t).op \in {"reap", "exit"}
        /\ kids[Top(t).p] # <<>> /\ UNCHANGED notRefs
    BY <1>2 DEF KillChild, At
  <2>2. Calm(t) /\ tab' = tab
    BY <2>1, NotRefsCalm
  <2>3. LastKid(Top(t).p) \in Proc /\ LastKid(Top(t).p) \in valid
    BY <2>1, Tops, LastKids DEF TInv
  <2>4. PICK c \in Proc : c = LastKid(Top(t).p)
    BY <2>3
  <2>5. CallReap(t, "drop", c, c) /\ c \in AnyProc \cup {None}
    BY <1>2, <2>3, <2>4 DEF KillChild, AnyProc
  <2>6. Fits(Top(t).op, "drop", c)
    BY <2>1 DEF Fits
  <2> QED BY <1>0, <2>1, <2>2, <2>5, <2>6, CalmCall
<1>3. CASE DropChild(t)
  <2>1. /\ ~Idle(t) /\ Top(t).op \in {"reap", "exit"}
        /\ Goto(t, "kids", None) /\ UNCHANGED notRefs
    BY <1>3 DEF DropChild, At
  <2>2. Calm(t) /\ tab' = tab
    BY <2>1, NotRefsCalm
  <2>3. Fits(Top(t).op, "kids", None) /\ "kids" \in Places
    BY <2>1 DEF Fits, Places
  <2> QED BY <1>0, <2>1, <2>2, <2>3, CalmGoto
<1>4. CASE ReapParent(t)
  <2>1. /\ ~Idle(t) /\ Top(t).op = "reap" /\ Top(t).p \in Proc
        /\ UNCHANGED <<proctil, session, host, parent, table>>
    BY <1>4, Tops DEF ReapParent, At, quietVars, hostVars, treeVars, TInv
  <2>2. Calm(t)
    BY <2>1, QuietCalm
  <2>3. PICK q \in AnyProc \cup {None} : q = parent[Top(t).p]
    BY <2>1 DEF TInv, Data
  <2>4. CASE Goto(t, "remove", None) /\ UNCHANGED tab
    <3>1. Fits(Top(t).op, "remove", None) /\ "remove" \in Places
      BY <2>1 DEF Fits, Places
    <3> QED BY <1>0, <2>1, <2>2, <2>4, <3>1, CalmGoto
  <2>5. CASE Goto(t, "unlink", q) /\ UNCHANGED tab
    <3>1. Fits(Top(t).op, "unlink", q) /\ "unlink" \in Places
      BY <2>1 DEF Fits, Places
    <3> QED BY <2>1, <2>2, <2>5, <3>1, CalmGoto
  <2>6. CASE tab' = None /\ Return(t)
    BY <2>1, <2>2, <2>6, CalmReturn, ProcTreeAssumption
  <2> QED BY <1>4, <2>3, <2>4, <2>5, <2>6 DEF ReapParent
<1>5. CASE ReapUnlink(t)
  <2>1. /\ ~Idle(t) /\ Top(t).op = "reap" /\ Goto(t, "remove", None)
        /\ parent' = [parent EXCEPT ![Top(t).p] = None]
        /\ UNCHANGED <<proctil, session, host, table, tab>>
    BY <1>5 DEF ReapUnlink, At, hostVars, lockVars
  <2>2. Calm(t)
    BY <2>1 DEF Calm, TInv, Data
  <2>3. Fits(Top(t).op, "remove", None) /\ "remove" \in Places
    BY <2>1 DEF Fits, Places
  <2> QED BY <1>0, <2>1, <2>2, <2>3, CalmGoto
<1>6. CASE ReapRemove(t)
  <2>1. /\ ~Idle(t) /\ Top(t).op = "reap" /\ Return(t) /\ tab' = None
        /\ host' = [host EXCEPT ![Top(t).p] =
                      IF Top(t).p \in managed /\ @ = "running" THEN "killed" ELSE @]
        /\ table' = table \ {Top(t).p} /\ UNCHANGED <<parent, session, proctil>>
    BY <1>6 DEF ReapRemove, At, Remove, treeVars
  <2>2. Calm(t)
    BY <2>1 DEF Calm, TInv, Data
  <2> QED BY <2>1, <2>2, CalmReturn, ProcTreeAssumption
<1> QED BY <1>1, <1>2, <1>3, <1>4, <1>5, <1>6

LEMMA ExitOrder ==
  ASSUME TInv, TInv', Order, NEW t \in Thread,
         \/ ExitStatus(t) \/ ExitRetain(t) \/ ExitKids(t) \/ ExitMark(t)
         \/ ExitNotify(t) \/ ExitLeave(t) \/ WaitDone(t)
  PROVE  Order'
<1>0. /\ Stacks' /\ None \in AnyProc \cup {None}
      /\ \A l \in Places \ {"drop", "unlink", "spin"} : Fits("exit", l, None)
      /\ {"retain", "kids", "leave", "mark", "notify"} \subseteq Places
  BY DEF TInv, Fits, Places
<1>1. ASSUME NEW l \in {"retain", "kids", "leave", "mark", "notify"},
             ~Idle(t), Top(t).op = "exit", Goto(t, l, None), Calm(t), tab' = tab
      PROVE  Order'
  BY <1>0, <1>1, CalmGoto
<1>2. ASSUME ~Idle(t), Top(t).op \in {"exit", "wait"}, Return(t), Calm(t), tab' = tab
      PROVE  Order'
  BY <1>2, CalmReturn DEF Order, LockOwners
<1>3. CASE ExitStatus(t)
  <2>1. /\ ~Idle(t) /\ Top(t).op = "exit" /\ Goto(t, "retain", None)
        /\ UNCHANGED <<proctil, session, host, parent, table, tab>>
    BY <1>3 DEF ExitStatus, At, treeVars, hostVars, lockVars
  <2> QED BY <1>1, <2>1, QuietCalm
<1>4. CASE ExitRetain(t)
  <2>1. /\ ~Idle(t) /\ Top(t).op = "exit" /\ UNCHANGED notRefs
        /\ Goto(t, "kids", None) \/ Goto(t, "leave", None)
    BY <1>4 DEF ExitRetain, At
  <2> QED BY <1>1, <2>1, NotRefsCalm
<1>5. CASE ExitKids(t)
  <2>1. ~Idle(t) /\ Top(t).op = "exit" /\ UNCHANGED notRefs
    BY <1>5 DEF ExitKids, At
  <2>2. PICK p \in Proc : p = Top(t).p
    BY <2>1, Tops DEF TInv
  <2>3. CASE CallReap(t, "leave", None, p)
    <3>1. Fits(Top(t).op, "leave", None)
      BY <2>1 DEF Fits
    <3> QED BY <1>0, <2>1, <2>2, <2>3, <3>1, CalmCall, NotRefsCalm
  <2>4. CASE Goto(t, "mark", None)
    BY <1>1, <2>1, <2>4, NotRefsCalm
  <2> QED BY <1>5, <2>2, <2>3, <2>4 DEF ExitKids
<1>6. CASE ExitMark(t)
  <2>1. /\ ~Idle(t) /\ Top(t).op = "exit" /\ Goto(t, "notify", None)
        /\ UNCHANGED <<proctil, session, host, parent, table, tab>>
    BY <1>6 DEF ExitMark, At, treeVars, hostVars, lockVars
  <2> QED BY <1>1, <2>1, QuietCalm
<1>7. CASE ExitNotify(t)
  <2>1. /\ ~Idle(t) /\ Top(t).op = "exit" /\ Goto(t, "leave", None)
        /\ UNCHANGED notRefs
    BY <1>7 DEF ExitNotify, At
  <2> QED BY <1>1, <2>1, NotRefsCalm
<1>8. CASE ExitLeave(t)
  <2>1. /\ ~Idle(t) /\ Top(t).op = "exit" /\ Return(t)
        /\ UNCHANGED <<proctil, session, host, parent, table, tab>>
    BY <1>8 DEF ExitLeave, At, treeVars, lockVars
  <2> QED BY <1>2, <2>1, QuietCalm
<1>9. CASE WaitDone(t)
  <2>1. ~Idle(t) /\ Top(t).op = "wait" /\ Return(t) /\ UNCHANGED notRefs
    BY <1>9 DEF WaitDone, At
  <2> QED BY <1>2, <2>1, NotRefsCalm
<1> QED BY <1>3, <1>4, <1>5, <1>6, <1>7, <1>8, <1>9

LEMMA WaitOrder ==
  ASSUME TInv, TInv', Order, NEW t \in Thread, NEW q \in Proc, NEW c \in Proc,
         WaitReap(t, q, c)
  PROVE  Order'
<1>1. /\ Idle(t) /\ UNCHANGED notRefs
      /\ \E x \in {q, None} :
           stack' = [stack EXCEPT ![t] = <<Frame("reap", "begin", c, None),
                                           Frame("wait", "drop", c, x)>>]
  BY DEF WaitReap
<1>2. PICK x \in AnyProc \cup {None} :
        stack' = [stack EXCEPT ![t] = <<Frame("reap", "begin", c, None),
                                        Frame("wait", "drop", c, x)>>]
  BY <1>1 DEF AnyProc
<1>3. Stacks'
  BY DEF TInv
<1> QED BY <1>1, <1>2, <1>3, NotRefsCalm, CalmStart

LEMMA ExitBeginOrder ==
  ASSUME TInv, TInv', Order, NEW t \in Thread, NEW p \in Proc, ExitBegin(t, p)
  PROVE  Order'
<1>1. /\ \A x \in Proc : host'[x] = "none" <=> host[x] = "none"
      /\ UNCHANGED <<table, parent, session, tab, proctil>>
  BY DEF ExitBegin, treeVars, lockVars, TInv, Data
<1>2. CASE Start(t, Frame("exit", "status", p, None))
  <2>1. Calm(t) /\ Stacks' /\ None \in AnyProc \cup {None}
    BY <1>1 DEF Calm, TInv
  <2> QED BY <1>1, <1>2, <2>1, CalmStart DEF Start
<1>3. CASE UNCHANGED stack
  <2>1. \A x \in session' : host'[x] # "none"
    BY <1>1 DEF Order, Sessions, TInv, Data
  <2> QED BY <1>1, <1>3, <2>1, StillOrder
<1> QED BY <1>2, <1>3 DEF ExitBegin

LEMMA OutsideOrder ==
  ASSUME TInv, Order,
         \/ \E p \in Proc : HostDies(p) \/ OpenSession(p) \/ CloseSession(p)
         \/ UNCHANGED kernVars
  PROVE  Order'
<1>0. \A x \in session : host[x] # "none"
  BY DEF Order, Sessions
<1>1. ASSUME NEW p \in Proc, HostDies(p) PROVE Order'
  <2>1. /\ host[p] # "none" /\ host' = [host EXCEPT ![p] = "dead"]
        /\ UNCHANGED <<stack, tab, proctil, parent, table, session>>
    BY <1>1 DEF HostDies, treeVars, lockVars
  <2>2. \A x \in session' : host'[x] # "none"
    BY <1>0, <2>1 DEF TInv, Data
  <2> QED BY <2>1, <2>2, StillOrder
<1>2. ASSUME NEW p \in Proc, OpenSession(p) PROVE Order'
  <2>1. /\ p \in table /\ session' = session \cup {p}
        /\ UNCHANGED <<stack, tab, proctil, parent, table, host>>
    BY <1>2 DEF OpenSession, hostVars, treeVars, lockVars
  <2>2. host[p] # "none"
    BY <2>1 DEF TInv, Births, Unborn
  <2>3. \A x \in session' : host'[x] # "none"
    BY <1>0, <2>1, <2>2
  <2> QED BY <2>1, <2>3, StillOrder
<1>3. ASSUME NEW p \in Proc, CloseSession(p) PROVE Order'
  <2>1. /\ session' = session \ {p}
        /\ \A u \in Thread : ~(Spawning(u) /\ Top(u).q = p)
        /\ UNCHANGED <<stack, tab, proctil, parent, table, host>>
    BY <1>3 DEF CloseSession, hostVars, treeVars, lockVars, Spawning
  <2>2. \A u \in Thread : Spawning(u) /\ Top(u).q \in session => Top(u).q \in session'
    BY <2>1
  <2> QED BY <1>0, <2>1, <2>2, StillOrder
<1>4. CASE UNCHANGED kernVars
  BY <1>0, <1>4, StillOrder DEF kernVars
<1> QED BY <1>1, <1>2, <1>3, <1>4

LEMMA OrderInitially == Init => Order
<1> SUFFICES ASSUME Init PROVE Order
  OBVIOUS
<1>1. \A t \in Thread : Idle(t) /\ Levels(t) = {}
  BY DEF Init, Idle, Levels
<1>2. FrameOrder
  BY <1>1 DEF FrameOrder, Innermost, Callers, Tidy
<1>3. LockOwners /\ Sessions /\ Heirless
  BY <1>1, ProcTreeAssumption DEF Init, LockOwners, Sessions, Heirless, Launching,
     Spawning
<1> QED BY <1>2, <1>3 DEF Order

LEMMA OrderInductive == OInv /\ [Next]_vars => OInv'
<1> SUFFICES ASSUME TInv, Order, [Next]_vars PROVE TInv' /\ Order'
  BY DEF OInv
<1>0. TInv'
  BY Inductive
<1>1. ASSUME NEW t \in Thread, Continue(t) PROVE Order'
  BY <1>0, <1>1, SpawnOrder, ReapOrder, ExitOrder DEF Continue
<1>2. ASSUME NEW t \in Thread, Call(t) PROVE Order'
  BY <1>0, <1>2, LaunchOrder, WaitOrder DEF Call
<1>3. ASSUME NEW t \in Thread, NEW p \in Proc, ExitBegin(t, p) PROVE Order'
  BY <1>0, <1>3, ExitBeginOrder
<1>4. CASE \/ \E p \in Proc : HostDies(p) \/ OpenSession(p) \/ CloseSession(p)
           \/ UNCHANGED kernVars
  BY <1>0, <1>4, OutsideOrder
<1> QED BY <1>0, <1>1, <1>2, <1>3, <1>4 DEF Next, Rest, Jam, vars

\* In every state each operation is where its caller, its locks and its session
\* put it.
THEOREM Ordering == Spec => []OInv
<1>1. Init => OInv
  BY Initially, OrderInitially DEF OInv
<1> QED BY <1>1, OrderInductive, PTL DEF Spec

\* While Wait4's cycles leave the locks alone, every thread inside an operation
\* goes on or waits for an owner of the process table who does.
THEOREM LockOrder == Spec => []WaitsEnd
<1>1. OInv /\ NoSpin => WaitsEnd
  <2> SUFFICES ASSUME TInv, Order, NoSpin, NEW t \in Thread
               PROVE  /\ ~Idle(t) => Goes(t) \/ Goes(tab)
                      /\ proctil = t => ~Idle(t)
    BY DEF OInv, WaitsEnd
  <2>1. ASSUME NEW u \in Thread, ~Idle(u) PROVE Top(u).at # "spin"
    <3>1. Depth(u) \in Levels(u) /\ FrameAt(u, Depth(u)) = Top(u)
      BY <2>1, Tops DEF TInv
    <3> QED BY <3>1 DEF TInv, Spinless
  <2>2. ASSUME tab = None, ~Idle(t) PROVE Goes(t)
    BY <2>1, <2>2 DEF Goes
  <2>3. ASSUME tab # None PROVE Goes(tab)
    <3>1. tab \in Thread
      BY <2>3 DEF TInv, Data
    <3>2. ~Idle(tab) /\ Top(tab).op = "reap"
      BY <3>1 DEF Order, LockOwners
    <3>3. ~WaitsForTable(tab)
      BY <3>2 DEF WaitsForTable, At
    <3> QED BY <2>1, <3>1, <3>2, <3>3 DEF Goes
  <2>4. proctil = t => ~Idle(t)
    BY DEF Order, LockOwners, Launching, Spawning
  <2> QED BY <2>2, <2>3, <2>4
<1> QED BY <1>1, Ordering, NeverSpins, PTL

-----------------------------------------------------------------------------
(* The forest of contracts                                                 *)

\* A step that ends contracts breaks no tree.
LEMMA FewerContracts ==
  ASSUME Forest, \A x \in Proc : parent'[x] \in {parent[x], None}
  PROVE  Forest'
<1> SUFFICES ASSUME NEW S \in SUBSET Proc, S # {} PROVE \E p \in S : parent'[p] \notin S
  BY DEF Forest
<1>1. PICK p \in S : parent[p] \notin S
  BY DEF Forest
<1> QED BY <1>1, ProcTreeAssumption

\* A process nobody has as parent gets a parent other than itself.
LEMMA NewLeaf ==
  ASSUME Forest, Data, NEW p \in Proc, NEW q, q # p, \A x \in Proc : parent[x] # p,
         parent' = [parent EXCEPT ![p] = q]
  PROVE  Forest'
<1> SUFFICES ASSUME NEW S \in SUBSET Proc, S # {} PROVE \E r \in S : parent'[r] \notin S
  BY DEF Forest
<1>1. \A x \in Proc : parent'[x] = IF x = p THEN q ELSE parent[x]
  BY DEF Data
<1>2. CASE S \subseteq {p}
  BY <1>1, <1>2
<1>3. CASE ~(S \subseteq {p})
  <2>1. S \ {p} \in SUBSET Proc /\ S \ {p} # {}
    BY <1>3
  <2>2. PICK r \in S \ {p} : parent[r] \notin S \ {p}
    BY <2>1 DEF Forest
  <2>3. parent'[r] = parent[r] /\ parent[r] # p
    BY <1>1, <2>2
  <2> QED BY <2>2, <2>3
<1> QED BY <1>2, <1>3

LEMMA ForestStep == OInv /\ Forest /\ [Next]_vars => Forest'
<1> SUFFICES ASSUME TInv, Order, Forest, [Next]_vars PROVE Forest'
  BY DEF OInv
<1>0. ASSUME UNCHANGED parent PROVE Forest'
  BY <1>0, FewerContracts
<1>1. ASSUME NEW t \in Thread, Continue(t) PROVE Forest'
  <2>1. CASE SpawnContract(t)
    <3>1. /\ Spawning(t) /\ ~Idle(t) /\ Early(Top(t))
      BY <2>1 DEF SpawnContract, At, Spawning, Early
    <3>2. /\ Top(t).p \in Proc /\ Top(t).q # Top(t).p
          /\ \A x \in Proc : parent[x] # Top(t).p
      BY <3>1, Tops DEF TInv, Order, Heirless
    <3>3. \/ parent' = [parent EXCEPT ![Top(t).p] = Top(t).q]
          \/ UNCHANGED parent
      BY <2>1 DEF SpawnContract, treeVars
    <3> QED BY <1>0, <3>2, <3>3, NewLeaf DEF TInv
  <2>2. CASE ReapUnlink(t)
    <3>1. parent' = [parent EXCEPT ![Top(t).p] = None]
      BY <2>2 DEF ReapUnlink
    <3> QED BY <3>1, FewerContracts DEF TInv, Data
  <2>3. CASE SpawnInsert(t) \/ SpawnAdopt(t) \/ SpawnUndo(t) \/ SpawnReady(t)
             \/ SpawnRegister(t)
    BY <1>0, <2>3 DEF SpawnInsert, SpawnAdopt, SpawnUndo, SpawnReady,
       SpawnRegister, treeVars
  <2>4. CASE ReapBegin(t) \/ KillChild(t) \/ DropChild(t) \/ ReapParent(t)
             \/ ReapRemove(t)
    BY <1>0, <2>4 DEF ReapBegin, KillChild, DropChild, ReapParent, ReapRemove,
       notRefs, quietVars, treeVars
  <2>5. CASE ExitStatus(t) \/ ExitRetain(t) \/ ExitKids(t) \/ ExitMark(t)
             \/ ExitNotify(t) \/ ExitLeave(t) \/ WaitDone(t)
    BY <1>0, <2>5 DEF ExitStatus, ExitRetain, ExitKids, ExitMark, ExitNotify,
       ExitLeave, WaitDone, notRefs, quietVars, treeVars
  <2> QED BY <1>1, <2>1, <2>2, <2>3, <2>4, <2>5 DEF Continue
<1>2. ASSUME NEW t \in Thread, Call(t) PROVE Forest'
  BY <1>0, <1>2 DEF Call, SpawnLaunch, WaitReap, notRefs, quietVars, treeVars
<1>3. ASSUME NEW t \in Thread, NEW p \in Proc, ExitBegin(t, p) PROVE Forest'
  BY <1>0, <1>3 DEF ExitBegin, treeVars
<1>4. CASE \/ \E p \in Proc : HostDies(p) \/ OpenSession(p) \/ CloseSession(p)
           \/ UNCHANGED kernVars
  BY <1>0, <1>4 DEF HostDies, OpenSession, CloseSession, treeVars, kernVars
<1> QED BY <1>1, <1>2, <1>3, <1>4 DEF Next, Rest, Jam, vars

\* No process is its own ancestor, so a recursion over children ends.
THEOREM Rooted == Spec => []Forest
<1>1. Init => Forest
  BY ProcTreeAssumption DEF Init, Forest
<1> QED BY <1>1, ForestStep, Ordering, PTL DEF Spec

-----------------------------------------------------------------------------
(* ProcTree implements ProcLife                                            *)

\* The state of an object and its place in the table end together, and a
\* process has left its parent by then.
Tabled ==
  /\ valid = table \cup {Kernel}
  /\ \A p \in Proc : parent[p] # None => p \in table

LInv == OInv /\ Tabled

LEMMA TabledSame ==
  ASSUME Tabled, UNCHANGED <<valid, table>>,
         \A x \in Proc : parent'[x] \in {parent[x], None}
  PROVE  Tabled'
BY DEF Tabled

LEMMA TabledStep == LInv /\ [Next]_vars => Tabled'
<1> SUFFICES ASSUME TInv, Order, Tabled, [Next]_vars PROVE Tabled'
  BY DEF LInv, OInv
<1>0. ASSUME UNCHANGED <<valid, table, parent>> PROVE Tabled'
  BY <1>0, TabledSame
<1>1. ASSUME NEW t \in Thread, Continue(t) PROVE Tabled'
  <2>1. CASE SpawnInsert(t)
    <3>1. /\ UNCHANGED parent
          /\ \/ table' = table \cup {Top(t).p} /\ valid' = valid \cup {Top(t).p}
             \/ UNCHANGED <<table, valid>>
      BY <2>1 DEF SpawnInsert, treeVars
    <3> QED BY <3>1 DEF Tabled
  <2>2. CASE SpawnContract(t)
    <3>1. /\ Spawning(t) /\ ~Idle(t) /\ Early(Top(t)) /\ Top(t).at # "insert"
      BY <2>2 DEF SpawnContract, At, Spawning, Early
    <3>2. Top(t).p \in table
      BY <3>1 DEF Order, Heirless
    <3>3. /\ UNCHANGED <<valid, table>>
          /\ \/ parent' = [parent EXCEPT ![Top(t).p] = Top(t).q]
             \/ UNCHANGED parent
      BY <2>2 DEF SpawnContract, treeVars
    <3> QED BY <3>2, <3>3 DEF Tabled, TInv, Data
  <2>3. CASE SpawnUndo(t) \/ ReapRemove(t)
    <3>1. /\ ~Idle(t) /\ UNCHANGED parent /\ table' = table \ {Top(t).p}
          /\ valid' = IF Top(t).p \in table THEN valid \ {Top(t).p} ELSE valid
      BY <2>3 DEF SpawnUndo, ReapRemove, At, Remove, treeVars
    <3>2. /\ Depth(t) \in Levels(t) /\ FrameAt(t, Depth(t)) = Top(t)
          /\ Top(t).p \in Proc
      BY <3>1, Tops DEF TInv
    <3>3. Early(Top(t)) \/ (Locked(Top(t)) /\ Top(t).at = "remove")
      BY <2>3 DEF SpawnUndo, ReapRemove, At, Early, Locked
    <3>4. parent[Top(t).p] = None
      BY <3>2, <3>3 DEF TInv, Spawns, Reaps
    <3> QED BY <3>1, <3>2, <3>4, ProcTreeAssumption DEF Tabled
  <2>4. CASE ReapUnlink(t)
    <3>1. UNCHANGED <<valid, table>> /\ parent' = [parent EXCEPT ![Top(t).p] = None]
      BY <2>4 DEF ReapUnlink
    <3> QED BY <3>1, TabledSame DEF TInv, Data
  <2>5. CASE SpawnAdopt(t) \/ SpawnReady(t) \/ SpawnRegister(t)
    BY <1>0, <2>5 DEF SpawnAdopt, SpawnReady, SpawnRegister, treeVars, objVars
  <2>6. CASE ReapBegin(t) \/ KillChild(t) \/ DropChild(t) \/ ReapParent(t)
    BY <1>0, <2>6 DEF ReapBegin, KillChild, DropChild, ReapParent, notRefs,
       quietVars, treeVars
  <2>7. CASE ExitStatus(t) \/ ExitRetain(t) \/ ExitKids(t) \/ ExitMark(t)
             \/ ExitNotify(t) \/ ExitLeave(t) \/ WaitDone(t)
    BY <1>0, <2>7 DEF ExitStatus, ExitRetain, ExitKids, ExitMark, ExitNotify,
       ExitLeave, WaitDone, notRefs, quietVars, treeVars, objVars
  <2> QED BY <1>1, <2>1, <2>2, <2>3, <2>4, <2>5, <2>6, <2>7 DEF Continue
<1>2. ASSUME NEW t \in Thread, Call(t) PROVE Tabled'
  BY <1>0, <1>2 DEF Call, SpawnLaunch, WaitReap, notRefs, quietVars, treeVars, objVars
<1>3. ASSUME NEW t \in Thread, NEW p \in Proc, ExitBegin(t, p) PROVE Tabled'
  BY <1>0, <1>3 DEF ExitBegin, treeVars, objVars
<1>4. CASE \/ \E p \in Proc : HostDies(p) \/ OpenSession(p) \/ CloseSession(p)
           \/ UNCHANGED kernVars
  BY <1>0, <1>4 DEF HostDies, OpenSession, CloseSession, treeVars, objVars, kernVars
<1> QED BY <1>1, <1>2, <1>3, <1>4 DEF Next, Rest, Jam, vars

\* The places of a spawn that StageOf looks at.
Opening == {"insert", "adopt", "contract", "undo"}
Middle == {"adopt", "contract", "undo"}

\* The stage of x is seen in the table, its parent, its host and its spawn.
LEMMA StageSame ==
  ASSUME NEW x, x \in table' <=> x \in table, parent'[x] = parent[x],
         host'[x] = "none" <=> host[x] = "none",
         InSpawn(x, {"insert"})' <=> InSpawn(x, {"insert"}),
         InSpawn(x, Middle)' <=> InSpawn(x, Middle)
  PROVE  StageOf(x)' = StageOf(x)
BY DEF StageOf, Middle

LEMMA StageCases ==
  ASSUME NEW x
  PROVE  /\ x \in table /\ parent[x] # None => StageOf(x) = "child"
         /\ x \in table /\ parent[x] = None /\ InSpawn(x, Middle) =>
              StageOf(x) = "loose"
         /\ x \in table /\ parent[x] = None /\ ~InSpawn(x, Middle) =>
              StageOf(x) = "left"
         /\ x \notin table /\ (host[x] = "none" \/ InSpawn(x, {"insert"})) =>
              StageOf(x) = "none"
         /\ x \notin table /\ host[x] # "none" /\ ~InSpawn(x, {"insert"}) =>
              StageOf(x) = "gone"
BY DEF StageOf, Middle

LEMMA StageCasesAfter ==
  ASSUME NEW x
  PROVE  /\ x \in table' /\ parent'[x] # None => StageOf(x)' = "child"
         /\ x \in table' /\ parent'[x] = None /\ InSpawn(x, Middle)' =>
              StageOf(x)' = "loose"
         /\ x \in table' /\ parent'[x] = None /\ ~InSpawn(x, Middle)' =>
              StageOf(x)' = "left"
         /\ x \notin table' /\ host'[x] # "none" /\ ~InSpawn(x, {"insert"})' =>
              StageOf(x)' = "gone"
BY DEF StageOf, Middle

\* A step whose thread is in no spawn, before or after.
LEMMA InSpawnAside ==
  ASSUME NEW t \in Thread, Others(t), ~Spawning(t), ~Spawning(t)', NEW x, NEW L
  PROVE  InSpawn(x, L)' <=> InSpawn(x, L)
<1>1. \A u \in Thread : u # t => /\ Idle(u)' <=> Idle(u)
                                 /\ Top(u)' = Top(u)
  BY DEF Others, Idle, Top
<1>2. \A l : ~At(t, "spawn", l) /\ ~At(t, "spawn", l)'
  BY DEF At, Spawning
<1>3. \A u \in Thread : \A l : At(u, "spawn", l)' <=> At(u, "spawn", l)
  BY <1>1, <1>2 DEF At
<1>4. \A u \in Thread : \A l : At(u, "spawn", l) => Top(u)' = Top(u)
  BY <1>1, <1>2
<1> QED BY <1>3, <1>4 DEF InSpawn

\* While t launches, no other thread does.
LEMMA InSpawnAlone ==
  ASSUME Order, NEW t \in Thread, Launching(t), NEW x, NEW L \in SUBSET Opening
  PROVE  InSpawn(x, L) <=> Top(t).at \in L /\ Top(t).p = x
<1>1. \A u \in Thread : Launching(u) => u = t
  BY DEF Order, LockOwners
<1>2. \A u \in Thread, l \in L : At(u, "spawn", l) => u = t
  BY <1>1 DEF At, Launching, Spawning, Opening
<1>3. \A l : At(t, "spawn", l) <=> Top(t).at = l
  BY DEF At, Launching, Spawning
<1> QED BY <1>2, <1>3 DEF InSpawn

LEMMA InSpawnThen ==
  ASSUME Order, NEW t \in Thread, Launching(t) \/ proctil = None, Others(t),
         NEW x, NEW L \in SUBSET Opening
  PROVE  InSpawn(x, L)' <=>
           Spawning(t)' /\ Top(t)'.at \in L /\ Top(t)'.p = x
<1>1. \A u \in Thread : u # t => ~Launching(u)
  BY ProcTreeAssumption DEF Order, LockOwners
<1>2. \A u \in Thread : u # t => /\ Idle(u)' <=> Idle(u)
                                 /\ Top(u)' = Top(u)
  BY DEF Others, Idle, Top
<1>3. \A u \in Thread, l \in L : u # t => ~At(u, "spawn", l)'
  BY <1>1, <1>2 DEF At, Launching, Spawning, Opening
<1>4. \A l : At(t, "spawn", l)' <=> Spawning(t)' /\ Top(t)'.at = l
  BY DEF At, Spawning
<1> QED BY <1>3, <1>4 DEF InSpawn

\* A process that another operation is about is in no early spawn.
LEMMA InSpawnNot ==
  ASSUME TInv, NEW t \in Thread, ~Idle(t), ~Early(Top(t)),
         NEW L \in SUBSET Opening
  PROVE  ~InSpawn(Top(t).p, L)
<1> SUFFICES ASSUME NEW u \in Thread, NEW l \in L, At(u, "spawn", l),
                    Top(u).p = Top(t).p
             PROVE  FALSE
  BY DEF InSpawn
<1>1. /\ Depth(t) \in Levels(t) /\ FrameAt(t, Depth(t)) = Top(t)
      /\ Depth(u) \in Levels(u) /\ FrameAt(u, Depth(u)) = Top(u)
  BY Tops DEF TInv, At
<1>2. Early(Top(u))
  BY DEF At, Early, Opening
<1>3. u = t
  BY <1>1, <1>2 DEF TInv, Spawns
<1> QED BY <1>2, <1>3

LEMMA LifeSilent ==
  ASSUME UNCHANGED <<parent, status, zombie>>,
         \A x \in Proc : StageOf(x)' = StageOf(x)
  PROVE  UNCHANGED Life!vars
BY DEF Life!vars

LEMMA LifeMoves ==
  ASSUME NEW p \in Proc, NEW from, NEW to, StageOf(p) \in from, StageOf(p)' = to,
         \A x \in Proc : x # p => StageOf(x)' = StageOf(x)
  PROVE  Life!Move(p, from, to)
BY DEF Life!Move

\* A thread that is busy with something else than a spawn.
LEMMA Asides ==
  ASSUME TInv, Order, NEW t \in Thread, ~Idle(t), Top(t).op # "spawn",
         \/ \E l, q : Goto(t, l, q)
         \/ \E l, q, c : CallReap(t, l, q, c)
         \/ Return(t)
         \/ UNCHANGED stack
  PROVE  Others(t) /\ ~Spawning(t) /\ ~Spawning(t)'
<1>0. ~Spawning(t) /\ Stacks /\ FrameOrder
  BY DEF Spawning, TInv, Order
<1>1. ASSUME NEW l, NEW q, Goto(t, l, q) PROVE Others(t) /\ ~Spawning(t)'
  BY <1>0, <1>1, GotoTop DEF Spawning
<1>2. ASSUME NEW l, NEW q, NEW c, CallReap(t, l, q, c)
      PROVE  Others(t) /\ ~Spawning(t)'
  BY <1>0, <1>2, CallTop DEF Spawning
<1>3. ASSUME Return(t) PROVE Others(t) /\ ~Spawning(t)'
  <2>1. Others(t)
    BY <1>0, <1>3 DEF Others, Return, Stacks
  <2> QED BY <1>0, <1>3, <2>1, ReturnFrameOrder DEF Spawning
<1>4. ASSUME UNCHANGED stack PROVE Others(t) /\ ~Spawning(t)'
  BY <1>0, <1>4 DEF Others, Spawning, Idle, Top
<1> QED BY <1>0, <1>1, <1>2, <1>3, <1>4

\* Steps that nobody sees.
LEMMA LifeQuiet ==
  ASSUME NEW t \in Thread, Others(t), ~Spawning(t), ~Spawning(t)',
         UNCHANGED <<table, parent, status, zombie>>,
         \A x \in Proc : host'[x] = "none" <=> host[x] = "none"
  PROVE  UNCHANGED Life!vars
BY InSpawnAside, StageSame, LifeSilent

LEMMA LifeStill ==
  ASSUME UNCHANGED <<stack, table, parent, status, zombie>>,
         \A x \in Proc : host'[x] = "none" <=> host[x] = "none"
  PROVE  UNCHANGED Life!vars
<1>1. \A x, L : InSpawn(x, L)' <=> InSpawn(x, L)
  BY DEF InSpawn, At, Idle, Top
<1> QED BY <1>1, StageSame, LifeSilent

\* Reaps, exits and waits that change nothing in the table or the contracts.
LEMMA QuietLife ==
  ASSUME TInv, TInv', Order, NEW t \in Thread,
         \/ ReapBegin(t) \/ KillChild(t) \/ DropChild(t) \/ ReapParent(t)
         \/ ExitRetain(t) \/ ExitKids(t) \/ ExitNotify(t) \/ ExitLeave(t)
         \/ WaitDone(t)
  PROVE  UNCHANGED Life!vars
<1>1. ~Idle(t) /\ Top(t).op # "spawn"
  BY DEF ReapBegin, KillChild, DropChild, ReapParent, ExitRetain, ExitKids,
         ExitNotify, ExitLeave, WaitDone, At
<1>2. UNCHANGED <<table, parent, status, zombie, host>>
  BY DEF ReapBegin, KillChild, DropChild, ReapParent, ExitRetain, ExitKids,
         ExitNotify, ExitLeave, WaitDone, notRefs, quietVars, treeVars, hostVars
<1>3. \/ \E l, q : Goto(t, l, q)
      \/ \E l, q, c : CallReap(t, l, q, c)
      \/ Return(t)
      \/ UNCHANGED stack
  BY DEF ReapBegin, KillChild, DropChild, ReapParent, ExitRetain, ExitKids,
         ExitNotify, ExitLeave, WaitDone
<1> QED BY <1>1, <1>2, <1>3, Asides, LifeQuiet

\* The process of a running operation has been spawned.
LEMMA TopSpawned ==
  ASSUME TInv, NEW t \in Thread, ~Idle(t)
  PROVE  Top(t).p \in Proc /\ host[Top(t).p] # "none"
BY Tops DEF TInv, Spawns

LEMMA RecordLife ==
  ASSUME TInv, Order, Tabled, NEW t \in Thread, ExitStatus(t)
  PROVE  [Life!Next]_(Life!vars)
<1>1. /\ ~Idle(t) /\ Top(t).op = "exit" /\ Goto(t, "retain", None)
      /\ status' = status \cup {p \in {Top(t).p} : parent[p] \in valid}
      /\ UNCHANGED <<table, parent, zombie, host>>
  BY DEF ExitStatus, At, treeVars, hostVars
<1>2. Others(t) /\ ~Spawning(t) /\ ~Spawning(t)'
  BY <1>1, Asides
<1>3. \A x \in Proc : StageOf(x)' = StageOf(x)
  BY <1>1, <1>2, InSpawnAside, StageSame
<1>4. PICK p \in Proc : p = Top(t).p
  BY <1>1, TopSpawned
<1>5. CASE parent[p] \notin valid
  <2>1. status' = status
    BY <1>1, <1>4, <1>5
  <2> QED BY <1>1, <1>3, <2>1, LifeSilent
<1>6. CASE parent[p] \in valid
  <2>1. status' = status \cup {p}
    BY <1>1, <1>4, <1>6
  <2>2. parent[p] = Kernel \/ (parent[p] \in Proc /\ parent[p] \in table)
    BY <1>6 DEF Tabled, TInv, Data
  <2>3. \A q \in Proc : q \in table => StageOf(q) \in {"loose", "child", "left"}
    BY StageCases
  <2>4. Life!Present(parent[p])
    BY <2>2, <2>3 DEF Life!Present
  <2>5. Life!Record(p)
    BY <1>1, <1>3, <2>1, <2>4 DEF Life!Record
  <2> QED BY <2>5 DEF Life!Next
<1> QED BY <1>5, <1>6

LEMMA ZombifyLife ==
  ASSUME TInv, Order, Tabled, NEW t \in Thread, ExitMark(t)
  PROVE  [Life!Next]_(Life!vars)
<1>1. /\ ~Idle(t) /\ Top(t).op = "exit" /\ Top(t).at = "mark"
      /\ Goto(t, "notify", None) /\ zombie' = zombie \cup {Top(t).p}
      /\ UNCHANGED <<table, parent, status, host>>
  BY DEF ExitMark, At, treeVars, hostVars
<1>2. Others(t) /\ ~Spawning(t) /\ ~Spawning(t)'
  BY <1>1, Asides
<1>3. \A x \in Proc : StageOf(x)' = StageOf(x)
  BY <1>1, <1>2, InSpawnAside, StageSame
<1>4. PICK p \in Proc : p = Top(t).p /\ host[p] # "none"
  BY <1>1, TopSpawned
<1>5. ~InSpawn(p, {"insert"}) /\ ~InSpawn(p, Middle)
  <2>1. ~Early(Top(t)) /\ {"insert"} \subseteq Opening /\ Middle \subseteq Opening
    BY <1>1 DEF Early, Opening, Middle
  <2> QED BY <1>1, <1>4, <2>1, InSpawnNot
<1>6. StageOf(p) \in {"child", "left", "gone"}
  BY <1>4, <1>5, StageCases
<1>7. p \in status \/ ~Life!Present(parent[p])
  <2>1. /\ Depth(t) \in Levels(t) /\ FrameAt(t, Depth(t)) = Top(t)
    BY <1>1, Tops DEF TInv
  <2>2. p \in status \/ parent[p] \notin valid
    BY <1>1, <1>4, <2>1 DEF TInv, Records, Recorded
  <2>3. ASSUME parent[p] \notin valid PROVE ~Life!Present(parent[p])
    <3>1. parent[p] # Kernel /\ parent[p] \notin table
      BY <2>3 DEF Tabled
    <3>2. \A q \in Proc : q \notin table => StageOf(q) \in {"none", "gone"}
      BY StageCases
    <3> QED BY <3>1, <3>2 DEF Life!Present
  <2> QED BY <2>2, <2>3
<1>8. Life!Zombify(p)
  BY <1>1, <1>3, <1>4, <1>6, <1>7 DEF Life!Zombify
<1> QED BY <1>8 DEF Life!Next

LEMMA LeaveLife ==
  ASSUME TInv, Order, Tabled, NEW t \in Thread, ReapUnlink(t)
  PROVE  [Life!Next]_(Life!vars)
<1>1. /\ ~Idle(t) /\ Top(t).op = "reap" /\ Top(t).at = "unlink"
      /\ Goto(t, "remove", None)
      /\ parent' = [parent EXCEPT ![Top(t).p] = None]
      /\ UNCHANGED <<table, status, zombie, host>>
  BY DEF ReapUnlink, At, hostVars
<1>2. Others(t) /\ ~Spawning(t) /\ ~Spawning(t)'
  BY <1>1, Asides
<1>3. PICK p \in Proc : p = Top(t).p /\ host[p] # "none"
  BY <1>1, TopSpawned
<1>4. parent[p] # None /\ p \in table
  <2>1. /\ Depth(t) \in Levels(t) /\ FrameAt(t, Depth(t)) = Top(t)
    BY <1>1, Tops DEF TInv
  <2>2. parent[p] # None
    BY <1>1, <1>3, <2>1 DEF TInv, Reaps, Locked
  <2> QED BY <2>2 DEF Tabled
<1>5. /\ parent' = [parent EXCEPT ![p] = None] /\ parent'[p] = None
      /\ \A x \in Proc : x # p => parent'[x] = parent[x]
  BY <1>1, <1>3 DEF TInv, Data
<1>6. \A x \in Proc : x # p => StageOf(x)' = StageOf(x)
  BY <1>1, <1>2, <1>5, InSpawnAside, StageSame
<1>7. StageOf(p) = "child"
  BY <1>4, StageCases
<1>8. StageOf(p)' = "left"
  <2>1. ~InSpawn(p, Middle)
    <3>1. ~Early(Top(t)) /\ Middle \subseteq Opening
      BY <1>1 DEF Early, Opening, Middle
    <3> QED BY <1>1, <1>3, <3>1, InSpawnNot
  <2>2. ~InSpawn(p, Middle)'
    BY <1>2, <2>1, InSpawnAside
  <2> QED BY <1>1, <1>4, <1>5, <2>2, StageCasesAfter
<1>9. Life!Leave(p)
  <2>1. Life!Move(p, {"child"}, "left")
    BY <1>6, <1>7, <1>8, LifeMoves
  <2> QED BY <1>1, <1>5, <2>1 DEF Life!Leave
<1> QED BY <1>9 DEF Life!Next

LEMMA VanishLife ==
  ASSUME TInv, Order, Tabled, NEW t \in Thread, ReapRemove(t)
  PROVE  [Life!Next]_(Life!vars)
<1>1. /\ ~Idle(t) /\ Top(t).op = "reap" /\ Top(t).at = "remove" /\ Return(t)
      /\ table' = table \ {Top(t).p}
      /\ host' = [host EXCEPT ![Top(t).p] =
                    IF Top(t).p \in managed /\ @ = "running" THEN "killed" ELSE @]
      /\ UNCHANGED <<parent, status, zombie>>
  BY DEF ReapRemove, At, Remove, treeVars
<1>2. Others(t) /\ ~Spawning(t) /\ ~Spawning(t)'
  BY <1>1, Asides
<1>3. PICK p \in Proc : p = Top(t).p /\ host[p] # "none"
  BY <1>1, TopSpawned
<1>4. \A x \in Proc : host'[x] = "none" <=> host[x] = "none"
  BY <1>1 DEF TInv, Data
<1>5. parent[p] = None
  <2>1. /\ Depth(t) \in Levels(t) /\ FrameAt(t, Depth(t)) = Top(t)
    BY <1>1, Tops DEF TInv
  <2> QED BY <1>1, <1>3, <2>1 DEF TInv, Reaps, Locked
<1>6. \A x \in Proc : x # p => StageOf(x)' = StageOf(x)
  BY <1>1, <1>2, <1>3, <1>4, InSpawnAside, StageSame
<1>7. ~InSpawn(p, Middle) /\ ~InSpawn(p, {"insert"})'
  <2>1. ~Early(Top(t)) /\ Middle \subseteq Opening /\ {"insert"} \subseteq Opening
    BY <1>1 DEF Early, Opening, Middle
  <2>2. ~InSpawn(p, Middle) /\ ~InSpawn(p, {"insert"})
    BY <1>1, <1>3, <2>1, InSpawnNot
  <2> QED BY <1>2, <2>2, InSpawnAside
<1>8. CASE p \in table
  <2>1. StageOf(p) = "left"
    BY <1>5, <1>7, <1>8, StageCases
  <2>2. StageOf(p)' = "gone"
    BY <1>1, <1>3, <1>4, <1>7, StageCasesAfter
  <2>3. Life!Vanish(p)
    BY <1>1, <1>6, <2>1, <2>2, LifeMoves DEF Life!Vanish
  <2> QED BY <2>3 DEF Life!Next
<1>9. CASE p \notin table
  <2>1. UNCHANGED table
    BY <1>1, <1>3, <1>9
  <2> QED BY <1>1, <1>2, <1>4, <2>1, LifeQuiet
<1> QED BY <1>8, <1>9

-----------------------------------------------------------------------------
(* The steps of a spawn                                                    *)

LEMMA LaunchLife ==
  ASSUME TInv, Order, NEW t \in Thread, NEW q \in AnyProc, NEW p \in Proc,
         SpawnLaunch(t, q, p)
  PROVE  UNCHANGED Life!vars
<1>1. /\ host[p] = "none" /\ host' = [host EXCEPT ![p] = "running"]
      /\ Idle(t) /\ stack' = [stack EXCEPT ![t] = <<Frame("spawn", "insert", p, q)>>]
      /\ proctil = None /\ UNCHANGED <<table, parent, status, zombie>>
  BY DEF SpawnLaunch, Start, treeVars
<1>2. stack'[t] = <<Frame("spawn", "insert", p, q)>> /\ Others(t)
  BY <1>1 DEF TInv, Stacks, Others
<1>3. Spawning(t)' /\ Top(t)'.at = "insert" /\ Top(t)'.p = p
  BY <1>2 DEF Idle, Top, Spawning, Frame
<1>4. {"insert"} \subseteq Opening /\ Middle \subseteq Opening /\ "insert" \notin Middle
  BY DEF Opening, Middle
<1>5. \A x : InSpawn(x, {"insert"})' <=> x = p
  BY <1>1, <1>2, <1>3, <1>4, InSpawnThen
<1>6. \A x : ~InSpawn(x, Middle)'
  BY <1>1, <1>2, <1>3, <1>4, InSpawnThen
<1>7. \A x, L : L \in SUBSET Opening => ~InSpawn(x, L)
  <2>1. \A u \in Thread : ~Launching(u)
    BY <1>1, ProcTreeAssumption DEF Order, LockOwners
  <2> QED BY <2>1 DEF InSpawn, At, Launching, Spawning, Opening
<1>8. ASSUME NEW x \in Proc, x # p PROVE StageOf(x)' = StageOf(x)
  <2>1. host'[x] = host[x]
    BY <1>1, <1>8 DEF TInv, Data
  <2> QED BY <1>1, <1>4, <1>5, <1>6, <1>7, <1>8, <2>1, StageSame
<1>9. StageOf(p)' = StageOf(p)
  <2>1. p \notin table
    BY <1>1 DEF TInv, Births, Unborn
  <2>2. StageOf(p) = "none"
    BY <1>1, <2>1, StageCases
  <2>3. StageOf(p)' = "none"
    BY <1>1, <1>5, <2>1 DEF StageOf
  <2> QED BY <2>2, <2>3
<1> QED BY <1>1, <1>8, <1>9, LifeSilent

\* The stages around a step of the thread that launches p.
LEMMA OpeningStage ==
  ASSUME TInv, Order, Tabled, NEW t \in Thread, Launching(t), Others(t),
         \A x \in Proc : host'[x] = "none" <=> host[x] = "none"
  PROVE  /\ Top(t).p \in Proc /\ host'[Top(t).p] # "none"
         /\ \A x \in Proc :
              (/\ x # Top(t).p
               /\ x \in table' <=> x \in table
               /\ parent'[x] = parent[x]
               /\ ~(Spawning(t)' /\ Top(t)'.p = x))
              => StageOf(x)' = StageOf(x)
         /\ Top(t).at = "insert" => StageOf(Top(t).p) = "none"
         /\ Top(t).at \in Middle => StageOf(Top(t).p) = "loose"
<1>0. ~Idle(t) /\ Top(t).op = "spawn" /\ Middle \subseteq Opening
      /\ {"insert"} \subseteq Opening
  BY DEF Launching, Spawning, Middle, Opening
<1>1. /\ Top(t).p \in Proc /\ host[Top(t).p] # "none"
      /\ Depth(t) \in Levels(t) /\ FrameAt(t, Depth(t)) = Top(t)
  BY <1>0, TopSpawned, Tops DEF TInv
<1>2. \A x : \A L \in SUBSET Opening :
        /\ InSpawn(x, L) <=> Top(t).at \in L /\ Top(t).p = x
        /\ InSpawn(x, L)' <=> Spawning(t)' /\ Top(t)'.at \in L /\ Top(t)'.p = x
  BY InSpawnAlone, InSpawnThen
<1>3. ASSUME NEW x \in Proc, x # Top(t).p, x \in table' <=> x \in table,
             parent'[x] = parent[x], ~(Spawning(t)' /\ Top(t)'.p = x)
      PROVE  StageOf(x)' = StageOf(x)
  BY <1>0, <1>2, <1>3, StageSame
<1>4. ASSUME Top(t).at = "insert" PROVE StageOf(Top(t).p) = "none"
  <2>1. Unborn(Top(t).p)
    BY <1>0, <1>1, <1>4 DEF Unborn
  <2>2. Top(t).p \notin table
    BY <1>1, <2>1 DEF TInv, Births
  <2>3. InSpawn(Top(t).p, {"insert"})
    BY <1>0, <1>2, <1>4
  <2> QED BY <2>2, <2>3, StageCases
<1>5. ASSUME Top(t).at \in Middle PROVE StageOf(Top(t).p) = "loose"
  <2>1. Early(Top(t)) /\ Top(t).at # "insert"
    BY <1>0, <1>5 DEF Early, Middle
  <2>2. Top(t).p \in table /\ parent[Top(t).p] = None
    BY <1>0, <1>1, <2>1 DEF Order, Heirless, Spawning, TInv, Spawns
  <2>3. InSpawn(Top(t).p, Middle)
    BY <1>0, <1>2, <1>5
  <2> QED BY <2>2, <2>3, StageCases
<1> QED BY <1>1, <1>3, <1>4, <1>5

\* The spawn of p is refused: it ends out of the table.
LEMMA RefuseLife ==
  ASSUME TInv, Order, Tabled, NEW t \in Thread, Launching(t), Return(t),
         \A x \in Proc : host'[x] = "none" <=> host[x] = "none",
         UNCHANGED <<parent, status, zombie>>, Early(Top(t)),
         Top(t).at \in {"insert"} \cup Middle, table' = table \ {Top(t).p}
  PROVE  [Life!Next]_(Life!vars)
<1>1. ~Idle(t) /\ Stacks /\ FrameOrder /\ {"insert"} \subseteq Opening
  BY DEF Launching, Spawning, TInv, Order, Opening
<1>2. Others(t) /\ ~Spawning(t)'
  BY <1>1, ReturnFrameOrder DEF Others, Return, Stacks, Spawning
<1>3. PICK p \in Proc : p = Top(t).p
  BY <1>2, OpeningStage
<1>4. /\ host'[p] # "none" /\ StageOf(p) \in {"none", "loose"}
      /\ \A x \in Proc : x # p => StageOf(x)' = StageOf(x)
  BY <1>2, <1>3, OpeningStage
<1>5. ~InSpawn(p, {"insert"})'
  BY <1>1, <1>2, InSpawnThen
<1>6. StageOf(p)' = "gone"
  BY <1>3, <1>4, <1>5, StageCasesAfter
<1>7. Life!Refuse(p)
  BY <1>4, <1>6, LifeMoves DEF Life!Refuse
<1> QED BY <1>7 DEF Life!Next

LEMMA SpawnLife ==
  ASSUME TInv, TInv', Order, Tabled, NEW t \in Thread,
         \/ SpawnInsert(t) \/ SpawnAdopt(t) \/ SpawnContract(t) \/ SpawnUndo(t)
         \/ SpawnReady(t)
  PROVE  [Life!Next]_(Life!vars)
<1>0. Launching(t) /\ ~Idle(t) /\ Top(t).op = "spawn" /\ Stacks
  BY DEF SpawnInsert, SpawnAdopt, SpawnContract, SpawnUndo, SpawnReady, At,
         Spawning, Launching, TInv
<1>1. PICK p \in Proc : p = Top(t).p /\ host[p] # "none"
  BY <1>0, TopSpawned
<1>2. ASSUME SpawnFailed(t, p)
      PROVE  /\ Return(t)
             /\ \A x \in Proc : host'[x] = "none" <=> host[x] = "none"
  BY <1>2 DEF SpawnFailed, TInv, Data
<1>3. ASSUME NEW l, Goto(t, l, Top(t).q)
      PROVE  /\ Others(t) /\ Spawning(t)' /\ Top(t)'.at = l /\ Top(t)'.p = p
             /\ InSpawn(p, Middle)' <=> l \in Middle
  <2>1. /\ Others(t) /\ ~Idle(t)' /\ Top(t)'.op = Top(t).op /\ Top(t)'.at = l
        /\ Top(t)'.p = p
    BY <1>0, <1>1, <1>3, GotoTop
  <2>2. Middle \subseteq Opening
    BY DEF Middle, Opening
  <2>3. Spawning(t)'
    BY <1>0, <2>1 DEF Spawning
  <2> QED BY <1>0, <2>1, <2>2, <2>3, InSpawnThen
<1>4. \A x \in Proc : x \in table' /\ parent'[x] = None /\ InSpawn(x, Middle)' =>
        StageOf(x)' = "loose"
  BY StageCasesAfter
<1>5. CASE SpawnInsert(t)
  <2>1. Top(t).at = "insert" /\ Early(Top(t)) /\ UNCHANGED <<parent, status, zombie>>
    BY <1>0, <1>5 DEF SpawnInsert, At, Early, treeVars
  <2>2. CASE /\ table' = table \cup {p} /\ Goto(t, "adopt", Top(t).q)
             /\ UNCHANGED host
    <3>1. /\ StageOf(p) = "none"
          /\ \A x \in Proc : x # p => StageOf(x)' = StageOf(x)
      BY <1>0, <1>1, <1>3, <2>1, <2>2, OpeningStage
    <3>2. parent'[p] = None
      <4>1. Depth(t) \in Levels(t) /\ FrameAt(t, Depth(t)) = Top(t)
        BY <1>0, Tops
      <4> QED BY <1>1, <2>1, <4>1 DEF TInv, Spawns
    <3>3. StageOf(p)' = "loose"
      BY <1>3, <1>4, <2>2, <3>2 DEF Middle
    <3>4. Life!Enter(p)
      BY <2>1, <3>1, <3>3, LifeMoves DEF Life!Enter
    <3> QED BY <3>4 DEF Life!Next
  <2>3. CASE SpawnFailed(t, p) /\ UNCHANGED table
    <3>1. p \notin table
      <4>1. Depth(t) \in Levels(t) /\ FrameAt(t, Depth(t)) = Top(t)
        BY <1>0, Tops
      <4>2. Unborn(p)
        BY <1>0, <1>1, <2>1, <4>1 DEF Unborn
      <4> QED BY <4>2 DEF TInv, Births
    <3> QED BY <1>0, <1>1, <1>2, <2>1, <2>3, <3>1, RefuseLife
  <2> QED BY <1>1, <1>5, <2>2, <2>3 DEF SpawnInsert
<1>6. ASSUME NEW l \in Middle, Goto(t, l, Top(t).q), Top(t).at \in Middle,
             UNCHANGED <<table, parent, status, zombie, host>>
      PROVE  UNCHANGED Life!vars
  <2>1. /\ StageOf(p) = "loose"
        /\ \A x \in Proc : x # p => StageOf(x)' = StageOf(x)
    BY <1>0, <1>1, <1>3, <1>6, OpeningStage
  <2>2. Early(Top(t)) /\ Top(t).at # "insert"
    BY <1>0, <1>6 DEF Early, Middle
  <2>3. Depth(t) \in Levels(t) /\ FrameAt(t, Depth(t)) = Top(t)
    BY <1>0, Tops
  <2>4. p \in table' /\ parent'[p] = None
    BY <1>0, <1>1, <1>6, <2>2, <2>3 DEF Order, Heirless, Spawning, TInv, Spawns
  <2>5. StageOf(p)' = "loose"
    BY <1>3, <1>4, <1>6, <2>4
  <2> QED BY <1>6, <2>1, <2>5, LifeSilent
<1>7. CASE SpawnAdopt(t)
  <2>1. /\ Top(t).at \in Middle /\ UNCHANGED <<table, parent, status, zombie, host>>
        /\ \E l \in Middle : Goto(t, l, Top(t).q)
    BY <1>7 DEF SpawnAdopt, At, Middle, treeVars, hostVars
  <2> QED BY <1>6, <2>1
<1>8. CASE SpawnContract(t)
  <2>1. /\ Top(t).at = "contract" /\ "contract" \in Middle /\ "undo" \in Middle
        /\ UNCHANGED <<table, status, zombie, host>>
    BY <1>8 DEF SpawnContract, At, Middle, hostVars
  <2>2. CASE Goto(t, "undo", Top(t).q) /\ UNCHANGED parent
    BY <1>6, <2>1, <2>2
  <2>3. CASE /\ parent' = [parent EXCEPT ![p] = Top(t).q]
             /\ Goto(t, "ready", Top(t).q)
    <3>1. /\ parent'[p] = Top(t).q
          /\ \A x \in Proc : x # p => parent'[x] = parent[x]
      BY <2>3 DEF TInv, Data
    <3>2. /\ StageOf(p) = "loose"
          /\ \A x \in Proc : x # p => StageOf(x)' = StageOf(x)
      BY <1>0, <1>1, <1>3, <2>1, <2>3, <3>1, OpeningStage
    <3>3. PICK q \in AnyProc : q = Top(t).q /\ (q # Kernel => q \in Proc)
      BY <1>0 DEF Order, Sessions, Launching, TInv, Data, AnyProc
    <3>4. Depth(t) \in Levels(t) /\ FrameAt(t, Depth(t)) = Top(t)
      BY <1>0, Tops
    <3>5. Early(Top(t)) /\ Top(t).at # "insert"
      BY <1>0, <2>1 DEF Early
    <3>6. p \in table /\ q # p
      BY <1>0, <1>1, <3>3, <3>5 DEF Order, Heirless, Launching
    <3>7. StageOf(p)' = "child"
      <4>1. p \in table' /\ parent'[p] # None
        BY <2>1, <3>1, <3>3, <3>6, ProcTreeAssumption DEF AnyProc
      <4> QED BY <4>1, StageCasesAfter
    <3>8. ASSUME q # Kernel PROVE StageOf(q) \in {"child", "left", "gone"}
      <4>1. ~Unborn(q)
        BY <1>0, <2>1, <3>3, <3>4, <3>8 DEF TInv, Births
      <4>2. host[q] # "none"
        BY <4>1 DEF Unborn
      <4>3. ~InSpawn(q, {"insert"}) /\ ~InSpawn(q, Middle)
        <5>1. {"insert"} \subseteq Opening /\ Middle \subseteq Opening
          BY DEF Middle, Opening
        <5> QED BY <1>0, <1>1, <3>6, <5>1, InSpawnAlone
      <4> QED BY <4>2, <4>3, StageCases
    <3>9. Life!Adopt(p, q)
      BY <2>1, <2>3, <3>2, <3>3, <3>7, <3>8, LifeMoves DEF Life!Adopt
    <3> QED BY <3>9 DEF Life!Next, AnyProc
  <2> QED BY <1>1, <1>8, <2>2, <2>3 DEF SpawnContract, treeVars
<1>9. CASE SpawnUndo(t)
  <2>1. /\ Top(t).at = "undo" /\ SpawnFailed(t, p) /\ table' = table \ {p}
        /\ UNCHANGED <<parent, status, zombie>> /\ Early(Top(t))
        /\ Top(t).at \in {"insert"} \cup Middle
    BY <1>0, <1>1, <1>9 DEF SpawnUndo, At, Remove, treeVars, Early, Middle
  <2> QED BY <1>0, <1>1, <1>2, <2>1, RefuseLife
<1>10. CASE SpawnReady(t)
  <2>1. /\ Top(t).at = "ready" /\ Goto(t, "register", Top(t).q)
        /\ UNCHANGED <<table, parent, status, zombie, host>>
    BY <1>10 DEF SpawnReady, At, treeVars
  <2>2. \A x \in Proc : x # p => StageOf(x)' = StageOf(x)
    BY <1>0, <1>1, <1>3, <2>1, OpeningStage
  <2>3. ASSUME NEW L, L \in {{"insert"}, Middle}
        PROVE  ~InSpawn(p, L) /\ ~InSpawn(p, L)'
    <3>1. L \subseteq Opening /\ "ready" \notin L /\ "register" \notin L
      BY <2>3 DEF Middle, Opening
    <3>2. ~InSpawn(p, L)
      BY <1>0, <1>1, <2>1, <3>1, InSpawnAlone
    <3>3. ~InSpawn(p, L)'
      BY <1>0, <1>1, <1>3, <2>1, <3>1, InSpawnThen
    <3> QED BY <3>2, <3>3
  <2>4. {"insert"} \subseteq Opening /\ Middle \subseteq Opening
    BY DEF Middle, Opening
  <2>5. StageOf(p)' = StageOf(p)
    BY <2>1, <2>3, <2>4, StageSame
  <2> QED BY <2>1, <2>2, <2>5, LifeSilent
<1> QED BY <1>5, <1>7, <1>8, <1>9, <1>10

LEMMA RegisterLife ==
  ASSUME TInv, Order, NEW t \in Thread, SpawnRegister(t)
  PROVE  UNCHANGED Life!vars
<1>1. /\ ~Idle(t) /\ Top(t).at = "register" /\ Return(t)
      /\ UNCHANGED <<table, parent, status, zombie, host>>
      /\ Stacks /\ FrameOrder
  BY DEF SpawnRegister, At, treeVars, TInv, Order
<1>2. Others(t) /\ ~Spawning(t)'
  BY <1>1, ReturnFrameOrder DEF Others, Return, Stacks, Spawning
<1>3. \A u \in Thread : u # t => /\ Idle(u)' <=> Idle(u)
                                 /\ Top(u)' = Top(u)
  BY <1>2 DEF Others, Idle, Top
<1>4. \A l \in Opening : ~At(t, "spawn", l) /\ ~At(t, "spawn", l)'
  BY <1>1, <1>2 DEF At, Spawning, Opening
<1>5. ASSUME NEW x, NEW L \in SUBSET Opening
      PROVE  InSpawn(x, L)' <=> InSpawn(x, L)
  <2>1. \A u \in Thread : \A l \in L : At(u, "spawn", l)' <=> At(u, "spawn", l)
    BY <1>3, <1>4 DEF At
  <2>2. \A u \in Thread : \A l \in L : At(u, "spawn", l) => Top(u)' = Top(u)
    BY <1>3, <1>4
  <2> QED BY <2>1, <2>2 DEF InSpawn
<1>6. {"insert"} \subseteq Opening /\ Middle \subseteq Opening
  BY DEF Middle, Opening
<1> QED BY <1>1, <1>5, <1>6, StageSame, LifeSilent

LEMMA LifeStep == LInv /\ [Next]_vars => [Life!Next]_(Life!vars)
<1> SUFFICES ASSUME TInv, Order, Tabled, [Next]_vars PROVE [Life!Next]_(Life!vars)
  BY DEF LInv, OInv
<1>0. TInv'
  BY Inductive
<1>1. ASSUME NEW t \in Thread, Continue(t) PROVE [Life!Next]_(Life!vars)
  BY <1>0, <1>1, SpawnLife, RegisterLife, QuietLife, LeaveLife, VanishLife,
     RecordLife, ZombifyLife DEF Continue
<1>2. ASSUME NEW t \in Thread, NEW q \in Proc, NEW c \in Proc, WaitReap(t, q, c)
      PROVE  UNCHANGED Life!vars
  <2>1. /\ Idle(t) /\ UNCHANGED <<table, parent, status, zombie, host>>
        /\ \E x : stack' = [stack EXCEPT ![t] = <<Frame("reap", "begin", c, None),
                                                  Frame("wait", "drop", c, x)>>]
    BY <1>2 DEF WaitReap, notRefs, quietVars, treeVars, hostVars
  <2>2. PICK x : stack'[t] = <<Frame("reap", "begin", c, None),
                               Frame("wait", "drop", c, x)>>
    BY <2>1 DEF TInv, Stacks
  <2>3. Others(t)
    BY <2>1 DEF TInv, Stacks, Others
  <2>4. ~Spawning(t) /\ ~Spawning(t)'
    BY <2>1, <2>2 DEF Spawning, Top, Frame
  <2> QED BY <2>1, <2>3, <2>4, LifeQuiet
<1>3. ASSUME NEW t \in Thread, NEW p \in Proc, ExitBegin(t, p)
      PROVE  UNCHANGED Life!vars
  <2>1. /\ UNCHANGED <<table, parent, status, zombie>>
        /\ \A x \in Proc : host'[x] = "none" <=> host[x] = "none"
    BY <1>3 DEF ExitBegin, treeVars, TInv, Data
  <2>2. CASE Start(t, Frame("exit", "status", p, None))
    <3>1. Idle(t) /\ stack'[t] = <<Frame("exit", "status", p, None)>> /\ Others(t)
      BY <2>2 DEF Start, TInv, Stacks, Others
    <3>2. ~Spawning(t) /\ ~Spawning(t)'
      BY <3>1 DEF Spawning, Top, Frame
    <3> QED BY <2>1, <3>1, <3>2, LifeQuiet
  <2>3. CASE UNCHANGED stack
    BY <2>1, <2>3, LifeStill
  <2> QED BY <1>3, <2>2, <2>3 DEF ExitBegin
<1>4. CASE \/ \E p \in Proc : HostDies(p) \/ OpenSession(p) \/ CloseSession(p)
           \/ UNCHANGED kernVars
  <2>1. /\ UNCHANGED <<stack, table, parent, status, zombie>>
        /\ \A x \in Proc : host'[x] = "none" <=> host[x] = "none"
    BY <1>4 DEF HostDies, OpenSession, CloseSession, hostVars, treeVars, kernVars, TInv, Data
  <2> QED BY <2>1, LifeStill
<1>5. ASSUME NEW t \in Thread, Call(t) PROVE UNCHANGED Life!vars
  BY <1>2, <1>5, LaunchLife DEF Call
<1> QED BY <1>1, <1>3, <1>4, <1>5 DEF Next, Rest, Jam, vars

\* Every behaviour of spawns, exits, reaps and waits is one ProcLife allows, for
\* any number of threads and processes.
THEOREM LifeCycle == Spec => ImplementsProcLife
<1>1. Init => LInv
  <2>1. Init => Tabled
    BY DEF Init, Tabled
  <2> QED BY <2>1, Initially, OrderInitially DEF LInv, OInv
<1>2. LInv /\ [Next]_vars => LInv'
  BY OrderInductive, TabledStep DEF LInv
<1>3. Spec => []LInv
  BY <1>1, <1>2, PTL DEF Spec
<1>4. Init => Life!Init
  <2> SUFFICES ASSUME Init PROVE Life!Init
    OBVIOUS
  <2>1. \A p \in Proc : StageOf(p) = "none"
    BY StageCases DEF Init
  <2> QED BY <2>1 DEF Init, Life!Init
<1> QED BY <1>3, <1>4, LifeStep, PTL DEF Spec, Life!Spec, ImplementsProcLife
=============================================================================
