-------------------------- MODULE DocStore_proofs ---------------------------
(***************************************************************************)
(* Proofs about DocStore: every document keeps its type and stays a tree,  *)
(* clocks stay past the times they were shown, and the undo history of a   *)
(* client that took in nothing of others tells its file.  TLC checks this  *)
(* for three nodes; here it holds for any.                                 *)
(*                                                                         *)
(* The argument is in three layers: what Create, Set and Move do to a      *)
(* document (ApplyDoc), what that makes of a batch (AfterDoc, ApplyAllDoc, *)
(* by induction over its operations), and what the actions do with batches *)
(* (Acts and the lemmas after it).  That a node above which nothing        *)
(* repeats stays so is said of sets: Above is the least set with a node in *)
(* it that is closed under parents (AboveIs), and a tree is a document     *)
(* where every set of nodes has a member whose parent is outside it        *)
(* (Tree).                                                                 *)
(*                                                                         *)
(* A history is told by the documents its steps led through (Tells): they  *)
(* are all trees with the nodes there are now, so the place a node had     *)
(* before the last step makes no cycle, and the last step can always be    *)
(* undone (TellsTop).                                                      *)
(***************************************************************************)
EXTENDS DocStore, SequenceFacts, SequenceTheorems, FiniteSetTheorems,
        WellFoundedInduction, TLAPS

USE DocAssumption DEF DocAssumption

(* Nodes, times an operation can have, operations, and documents of typed   *)
(* nodes.                                                                   *)
NodeRec == [parent : Node \cup {NoNode}, placeTime : Time,
            val : [Key -> 0 .. 1], time : [Key -> Time]]
Stamp == (Nat \ {0}) \X Session
Op == [kind : {"create", "move"}, id : Node \ {Root}, key : {"place"},
       to : Node, time : Stamp, alone : BOOLEAN]
        \cup [kind : {"set"}, id : Node \ {Root}, key : Key, to : 0 .. 1,
              time : Stamp, alone : BOOLEAN]

Holds(s) == /\ DOMAIN s \subseteq Node
            /\ \A n \in DOMAIN s : s[n] \in NodeRec

(* Times are totally ordered: first by counter, then by session.            *)
LEMMA Order ==
  ASSUME NEW a \in Time, NEW b \in Time, NEW c \in Time
  PROVE  /\ Before(a, b) \/ Before(b, a) \/ a = b
         /\ ~Before(a, a)
         /\ Before(a, b) => ~Before(b, a)
         /\ ~Before(b, a) /\ ~Before(c, b) => ~Before(c, a)
<1>1. \A t \in Time : t = <<t[1], t[2]>> /\ t[1] \in Nat /\ t[2] \in Session \cup {0}
  BY DEF Time
<1>2. Session \cup {0} \subseteq Nat
  OBVIOUS
<1>3. \A t \in Time : t = <<t[1], t[2]>> /\ t[1] \in Nat /\ t[2] \in Nat
  BY <1>1, <1>2
<1> QED
  BY <1>3 DEF Before

(* Times that can occur, and those an operation can have.                   *)
LEMMA Zeros == Zero \in Time /\ Stamp \subseteq Time
<1>1. Zero \in Time
  BY DEF Zero, Time
<1> QED
  BY <1>1 DEF Stamp, Time

(* The fields of an operation.                                              *)
LEMMA OpFields ==
  ASSUME NEW op \in Op
  PROVE  /\ op.kind \in {"create", "set", "move"} /\ op.id \in Node \ {Root}
         /\ op.time \in Stamp /\ op.time \in Time /\ op.alone \in BOOLEAN
         /\ op.kind = "set" => op.key \in Key /\ op.to \in 0 .. 1
         /\ op.kind # "set" => op.key = "place" /\ op.to \in Node
         /\ op.key = "place" <=> op.kind # "set"
<1>1. CASE op.kind = "set"
  <2>1. op \in [kind : {"set"}, id : Node \ {Root}, key : Key, to : 0 .. 1,
                time : Stamp, alone : BOOLEAN]
    BY <1>1 DEF Op
  <2> QED
    BY <1>1, <2>1, Zeros
<1>2. CASE op.kind # "set"
  <2>1. op \in [kind : {"create", "move"}, id : Node \ {Root}, key : {"place"},
                to : Node, time : Stamp, alone : BOOLEAN]
    BY <1>2 DEF Op
  <2> QED
    BY <1>2, <2>1, Zeros
<1> QED
  BY <1>1, <1>2

(* Create: what it adds, and when it does nothing.                          *)
LEMMA CreateIs ==
  ASSUME NEW s, NEW op, op.id \notin DOMAIN s, op.to \in DOMAIN s
  PROVE  /\ DOMAIN Create(s, op) = DOMAIN s \cup {op.id}
         /\ \A n \in DOMAIN s : Create(s, op)[n] = s[n]
         /\ Create(s, op)[op.id] = Record(op.to, op.time)
  BY DEF Create

LEMMA CreateNot ==
  ASSUME NEW s, NEW op, op.id \in DOMAIN s \/ op.to \notin DOMAIN s
  PROVE  Create(s, op) = s
  BY DEF Create

(* Set: the one property and its time that it writes, and when it does      *)
(* nothing.                                                                 *)
LEMMA SetIs ==
  ASSUME NEW s, Holds(s), NEW op \in Op, op.kind = "set", op.id \in DOMAIN s,
         ~Before(op.time, s[op.id].time[op.key]),
         NEW t, t = Set(s, op)
  PROVE  /\ DOMAIN t = DOMAIN s
         /\ \A n \in DOMAIN s \ {op.id} : t[n] = s[n]
         /\ t[op.id] \in NodeRec
         /\ t[op.id].parent = s[op.id].parent
         /\ t[op.id].placeTime = s[op.id].placeTime
         /\ \A k \in Key : t[op.id].val[k] =
                            IF k = op.key THEN op.to ELSE s[op.id].val[k]
         /\ \A k \in Key : t[op.id].time[k] =
                            IF k = op.key THEN op.time ELSE s[op.id].time[k]
<1>1. t = [s EXCEPT ![op.id].val[op.key] = op.to, ![op.id].time[op.key] = op.time]
  BY DEF Set
<1>2. /\ DOMAIN t = DOMAIN s
      /\ \A n \in DOMAIN s \ {op.id} : t[n] = s[n]
      /\ t[op.id] = [s[op.id] EXCEPT !.val[op.key] = op.to, !.time[op.key] = op.time]
  BY <1>1
<1>3. PICK r \in NodeRec : r = s[op.id]
  BY DEF Holds
<1>4. op.key \in Key /\ op.to \in 0 .. 1 /\ op.time \in Time
  BY OpFields
<1>5. /\ r.val \in [Key -> 0 .. 1] /\ r.time \in [Key -> Time]
      /\ r.parent \in Node \cup {NoNode} /\ r.placeTime \in Time
  BY DEF NodeRec
<1>6. t[op.id] = [parent |-> r.parent, placeTime |-> r.placeTime,
                  val |-> [r.val EXCEPT ![op.key] = op.to],
                  time |-> [r.time EXCEPT ![op.key] = op.time]]
  BY <1>2, <1>3 DEF NodeRec
<1>7. /\ [r.val EXCEPT ![op.key] = op.to] \in [Key -> 0 .. 1]
      /\ [r.time EXCEPT ![op.key] = op.time] \in [Key -> Time]
  BY <1>4, <1>5
<1>8. t[op.id] \in NodeRec
  BY <1>5, <1>6, <1>7 DEF NodeRec
<1>9. ASSUME NEW k \in Key
      PROVE  /\ t[op.id].val[k] = IF k = op.key THEN op.to ELSE r.val[k]
             /\ t[op.id].time[k] = IF k = op.key THEN op.time ELSE r.time[k]
  BY <1>4, <1>5, <1>6
<1> QED
  BY <1>2, <1>3, <1>6, <1>8, <1>9

LEMMA SetNot ==
  ASSUME NEW s, NEW op,
         op.id \notin DOMAIN s \/ Before(op.time, s[op.id].time[op.key])
  PROVE  Set(s, op) = s
  BY DEF Set

(* Move: the one place and its time that it writes, and when it does        *)
(* nothing.                                                                 *)
LEMMA MoveIs ==
  ASSUME NEW s, Holds(s), NEW op \in Op, op.kind = "move", op.id \in DOMAIN s,
         ~Late(s, op), CanMove(s, op.id, op.to),
         NEW t, t = Move(s, op)
  PROVE  /\ DOMAIN t = DOMAIN s
         /\ \A n \in DOMAIN s \ {op.id} : t[n] = s[n]
         /\ t[op.id] \in NodeRec
         /\ t[op.id].parent = op.to /\ t[op.id].placeTime = op.time
         /\ t[op.id].val = s[op.id].val /\ t[op.id].time = s[op.id].time
<1>1. t = [s EXCEPT ![op.id].parent = op.to, ![op.id].placeTime = op.time]
  BY DEF Move
<1>2. /\ DOMAIN t = DOMAIN s
      /\ \A n \in DOMAIN s \ {op.id} : t[n] = s[n]
      /\ t[op.id] = [s[op.id] EXCEPT !.parent = op.to, !.placeTime = op.time]
  BY <1>1
<1>3. PICK r \in NodeRec : r = s[op.id]
  BY DEF Holds
<1>4. op.to \in Node /\ op.time \in Time
  BY OpFields
<1>5. /\ r.val \in [Key -> 0 .. 1] /\ r.time \in [Key -> Time]
  BY DEF NodeRec
<1>6. t[op.id] = [parent |-> op.to, placeTime |-> op.time, val |-> r.val,
                  time |-> r.time]
  BY <1>2, <1>3 DEF NodeRec
<1>7. t[op.id] \in NodeRec
  BY <1>4, <1>5, <1>6 DEF NodeRec
<1> QED
  BY <1>2, <1>3, <1>6, <1>7

LEMMA MoveNot ==
  ASSUME NEW s, NEW op,
         op.id \notin DOMAIN s \/ Late(s, op) \/ ~CanMove(s, op.id, op.to)
  PROVE  Move(s, op) = s
  BY DEF Move

(* Apply is one of the three.                                               *)
LEMMA ApplyIs ==
  ASSUME NEW s, NEW op
  PROVE  /\ op.kind = "create" => Apply(s, op) = Create(s, op)
         /\ op.kind = "set" => Apply(s, op) = Set(s, op)
         /\ op.kind = "move" => Apply(s, op) = Move(s, op)
  BY DEF Apply
(* The recursive function After is a function as its definition says.       *)
LEMMA AfterIs ==
  ASSUME NEW s, NEW ops, Len(ops) \in Nat
  PROVE  After(s, ops) = [i \in 0 .. Len(ops) |->
           IF i = 0 THEN s ELSE Apply(After(s, ops)[i - 1], ops[i])]
<1> DEFINE Upto(g, m) == /\ g = [i \in 0 .. m |-> g[i]] /\ g[0] = s
                         /\ \A i \in 1 .. m : g[i] = Apply(g[i - 1], ops[i])
           Steps(f) == [i \in 0 .. Len(ops) |->
                          IF i = 0 THEN s ELSE Apply(f[i - 1], ops[i])]
           Reached == {m \in Nat : \E g : Upto(g, m)}
<1>1. 0 \in Reached
  <2>1. Upto([i \in 0 .. 0 |-> s], 0)
    OBVIOUS
  <2> QED
    BY <2>1
<1>2. ASSUME NEW m \in Nat, m \in Reached PROVE m + 1 \in Reached
  <2>1. PICK g : Upto(g, m)
    BY <1>2
  <2> DEFINE h == [i \in 0 .. m + 1 |->
                     IF i = m + 1 THEN Apply(g[m], ops[m + 1]) ELSE g[i]]
  <2>2. h = [i \in 0 .. m + 1 |-> h[i]]
    OBVIOUS
  <2>3. h[0] = s
    BY <2>1
  <2>4. ASSUME NEW i \in 1 .. m + 1 PROVE h[i] = Apply(h[i - 1], ops[i])
    <3>1. i - 1 \in 0 .. m /\ h[i - 1] = g[i - 1]
      OBVIOUS
    <3>2. CASE i = m + 1
      <4>1. h[i] = Apply(g[m], ops[m + 1]) /\ i - 1 = m
        BY <3>2
      <4> QED
        BY <3>1, <3>2, <4>1
    <3>3. CASE i \in 1 .. m
      <4>1. h[i] = g[i]
        BY <3>3
      <4> QED
        BY <2>1, <3>1, <3>3, <4>1
    <3> QED
      BY <3>2, <3>3
  <2>5. Upto(h, m + 1)
    BY <2>2, <2>3, <2>4
  <2> HIDE DEF Upto, h
  <2>6. m + 1 \in Nat /\ \E k : Upto(k, m + 1)
    BY <2>5
  <2> QED
    BY <2>6
<1>3. Len(ops) \in Reached
  <2> HIDE DEF Reached
  <2> QED
    BY <1>1, <1>2, AllNumbers
<1>4. PICK g : Upto(g, Len(ops))
  BY <1>3
<1>5. g = Steps(g)
  <2>1. /\ g = [i \in 0 .. Len(ops) |-> g[i]] /\ g[0] = s
        /\ \A i \in 1 .. Len(ops) : g[i] = Apply(g[i - 1], ops[i])
    BY <1>4
  <2>2. ASSUME NEW i \in 0 .. Len(ops)
        PROVE  g[i] = IF i = 0 THEN s ELSE Apply(g[i - 1], ops[i])
    <3>1. i = 0 \/ i \in 1 .. Len(ops)
      OBVIOUS
    <3> QED
      BY <2>1, <3>1
  <2> QED
    BY <2>1, <2>2
<1>6. After(s, ops) = CHOOSE f : f = Steps(f)
  BY DEF After
<1> HIDE DEF Steps
<1>7. After(s, ops) = Steps(After(s, ops))
  BY <1>5, <1>6, Zenon
<1> QED
  BY <1>7 DEF Steps

(* The document after the operations so far, one at a time.                 *)
LEMMA AfterEach ==
  ASSUME NEW s, NEW ops, Len(ops) \in Nat
  PROVE  /\ After(s, ops)[0] = s
         /\ \A i \in 1 .. Len(ops) :
              After(s, ops)[i] = Apply(After(s, ops)[i - 1], ops[i])
         /\ ApplyAll(s, ops) = After(s, ops)[Len(ops)]
<1> DEFINE each == [i \in 0 .. Len(ops) |->
                      IF i = 0 THEN s ELSE Apply(After(s, ops)[i - 1], ops[i])]
<1>1. After(s, ops) = each
  BY AfterIs
<1>2. each[0] = s
  OBVIOUS
<1>3. ASSUME NEW i \in 1 .. Len(ops)
      PROVE  each[i] = Apply(After(s, ops)[i - 1], ops[i])
  OBVIOUS
<1> HIDE DEF each
<1> QED
  BY <1>1, <1>2, <1>3 DEF ApplyAll

-----------------------------------------------------------------------------
(* The tree.                                                                *)
(* Parents are nodes or none; a set of nodes closed under parents; one step *)
(* of climbing.                                                             *)
Parents(s) == /\ DOMAIN s \subseteq Node
              /\ \A n \in DOMAIN s : s[n].parent \in Node \cup {NoNode}

Up(s, A) == \A n \in A \cap DOMAIN s : s[n].parent \in A

Step(s, A) == A \cup {s[n].parent : n \in A \cap DOMAIN s}

(* The function Above ends with.                                            *)
Climb(s, id) ==
  LET up[k \in 0 .. Cardinality(Node)] ==
        IF k = 0 THEN {id}
        ELSE LET below == up[k - 1]
             IN below \cup {s[n].parent : n \in below \cap DOMAIN s}
  IN  up

(* The levels of Above: each is the one before with the parents of its      *)
(* nodes.                                                                   *)
LEMMA ClimbIs ==
  ASSUME NEW s, NEW id
  PROVE  /\ Above(s, id) = Climb(s, id)[Cardinality(Node)]
         /\ Climb(s, id)[0] = {id}
         /\ \A k \in 1 .. Cardinality(Node) :
              Climb(s, id)[k] = Step(s, Climb(s, id)[k - 1])
<1> DEFINE N == Cardinality(Node)
           Upto(g, m) == /\ g = [i \in 0 .. m |-> g[i]] /\ g[0] = {id}
                         /\ \A i \in 1 .. m : g[i] = Step(s, g[i - 1])
           Climbing(f) == [k \in 0 .. N |->
                          IF k = 0 THEN {id}
                          ELSE LET below == f[k - 1]
                               IN below \cup {s[n].parent : n \in below \cap DOMAIN s}]
           Reached == {m \in Nat : \E g : Upto(g, m)}
<1>1. N \in Nat
  BY FS_CardinalityType
<1> HIDE DEF N
<1>2. 0 \in Reached
  <2>1. Upto([i \in 0 .. 0 |-> {id}], 0)
    OBVIOUS
  <2> QED
    BY <2>1
<1>3. ASSUME NEW m \in Nat, m \in Reached PROVE m + 1 \in Reached
  <2>1. PICK g : Upto(g, m)
    BY <1>3
  <2> DEFINE h == [i \in 0 .. m + 1 |->
                     IF i = m + 1 THEN Step(s, g[m]) ELSE g[i]]
  <2>2. h = [i \in 0 .. m + 1 |-> h[i]]
    OBVIOUS
  <2>3. h[0] = {id}
    BY <2>1
  <2>4. ASSUME NEW i \in 1 .. m + 1 PROVE h[i] = Step(s, h[i - 1])
    <3>1. i - 1 \in 0 .. m /\ h[i - 1] = g[i - 1]
      OBVIOUS
    <3>2. CASE i = m + 1
      <4>1. h[i] = Step(s, g[m]) /\ i - 1 = m
        BY <3>2
      <4> QED
        BY <3>1, <3>2, <4>1
    <3>3. CASE i \in 1 .. m
      <4>1. h[i] = g[i]
        BY <3>3
      <4> QED
        BY <2>1, <3>1, <3>3, <4>1
    <3> QED
      BY <3>2, <3>3
  <2>5. Upto(h, m + 1)
    BY <2>2, <2>3, <2>4
  <2> HIDE DEF Upto, h
  <2>6. m + 1 \in Nat /\ \E k : Upto(k, m + 1)
    BY <2>5
  <2> QED
    BY <2>6
<1>4. N \in Reached
  <2> HIDE DEF Reached
  <2> QED
    BY <1>1, <1>2, <1>3, AllNumbers
<1>5. PICK g : Upto(g, N)
  BY <1>4
<1>6. g = Climbing(g)
  <2>1. ASSUME NEW i \in 0 .. N PROVE g[i] = Climbing(g)[i]
    <3>1. CASE i = 0
      BY <1>1, <1>5, <3>1
    <3>2. CASE i # 0
      <4>1. i \in 1 .. N
        BY <1>1, <3>2
      <4>2. Climbing(g)[i] = g[i - 1] \cup {s[n].parent : n \in g[i - 1] \cap DOMAIN s}
        BY <3>2
      <4> QED
        BY <1>5, <4>1, <4>2 DEF Step
    <3> QED
      BY <3>1, <3>2
  <2> QED
    BY <1>5, <2>1
<1>7. PICK f : f = CHOOSE h : h = Climbing(h)
  OBVIOUS
<1>8. Above(s, id) = f[N] /\ Climb(s, id) = f
  BY <1>7 DEF Above, Climb, N
<1>9. f = Climbing(f)
  <2> HIDE DEF Climbing
  <2> QED
    BY <1>6, <1>7, Zenon
<1>10. f[0] = {id}
  <2>1. PICK g1 : g1 = Climbing(f)
    OBVIOUS
  <2>2. g1[0] = {id}
    BY <1>1, <2>1
  <2> QED
    BY <1>9, <2>1, <2>2
<1>11. ASSUME NEW k \in 1 .. N PROVE f[k] = Step(s, f[k - 1])
  <2>1. k \in 0 .. N /\ k # 0
    BY <1>1
  <2>2. PICK g2 : g2 = Climbing(f)
    OBVIOUS
  <2>3. g2[k] = f[k - 1] \cup {s[n].parent : n \in f[k - 1] \cap DOMAIN s}
    BY <2>1, <2>2
  <2> QED
    BY <1>9, <2>2, <2>3 DEF Step
<1> QED
  BY <1>8, <1>10, <1>11 DEF N

LEMMA OneMore ==
  ASSUME NEW S, IsFiniteSet(S), NEW x, x \notin S
  PROVE  Cardinality(S \cup {x}) = Cardinality(S) + 1
  BY FS_AddElement

(* Above(s, id) is the least set with id in it and, with a node, its parent.*)
LEMMA AboveIs ==
  ASSUME NEW s, Parents(s), NEW id \in Node \cup {NoNode}
  PROVE  /\ id \in Above(s, id) /\ Above(s, id) \subseteq Node \cup {NoNode}
         /\ Up(s, Above(s, id))
         /\ \A C : id \in C /\ Up(s, C) => Above(s, id) \subseteq C
<1>1. PICK N \in Nat : N = Cardinality(Node)
  BY FS_CardinalityType
<1>2. PICK All : All = Node \cup {NoNode}
  OBVIOUS
<1>3. IsFiniteSet(All) /\ Cardinality(All) = N + 1
  <2>1. IsFiniteSet(Node \cup {NoNode})
    BY FS_AddElement
  <2>2. Cardinality(Node \cup {NoNode}) = Cardinality(Node) + 1
    BY OneMore
  <2> QED
    BY <1>1, <1>2, <2>1, <2>2, Zenon
<1>4. PICK up : up = Climb(s, id)
  OBVIOUS
<1>5. /\ Above(s, id) = up[N] /\ up[0] = {id}
       /\ \A k \in 1 .. N : up[k] = Step(s, up[k - 1])
  BY <1>1, <1>4, ClimbIs
<1>6. \A k \in Nat : k + 1 <= N => up[k + 1] = Step(s, up[k])
  <2>1. ASSUME NEW k \in Nat, k + 1 <= N PROVE up[k + 1] = Step(s, up[k])
    <3>1. k + 1 \in 1 .. N /\ (k + 1) - 1 = k
      BY <2>1
    <3> QED
      BY <1>5, <3>1
  <2> QED
    BY <2>1
<1>7. \A A : A \subseteq All => Step(s, A) \subseteq All
  BY <1>2 DEF Step, Parents
<1> DEFINE Large == {k \in Nat : k <= N =>
                       /\ up[k] \subseteq All /\ id \in up[k]
                       /\ Up(s, up[k]) \/ Cardinality(up[k]) >= k + 1}
<1>8. 0 \in Large
  <2>1. Cardinality({id}) = 1
    BY FS_Singleton
  <2>2. up[0] \subseteq All /\ id \in up[0] /\ Cardinality(up[0]) >= 0 + 1
    BY <1>2, <1>5, <2>1
  <2> QED
    BY <2>2
<1>9. ASSUME NEW k \in Nat, k \in Large PROVE k + 1 \in Large
  <2> SUFFICES ASSUME k + 1 <= N
               PROVE  /\ up[k + 1] \subseteq All /\ id \in up[k + 1]
                      /\ Up(s, up[k + 1]) \/ Cardinality(up[k + 1]) >= (k + 1) + 1
    OBVIOUS
  <2>1. /\ up[k] \subseteq All /\ id \in up[k]
        /\ Up(s, up[k]) \/ Cardinality(up[k]) >= k + 1
    <3>1. k <= N
      OBVIOUS
    <3> QED
      BY <1>9, <3>1
  <2> HIDE DEF Large
  <2>2. up[k + 1] = Step(s, up[k])
    BY <1>6
  <2>3. up[k + 1] \subseteq All /\ id \in up[k + 1] /\ up[k] \subseteq up[k + 1]
    BY <1>7, <2>1, <2>2 DEF Step
  <2>4. CASE Up(s, up[k])
    <3>1. up[k + 1] = up[k]
      BY <2>2, <2>4 DEF Step, Up
    <3> QED
      BY <2>3, <2>4, <3>1
  <2>5. CASE ~Up(s, up[k])
    <3>1. PICK n \in up[k] \cap DOMAIN s : s[n].parent \notin up[k]
      BY <2>5 DEF Up
    <3>2. PICK p : p = s[n].parent
      OBVIOUS
    <3>3. up[k] \cup {p} \subseteq up[k + 1]
      BY <2>2, <3>1, <3>2 DEF Step
    <3>4. IsFiniteSet(up[k]) /\ IsFiniteSet(up[k + 1])
      BY <1>3, <2>1, <2>3, FS_Subset
    <3>5. PICK a \in Nat, b \in Nat, c \in Nat :
             /\ a = Cardinality(up[k]) /\ b = Cardinality(up[k + 1])
             /\ c = Cardinality(up[k] \cup {p})
      <4>1. IsFiniteSet(up[k] \cup {p})
        BY <3>3, <3>4, FS_Subset
      <4>2. /\ Cardinality(up[k]) \in Nat /\ Cardinality(up[k + 1]) \in Nat
            /\ Cardinality(up[k] \cup {p}) \in Nat
        BY <3>4, <4>1, FS_CardinalityType
      <4> QED
        BY <4>2
    <3>6. c = a + 1
      <4>1. p \notin up[k]
        BY <3>1, <3>2
      <4> QED
        BY <3>4, <3>5, <4>1, OneMore
    <3>7. c <= b
      BY <3>3, <3>4, <3>5, FS_Subset
    <3>8. a >= k + 1
      BY <2>1, <2>5, <3>5
    <3>9. b >= (k + 1) + 1
      BY <3>6, <3>7, <3>8
    <3> QED
      BY <2>3, <3>5, <3>9
  <2> QED
    BY <2>4, <2>5
<1>10. N \in Large
  <2> HIDE DEF Large
  <2> QED
    BY <1>8, <1>9, AllNumbers
<1>11. /\ up[N] \subseteq All /\ id \in up[N]
       /\ Up(s, up[N]) \/ Cardinality(up[N]) >= N + 1
  BY <1>10
<1> HIDE DEF Large
<1>12. Up(s, up[N])
  <2> SUFFICES ASSUME Cardinality(up[N]) >= N + 1 PROVE Up(s, up[N])
    BY <1>11
  <2>1. Cardinality(up[N]) = N + 1
    <3>1. Cardinality(up[N]) <= N + 1 /\ IsFiniteSet(up[N])
      BY <1>3, <1>11, FS_Subset
    <3>2. Cardinality(up[N]) \in Nat
      BY <3>1, FS_CardinalityType
    <3> QED
      BY <3>1, <3>2
  <2>2. up[N] = All
    BY <1>3, <1>11, <2>1, FS_Subset
  <2> QED
    BY <1>2, <2>2 DEF Up, Parents
<1>13. ASSUME NEW C, id \in C, Up(s, C) PROVE up[N] \subseteq C
  <2> DEFINE Inside == {k \in Nat : k <= N => up[k] \subseteq C}
  <2>1. 0 \in Inside
    BY <1>5, <1>13
  <2>2. ASSUME NEW k \in Nat, k \in Inside PROVE k + 1 \in Inside
    <3> SUFFICES ASSUME k + 1 <= N PROVE up[k + 1] \subseteq C
      OBVIOUS
    <3>1. k <= N
      OBVIOUS
    <3>2. up[k] \subseteq C
      BY <2>2, <3>1
    <3> QED
      BY <1>6, <1>13, <3>2 DEF Step, Up
  <2>3. N \in Inside
    <3> HIDE DEF Inside
    <3> QED
      BY <2>1, <2>2, AllNumbers
  <2> QED
    BY <2>3
<1> QED
  BY <1>2, <1>5, <1>11, <1>12, <1>13

(* A tree: the root has no parent, every other node has one, and every set  *)
(* of nodes has one whose parent is outside.                                *)
Tree(s) ==
  /\ Root \in DOMAIN s /\ s[Root].parent = NoNode
  /\ \A n \in DOMAIN s \ {Root} : s[n].parent \in DOMAIN s
  /\ \A S \in SUBSET DOMAIN s : S # {} => \E n \in S : s[n].parent \notin S

(* A tree has parents among its nodes, or none.                             *)
LEMMA TreeParents ==
  ASSUME NEW s, DOMAIN s \subseteq Node, Tree(s)
  PROVE  Parents(s)
  BY DEF Tree, Parents

(* In a tree the root is above every node.                                  *)
LEMMA RootAbove ==
  ASSUME NEW s, DOMAIN s \subseteq Node, Tree(s), NEW n \in DOMAIN s
  PROVE  Root \in Above(s, n)
<1>1. PICK A : A = Above(s, n)
  OBVIOUS
<1>2. n \in A /\ Up(s, A)
  BY <1>1, AboveIs, TreeParents
<1>3. A \cap DOMAIN s \in SUBSET DOMAIN s /\ A \cap DOMAIN s # {}
  BY <1>2
<1>4. PICK m \in A \cap DOMAIN s : s[m].parent \notin A \cap DOMAIN s
  BY <1>3 DEF Tree
<1>5. s[m].parent \in A
  BY <1>2, <1>4 DEF Up
<1>6. m = Root
  BY <1>4, <1>5 DEF Tree
<1> QED
  BY <1>1, <1>4, <1>6

(* Nothing but "no node" is above the root.                                 *)
LEMMA AboveRoot ==
  ASSUME NEW s, DOMAIN s \subseteq Node, Tree(s)
  PROVE  Above(s, Root) \subseteq {Root, NoNode}
<1>1. Up(s, {Root, NoNode})
  BY DEF Up, Tree
<1> QED
  BY <1>1, AboveIs, TreeParents

(* What is above a node is the node and what is above its parent.           *)
LEMMA AboveParent ==
  ASSUME NEW s, DOMAIN s \subseteq Node, Tree(s), NEW n \in DOMAIN s
  PROVE  /\ Above(s, s[n].parent) \subseteq Above(s, n)
         /\ Above(s, n) \subseteq {n} \cup Above(s, s[n].parent)
<1>1. Parents(s) /\ n \in Node /\ s[n].parent \in Node \cup {NoNode}
  BY TreeParents DEF Parents
<1>2. PICK A, B : A = Above(s, n) /\ B = Above(s, s[n].parent)
  OBVIOUS
<1>3. /\ n \in A /\ Up(s, A)
      /\ \A C : n \in C /\ Up(s, C) => A \subseteq C
  BY <1>1, <1>2, AboveIs
<1>4. /\ s[n].parent \in B /\ Up(s, B)
      /\ \A C : s[n].parent \in C /\ Up(s, C) => B \subseteq C
  BY <1>1, <1>2, AboveIs
<1>5. s[n].parent \in A
  BY <1>3 DEF Up
<1>6. Up(s, {n} \cup B)
  BY <1>4 DEF Up
<1> QED
  BY <1>2, <1>3, <1>4, <1>5, <1>6

(* In a tree no node is above its own parent.                               *)
LEMMA NoCycle ==
  ASSUME NEW s, DOMAIN s \subseteq Node, Tree(s), NEW n \in DOMAIN s, n # Root
  PROVE  n \notin Above(s, s[n].parent)
<1> SUFFICES ASSUME n \in Above(s, s[n].parent) PROVE FALSE
  OBVIOUS
<1>1. PICK S : S = {m \in DOMAIN s : n \in Above(s, m)}
  OBVIOUS
<1>2. n \in S
  <2>1. n \in Above(s, n)
    BY AboveParent
  <2> QED
    BY <1>1, <2>1
<1>3. PICK m \in S : s[m].parent \notin S
  BY <1>1, <1>2 DEF Tree
<1>4. m # Root
  <2>1. n \notin Above(s, Root)
    BY AboveRoot
  <2> QED
    BY <1>1, <1>3, <2>1
<1>5. s[m].parent \in DOMAIN s
  BY <1>1, <1>3, <1>4 DEF Tree
<1>6. n \in Above(s, s[m].parent)
  <2>1. CASE m = n
    BY <2>1
  <2>2. CASE m # n
    <3>1. n \in Above(s, m)
      BY <1>1, <1>3
    <3>2. Above(s, m) \subseteq {m} \cup Above(s, s[m].parent)
      BY <1>1, <1>3, AboveParent
    <3> QED
      BY <2>2, <3>1, <3>2
  <2> QED
    BY <2>1, <2>2
<1> QED
  BY <1>1, <1>3, <1>5, <1>6

-----------------------------------------------------------------------------
(* Every operation keeps a document a tree of typed nodes.                  *)
Doc(s) == Holds(s) /\ Tree(s) /\ s[Root].val["deleted"] = 0

(* A new record.                                                            *)
LEMMA RecordIs ==
  ASSUME NEW parent \in Node \cup {NoNode}, NEW time \in Time
  PROVE  /\ Record(parent, time) \in NodeRec
         /\ Record(parent, time).parent = parent
         /\ Record(parent, time).placeTime = time
         /\ \A k \in Key : /\ Record(parent, time).val[k] = 0
                           /\ Record(parent, time).time[k] = Zero
  BY Zeros DEF Record, NodeRec

(* A tree with the same parents is a tree; so is one with a node added      *)
(* below another, or moved below one that is not below it.                  *)
LEMMA SameTree ==
  ASSUME NEW s, NEW t, Tree(s), DOMAIN t = DOMAIN s,
         \A n \in DOMAIN s : t[n].parent = s[n].parent
  PROVE  Tree(t)
  BY DEF Tree

LEMMA CreateTree ==
  ASSUME NEW s, DOMAIN s \subseteq Node, Tree(s), NEW n \in Node \ DOMAIN s,
         NEW t, DOMAIN t = DOMAIN s \cup {n}, t[n].parent \in DOMAIN s,
         \A m \in DOMAIN s : t[m].parent = s[m].parent
  PROVE  Tree(t)
<1>1. Root \in DOMAIN t /\ t[Root].parent = NoNode
  BY DEF Tree
<1>2. \A m \in DOMAIN t \ {Root} : t[m].parent \in DOMAIN t
  BY DEF Tree
<1>3. ASSUME NEW S \in SUBSET DOMAIN t, S # {}
      PROVE  \E m \in S : t[m].parent \notin S
  <2>1. CASE S = {n}
    BY <2>1
  <2>2. CASE S # {n}
    <3>1. S \ {n} \in SUBSET DOMAIN s /\ S \ {n} # {}
      BY <1>3, <2>2
    <3>2. PICK m \in S \ {n} : s[m].parent \notin S \ {n}
      BY <3>1 DEF Tree
    <3>3. s[m].parent # n
      <4>1. m \in DOMAIN s
        BY <3>1, <3>2
      <4>2. s[m].parent \in DOMAIN s \cup {NoNode}
        BY <4>1 DEF Tree
      <4> QED
        BY <4>2
    <3>4. t[m].parent \notin S
      BY <3>1, <3>2, <3>3
    <3> QED
      BY <3>4
  <2> QED
    BY <2>1, <2>2
<1> QED
  BY <1>1, <1>2, <1>3 DEF Tree

LEMMA MoveTree ==
  ASSUME NEW s, DOMAIN s \subseteq Node, Tree(s), NEW n \in DOMAIN s, n # Root,
         NEW p \in DOMAIN s, n \notin Above(s, p),
         NEW t, DOMAIN t = DOMAIN s, t[n].parent = p,
         \A m \in DOMAIN s \ {n} : t[m].parent = s[m].parent
  PROVE  Tree(t)
<1>1. PICK A : A = Above(s, p)
  OBVIOUS
<1>2. p \in A /\ Up(s, A)
  BY <1>1, AboveIs, TreeParents
<1>3. Root \in DOMAIN t /\ t[Root].parent = NoNode
  BY DEF Tree
<1>4. \A m \in DOMAIN t \ {Root} : t[m].parent \in DOMAIN t
  BY DEF Tree
<1>5. ASSUME NEW S \in SUBSET DOMAIN t, S # {}
      PROVE  \E m \in S : t[m].parent \notin S
  <2>1. CASE S \cap A # {}
    <3>1. S \cap A \in SUBSET DOMAIN s
      OBVIOUS
    <3>2. PICK m \in S \cap A : s[m].parent \notin S \cap A
      BY <2>1, <3>1 DEF Tree
    <3>3. s[m].parent \in A
      BY <1>2, <3>1, <3>2 DEF Up
    <3>4. m # n
      BY <1>1, <3>2
    <3>5. t[m].parent \notin S
      BY <3>1, <3>2, <3>3, <3>4
    <3> QED
      BY <3>2, <3>5
  <2>2. CASE S \cap A = {}
    <3>1. PICK m \in S : s[m].parent \notin S
      BY <1>5 DEF Tree
    <3>2. t[m].parent \notin S
      BY <1>2, <2>2, <3>1
    <3> QED
      BY <3>2
  <2> QED
    BY <2>1, <2>2
<1> QED
  BY <1>3, <1>4, <1>5 DEF Tree

(* Each operation keeps a document one: the check of cycles is all a move   *)
(* needs.                                                                   *)
LEMMA ApplyDoc ==
  ASSUME NEW s, Doc(s), NEW op \in Op
  PROVE  Doc(Apply(s, op))
<1>1. Holds(s) /\ Tree(s) /\ DOMAIN s \subseteq Node /\ Root \in DOMAIN s
  BY DEF Doc, Holds, Tree
<1>2. CASE op.kind = "create" /\ op.id \notin DOMAIN s /\ op.to \in DOMAIN s
  <2>1. PICK t : t = Apply(s, op)
    OBVIOUS
  <2>2. /\ DOMAIN t = DOMAIN s \cup {op.id}
        /\ \A n \in DOMAIN s : t[n] = s[n]
        /\ t[op.id] = Record(op.to, op.time)
    BY <1>2, <2>1, ApplyIs, CreateIs
  <2>3. /\ t[op.id] \in NodeRec /\ t[op.id].parent \in DOMAIN s
        /\ op.id \in Node \ DOMAIN s
    BY <1>1, <1>2, <2>2, OpFields, RecordIs
  <2>4. Holds(t)
    BY <1>1, <2>2, <2>3 DEF Holds
  <2>5. Tree(t)
    BY <1>1, <2>2, <2>3, CreateTree
  <2>6. t[Root].val["deleted"] = 0
    BY <1>1, <2>2 DEF Doc
  <2> QED
    BY <2>1, <2>4, <2>5, <2>6 DEF Doc
<1>3. CASE /\ op.kind = "set" /\ op.id \in DOMAIN s
           /\ ~Before(op.time, s[op.id].time[op.key])
  <2>1. PICK t : t = Apply(s, op) /\ t = Set(s, op)
    BY <1>3, ApplyIs
  <2>2. /\ DOMAIN t = DOMAIN s
        /\ \A n \in DOMAIN s \ {op.id} : t[n] = s[n]
        /\ t[op.id] \in NodeRec /\ t[op.id].parent = s[op.id].parent
    <3>1. /\ op.kind = "set" /\ op.id \in DOMAIN s /\ Holds(s)
          /\ ~Before(op.time, s[op.id].time[op.key])
      BY <1>1, <1>3
    <3>2. DOMAIN t = DOMAIN s /\ \A n \in DOMAIN s \ {op.id} : t[n] = s[n]
      BY <2>1, <3>1, SetIs
    <3>3. t[op.id] \in NodeRec /\ t[op.id].parent = s[op.id].parent
      BY <2>1, <3>1, SetIs
    <3> QED
      BY <3>2, <3>3
  <2>3. op.id # Root
    BY OpFields
  <2>4. Holds(t)
    BY <1>1, <2>2 DEF Holds
  <2>5. Tree(t)
    BY <1>1, <2>2, SameTree
  <2>6. t[Root].val["deleted"] = 0
    BY <1>1, <2>2, <2>3 DEF Doc
  <2> QED
    BY <2>1, <2>4, <2>5, <2>6 DEF Doc
<1>4. CASE /\ op.kind = "move" /\ op.id \in DOMAIN s /\ ~Late(s, op)
           /\ CanMove(s, op.id, op.to)
  <2>1. PICK t : t = Apply(s, op) /\ t = Move(s, op)
    BY <1>4, ApplyIs
  <2>2. /\ DOMAIN t = DOMAIN s
        /\ \A n \in DOMAIN s \ {op.id} : t[n] = s[n]
        /\ t[op.id] \in NodeRec /\ t[op.id].parent = op.to
    BY <1>1, <1>4, <2>1, MoveIs
  <2>3. op.id # Root
    BY OpFields
  <2>4. Holds(t)
    BY <1>1, <2>2 DEF Holds
  <2>5. op.to \in DOMAIN s /\ op.id \notin Above(s, op.to)
    BY <1>4 DEF CanMove
  <2>6. Tree(t)
    BY <1>1, <1>4, <2>2, <2>3, <2>5, MoveTree
  <2>7. t[Root].val["deleted"] = 0
    BY <1>1, <2>2, <2>3 DEF Doc
  <2> QED
    BY <2>1, <2>4, <2>6, <2>7 DEF Doc
<1>5. CASE Apply(s, op) = s
  BY <1>5
<1> QED
  BY <1>2, <1>3, <1>4, <1>5, OpFields, ApplyIs, CreateNot, SetNot, MoveNot

-----------------------------------------------------------------------------
(* Batches, clocks, and the file a newcomer gets.                           *)
LEMMA LengthIs ==
  ASSUME NEW S, NEW q \in Seq(S)
  PROVE  Len(q) \in Nat /\ \A i \in 1 .. Len(q) : q[i] \in S
  BY LenProperties

(* So does a batch, after each of its operations.                           *)
LEMMA AfterDoc ==
  ASSUME NEW s, Doc(s), NEW ops \in Seq(Op), NEW i \in 0 .. Len(ops)
  PROVE  Doc(After(s, ops)[i])
<1>1. PICK n \in Nat : n = Len(ops)
  BY LengthIs
<1>2. PICK f : f = After(s, ops)
  OBVIOUS
<1>3. f[0] = s /\ \A j \in 1 .. n : f[j] = Apply(f[j - 1], ops[j])
  BY <1>1, <1>2, AfterEach
<1> DEFINE Good == {m \in Nat : m <= n => Doc(f[m])}
<1>4. 0 \in Good
  BY <1>3
<1>5. ASSUME NEW m \in Nat, m \in Good PROVE m + 1 \in Good
  <2> SUFFICES ASSUME m + 1 <= n PROVE Doc(f[m + 1])
    OBVIOUS
  <2>1. m <= n /\ m + 1 \in 1 .. n /\ (m + 1) - 1 = m
    BY <1>1
  <2>2. Doc(f[m]) /\ ops[m + 1] \in Op
    BY <1>1, <1>5, <2>1, LengthIs
  <2>3. f[m + 1] = Apply(f[m], ops[m + 1])
    BY <1>3, <2>1
  <2> QED
    BY <2>2, <2>3, ApplyDoc
<1>6. Nat \subseteq Good
  <2> HIDE DEF Good
  <2> QED
    BY <1>4, <1>5, AllNumbers
<1> QED
  BY <1>1, <1>2, <1>6

LEMMA ApplyAllDoc ==
  ASSUME NEW s, Doc(s), NEW ops \in Seq(Op)
  PROVE  Doc(ApplyAll(s, ops))
<1>1. Len(ops) \in 0 .. Len(ops) /\ Len(ops) \in Nat
  BY LengthIs
<1> QED
  BY <1>1, AfterDoc, AfterEach

(* The largest of a set of numbers with a bound.                            *)
LEMMA MaxIs ==
  ASSUME NEW S \in SUBSET Nat, S # {}, NEW b \in Nat, \A x \in S : x <= b
  PROVE  Max(S) \in S /\ \A x \in S : x <= Max(S)
<1> DEFINE Bound == {c \in Nat : \A x \in S : x <= c}
<1>1. PICK c \in Bound : \A d \in Bound : ~ <<d, c>> \in OpToRel(<, Nat)
  <2>1. Bound \subseteq Nat /\ Bound # {}
    OBVIOUS
  <2> HIDE DEF Bound
  <2> QED
    BY <2>1, NatLessThanWellFounded, WFMin
<1>2. c \in S
  <2> SUFFICES ASSUME c \notin S PROVE FALSE
    OBVIOUS
  <2>1. ASSUME NEW x \in S PROVE x <= c - 1
    <3>1. x \in Nat /\ c \in Nat /\ x <= c /\ x # c
      BY <1>1
    <3> QED
      BY <3>1
  <2>2. c - 1 \in Bound
    <3>1. PICK x \in S : TRUE
      OBVIOUS
    <3>2. x \in Nat /\ c \in Nat /\ x <= c - 1
      BY <1>1, <2>1
    <3>3. c - 1 \in Nat
      BY <3>2
    <3> QED
      BY <2>1, <3>3
  <2>3. <<c - 1, c>> \in OpToRel(<, Nat)
    BY <1>1, <2>2 DEF OpToRel
  <2> QED
    BY <1>1, <2>2, <2>3
<1>3. \A x \in S : c >= x
  BY <1>1
<1>4. Max(S) \in S /\ \A x \in S : Max(S) >= x
  BY <1>2, <1>3 DEF Max
<1> QED
  BY <1>4

(* Counters are numbers.                                                    *)
LEMMA StampCounts ==
  ASSUME NEW t \in Time
  PROVE  t[1] \in Nat
  BY DEF Time

(* A clock that was shown a batch is past its times, and never goes back.   *)
LEMMA ObservedIs ==
  ASSUME NEW counter \in Nat, NEW ops \in Seq(Op)
  PROVE  /\ Observed(counter, ops) \in Nat /\ counter <= Observed(counter, ops)
         /\ \A i \in 1 .. Len(ops) : ops[i].time[1] <= Observed(counter, ops)
<1>1. PICK n \in Nat : n = Len(ops)
  BY LengthIs
<1>2. \A i \in 1 .. n : ops[i].time[1] \in Nat
  BY <1>1, LengthIs, OpFields, StampCounts
<1> DEFINE Low == {m \in Nat : m <= n => \E b \in Nat :
                                 \A i \in 1 .. m : ops[i].time[1] <= b}
<1>3. 0 \in Low
  OBVIOUS
<1>4. ASSUME NEW m \in Nat, m \in Low PROVE m + 1 \in Low
  <2> SUFFICES ASSUME m + 1 <= n
               PROVE  \E b \in Nat : \A i \in 1 .. m + 1 : ops[i].time[1] <= b
    OBVIOUS
  <2>1. m <= n
    OBVIOUS
  <2>2. PICK b \in Nat : \A i \in 1 .. m : ops[i].time[1] <= b
    BY <1>4, <2>1
  <2>3. PICK a \in Nat : a = ops[m + 1].time[1]
    <3>1. m + 1 \in 1 .. n
      OBVIOUS
    <3> QED
      BY <1>2, <3>1
  <2>4. ASSUME NEW i \in 1 .. m + 1 PROVE ops[i].time[1] <= a + b
    <3>1. CASE i = m + 1
      <4>1. ops[i].time[1] = a
        BY <2>3, <3>1
      <4> QED
        BY <4>1
    <3>2. CASE i # m + 1
      <4>1. i \in 1 .. m /\ i \in 1 .. n
        BY <3>2
      <4>2. ops[i].time[1] <= b /\ ops[i].time[1] \in Nat
        BY <1>2, <2>2, <4>1
      <4> QED
        BY <4>2
    <3> QED
      BY <3>1, <3>2
  <2>5. a + b \in Nat
    OBVIOUS
  <2> QED
    BY <2>4, <2>5
<1>5. n \in Low
  <2> HIDE DEF Low
  <2> QED
    BY <1>3, <1>4, AllNumbers
<1>6. PICK b \in Nat : \A i \in 1 .. n : ops[i].time[1] <= b
  BY <1>5
<1> HIDE DEF Low
<1>7. PICK T : T = {counter} \cup {ops[i].time[1] : i \in 1 .. n}
  OBVIOUS
<1>8. T \in SUBSET Nat /\ T # {}
  BY <1>2, <1>7
<1>9. b + counter \in Nat /\ \A x \in T : x <= b + counter
  <2>1. counter <= b + counter
    OBVIOUS
  <2>2. ASSUME NEW i \in 1 .. n PROVE ops[i].time[1] <= b + counter
    <3>1. ops[i].time[1] <= b /\ ops[i].time[1] \in Nat
      BY <1>2, <1>6
    <3> QED
      BY <3>1
  <2> QED
    BY <1>7, <2>1, <2>2
<1>10. Max(T) \in T /\ \A x \in T : x <= Max(T)
  BY <1>8, <1>9, MaxIs
<1>11. Observed(counter, ops) = Max(T)
  BY <1>1, <1>7 DEF Observed
<1> QED
  BY <1>1, <1>7, <1>8, <1>10, <1>11

(* A document stays within a clock that goes on, and within one that was    *)
(* shown what is applied.                                                   *)
LEMMA InClockLater ==
  ASSUME NEW s, Doc(s), NEW c \in Nat, NEW d \in Nat, c <= d, InClock(s, c)
  PROVE  InClock(s, d)
<1>1. \A n \in DOMAIN s : /\ s[n].placeTime[1] \in Nat
                          /\ \A k \in Key : s[n].time[k][1] \in Nat
  BY StampCounts DEF Doc, Holds, NodeRec
<1> QED
  BY <1>1 DEF InClock

LEMMA ApplyInClock ==
  ASSUME NEW s, Doc(s), NEW op \in Op, NEW c \in Nat, InClock(s, c), op.time[1] <= c
  PROVE  InClock(Apply(s, op), c)
<1>1. Holds(s)
  BY DEF Doc
<1>2. CASE op.kind = "create" /\ op.id \notin DOMAIN s /\ op.to \in DOMAIN s
  <2>1. PICK t : t = Apply(s, op)
    OBVIOUS
  <2>2. /\ DOMAIN t = DOMAIN s \cup {op.id}
        /\ \A n \in DOMAIN s : t[n] = s[n]
        /\ t[op.id] = Record(op.to, op.time)
    BY <1>2, <2>1, ApplyIs, CreateIs
  <2>3. op.to \in Node \cup {NoNode} /\ op.time \in Time
    BY <1>2, OpFields
  <2>4. /\ t[op.id].placeTime[1] <= c
        /\ \A k \in Key : t[op.id].time[k][1] <= c
    <3>1. t[op.id].placeTime = op.time /\ \A k \in Key : t[op.id].time[k] = Zero
      BY <2>2, <2>3, RecordIs
    <3> QED
      BY <3>1 DEF Zero
  <2> QED
    BY <2>1, <2>2, <2>4 DEF InClock
<1>3. CASE /\ op.kind = "set" /\ op.id \in DOMAIN s
           /\ ~Before(op.time, s[op.id].time[op.key])
  <2>1. PICK t : t = Apply(s, op) /\ t = Set(s, op)
    BY <1>3, ApplyIs
  <2>2. /\ op.kind = "set" /\ op.id \in DOMAIN s /\ Holds(s)
        /\ ~Before(op.time, s[op.id].time[op.key])
    BY <1>1, <1>3
  <2>3. DOMAIN t = DOMAIN s /\ \A n \in DOMAIN s \ {op.id} : t[n] = s[n]
    BY <2>1, <2>2, SetIs
  <2>4. t[op.id].placeTime = s[op.id].placeTime
    BY <2>1, <2>2, SetIs
  <2>5. \A k \in Key : t[op.id].time[k] =
                         IF k = op.key THEN op.time ELSE s[op.id].time[k]
    BY <2>1, <2>2, SetIs
  <2> QED
    BY <2>1, <2>2, <2>3, <2>4, <2>5 DEF InClock
<1>4. CASE /\ op.kind = "move" /\ op.id \in DOMAIN s /\ ~Late(s, op)
           /\ CanMove(s, op.id, op.to)
  <2>1. PICK t : t = Apply(s, op) /\ t = Move(s, op)
    BY <1>4, ApplyIs
  <2>2. /\ DOMAIN t = DOMAIN s
        /\ \A n \in DOMAIN s \ {op.id} : t[n] = s[n]
        /\ t[op.id].placeTime = op.time /\ t[op.id].time = s[op.id].time
    BY <1>1, <1>4, <2>1, MoveIs
  <2> QED
    BY <1>4, <2>1, <2>2 DEF InClock
<1>5. CASE Apply(s, op) = s
  BY <1>5
<1> QED
  BY <1>2, <1>3, <1>4, <1>5, OpFields, ApplyIs, CreateNot, SetNot, MoveNot

LEMMA ApplyAllInClock ==
  ASSUME NEW s, Doc(s), NEW ops \in Seq(Op), NEW c \in Nat, InClock(s, c),
         \A i \in 1 .. Len(ops) : ops[i].time[1] <= c
  PROVE  InClock(ApplyAll(s, ops), c)
<1>1. PICK n \in Nat : n = Len(ops)
  BY LengthIs
<1>2. PICK f : f = After(s, ops)
  OBVIOUS
<1>3. f[0] = s /\ \A j \in 1 .. n : f[j] = Apply(f[j - 1], ops[j])
  BY <1>1, <1>2, AfterEach
<1> DEFINE Good == {m \in Nat : m <= n => InClock(f[m], c)}
<1>4. 0 \in Good
  BY <1>3
<1>5. ASSUME NEW m \in Nat, m \in Good PROVE m + 1 \in Good
  <2> SUFFICES ASSUME m + 1 <= n PROVE InClock(f[m + 1], c)
    OBVIOUS
  <2>1. m <= n /\ m + 1 \in 1 .. n /\ (m + 1) - 1 = m /\ m \in 0 .. n
    BY <1>1
  <2>2. InClock(f[m], c) /\ ops[m + 1] \in Op /\ ops[m + 1].time[1] <= c
    BY <1>1, <1>5, <2>1, LengthIs
  <2>3. Doc(f[m])
    BY <1>1, <1>2, <2>1, AfterDoc
  <2>4. f[m + 1] = Apply(f[m], ops[m + 1])
    BY <1>3, <2>1
  <2> QED
    BY <2>2, <2>3, <2>4, ApplyInClock
<1>6. Nat \subseteq Good
  <2> HIDE DEF Good
  <2> QED
    BY <1>4, <1>5, AllNumbers
<1>7. ApplyAll(s, ops) = f[n]
  BY <1>1, <1>2, AfterEach
<1> QED
  BY <1>6, <1>7

-----------------------------------------------------------------------------
(* The file a newcomer gets.                                                *)
LEMMA SnapshotIs ==
  ASSUME NEW s, NEW t, t = Snapshot(s)
  PROVE  DOMAIN t = {n \in DOMAIN s : Alive(s, n)}
  BY DEF Snapshot

LEMMA SnapshotRecord ==
  ASSUME NEW s, Holds(s), NEW t, t = Snapshot(s), NEW n \in DOMAIN t
  PROVE  /\ t[n] \in NodeRec /\ t[n].parent = s[n].parent
         /\ t[n].val = s[n].val /\ t[n].placeTime = Zero
         /\ \A k \in Key : t[n].time[k] = Zero
<1>1. /\ n \in DOMAIN s
      /\ t[n] = [s[n] EXCEPT !.placeTime = Zero, !.time = [k \in Key |-> Zero]]
  BY DEF Snapshot
<1>2. PICK r \in NodeRec : r = s[n]
  BY <1>1 DEF Holds
<1>3. t[n] = [s[n] EXCEPT !.placeTime = Zero, !.time = [k \in Key |-> Zero]]
  BY <1>1
<1>4. [k \in Key |-> Zero] \in [Key -> Time]
  BY Zeros
<1>5. t[n] = [parent |-> r.parent, placeTime |-> Zero, val |-> r.val,
              time |-> [k \in Key |-> Zero]]
  BY <1>2, <1>3 DEF NodeRec
<1>6. r.parent \in Node \cup {NoNode} /\ r.val \in [Key -> 0 .. 1]
  BY DEF NodeRec
<1>7. t[n] \in NodeRec
  BY <1>4, <1>5, <1>6, Zeros DEF NodeRec
<1> QED
  BY <1>2, <1>5, <1>7

(* The root is alive, and so is the parent of a node that is: what is left  *)
(* after deleted nodes are dropped is a tree again.                         *)
LEMMA AliveRoot ==
  ASSUME NEW s, Doc(s)
  PROVE  Alive(s, Root)
<1>1. DOMAIN s \subseteq Node /\ Tree(s) /\ Root \in DOMAIN s
  BY DEF Doc, Holds, Tree
<1>2. Above(s, Root) \subseteq {Root, NoNode}
  BY <1>1, AboveRoot
<1> QED
  BY <1>1, <1>2 DEF Alive, Doc

LEMMA AliveParent ==
  ASSUME NEW s, Doc(s), NEW n \in DOMAIN s, n # Root, Alive(s, n)
  PROVE  Alive(s, s[n].parent)
<1>1. DOMAIN s \subseteq Node /\ Tree(s) /\ s[n].parent \in DOMAIN s
  BY DEF Doc, Holds, Tree
<1>2. Above(s, s[n].parent) \subseteq Above(s, n)
  BY <1>1, AboveParent
<1> QED
  BY <1>1, <1>2 DEF Alive

LEMMA SnapshotDoc ==
  ASSUME NEW s, Doc(s), NEW c \in Nat
  PROVE  Doc(Snapshot(s)) /\ InClock(Snapshot(s), c)
<1>1. PICK t : t = Snapshot(s)
  OBVIOUS
<1>2. DOMAIN t = {n \in DOMAIN s : Alive(s, n)}
  BY <1>1, SnapshotIs
<1>3. Holds(s) /\ Tree(s) /\ DOMAIN s \subseteq Node
  BY DEF Doc, Holds
<1>4. \A n \in DOMAIN t : /\ t[n] \in NodeRec /\ t[n].parent = s[n].parent
                          /\ t[n].val = s[n].val /\ t[n].placeTime = Zero
                          /\ \A k \in Key : t[n].time[k] = Zero
  BY <1>1, <1>3, SnapshotRecord
<1>5. Holds(t)
  BY <1>2, <1>3, <1>4 DEF Holds
<1>6. Root \in DOMAIN t
  BY <1>2, <1>3, AliveRoot DEF Tree
<1>7. \A n \in DOMAIN t \ {Root} : t[n].parent \in DOMAIN t
  <2>1. TAKE n \in DOMAIN t \ {Root}
  <2>2. s[n].parent \in DOMAIN s /\ Alive(s, s[n].parent)
    BY <1>2, <1>3, AliveParent DEF Tree
  <2> QED
    BY <1>2, <1>4, <2>2
<1>8. ASSUME NEW S \in SUBSET DOMAIN t, S # {}
      PROVE  \E n \in S : t[n].parent \notin S
  <2>1. S \in SUBSET DOMAIN s
    BY <1>2
  <2>2. PICK n \in S : s[n].parent \notin S
    BY <1>3, <1>8, <2>1 DEF Tree
  <2> QED
    BY <1>4, <2>2
<1>9. Tree(t)
  BY <1>3, <1>4, <1>6, <1>7, <1>8 DEF Tree
<1>10. Doc(t)
  BY <1>4, <1>5, <1>6, <1>9 DEF Doc
<1>11. InClock(t, c)
  <2>1. Zero[1] <= c
    BY DEF Zero
  <2> QED
    BY <1>4, <2>1 DEF InClock
<1> QED
  BY <1>1, <1>10, <1>11

(* The file everybody begins with is a document.                            *)
LEMMA FileDoc == Doc(File) /\ InClock(File, 0)
<1>1. PICK s : s = File
  OBVIOUS
<1>2. DOMAIN s = Drawn \cup {Root}
  BY <1>1 DEF File
<1>3. \A n \in DOMAIN s : s[n] = Record(IF n = Root THEN NoNode ELSE Root, Zero)
  BY <1>1 DEF File
<1>4. ASSUME NEW n \in DOMAIN s
      PROVE  /\ s[n] \in NodeRec
             /\ s[n].parent = IF n = Root THEN NoNode ELSE Root
             /\ s[n].placeTime = Zero
             /\ \A k \in Key : s[n].val[k] = 0 /\ s[n].time[k] = Zero
  <2>1. PICK p \in Node \cup {NoNode} : p = IF n = Root THEN NoNode ELSE Root
    OBVIOUS
  <2>2. s[n] = Record(p, Zero)
    BY <1>3, <2>1
  <2> QED
    BY <2>1, <2>2, Zeros, RecordIs
<1>5. Holds(s)
  BY <1>2, <1>4 DEF Holds
<1>6. Tree(s)
  <2>1. Root \in DOMAIN s /\ s[Root].parent = NoNode
    BY <1>2, <1>4
  <2>2. \A n \in DOMAIN s \ {Root} : s[n].parent \in DOMAIN s
    BY <1>2, <1>4
  <2>3. ASSUME NEW S \in SUBSET DOMAIN s, S # {}
        PROVE  \E n \in S : s[n].parent \notin S
    <3>1. CASE Root \in S
      <4>1. NoNode \notin S
        BY <1>2
      <4> QED
        BY <2>1, <3>1, <4>1
    <3>2. CASE Root \notin S
      BY <1>4, <2>3, <3>2
    <3> QED
      BY <3>1, <3>2
  <2> QED
    BY <2>1, <2>2, <2>3 DEF Tree
<1>7. InClock(s, 0)
  BY <1>4 DEF InClock, Zero
<1> QED
  BY <1>1, <1>2, <1>4, <1>5, <1>6, <1>7 DEF Doc

-----------------------------------------------------------------------------
(* Operations of a client.                                                  *)
LEMMA OpIs ==
  ASSUME NEW id \in Node \ {Root}, NEW time \in Stamp
  PROVE  /\ \A to \in Node :
              /\ Operation("create", id, "place", to, time) \in Op
              /\ Write(id, "place", to, time) \in Op
         /\ \A k \in Key, to \in 0 .. 1 : Write(id, k, to, time) \in Op
  BY DEF Operation, Write, Op

LEMMA AloneIs ==
  ASSUME NEW op \in Op, NEW a \in BOOLEAN,
         NEW p, p = [op EXCEPT !.alone = a]
  PROVE  /\ p \in Op /\ p.kind = op.kind /\ p.id = op.id /\ p.key = op.key
         /\ p.to = op.to /\ p.time = op.time /\ p.alone = a
<1>1. CASE 
        \/ op \in [kind : {"create", "move"}, id : Node \ {Root}, key : {"place"},
                   to : Node, time : Stamp, alone : BOOLEAN]
  BY <1>1 DEF Op
<1>2. CASE op \in [kind : {"set"}, id : Node \ {Root}, key : Key, to : 0 .. 1,
                   time : Stamp, alone : BOOLEAN]
  BY <1>2 DEF Op
<1> QED
  BY <1>1, <1>2 DEF Op

(* Whether an operation was alone is only watched.                          *)
LEMMA ApplyAlone ==
  ASSUME NEW s, NEW op, NEW p, p.kind = op.kind, p.id = op.id, p.key = op.key,
         p.to = op.to, p.time = op.time
  PROVE  Apply(s, p) = Apply(s, op)
  BY DEF Apply, Create, Set, Move, Late

(* Watching what others did changes nothing else of what is waiting.        *)
LEMMA ContestedIs ==
  ASSUME NEW pending \in Seq(Op), NEW ops, NEW c, c = Contested(pending, ops)
  PROVE  /\ c \in Seq(Op) /\ Len(c) = Len(pending)
         /\ \A i \in 1 .. Len(pending) :
              /\ c[i].kind = pending[i].kind /\ c[i].id = pending[i].id
              /\ c[i].key = pending[i].key /\ c[i].to = pending[i].to
              /\ c[i].time = pending[i].time
              /\ c[i].alone = (pending[i].alone /\ ~Touched(pending[i], ops))
<1>1. PICK n \in Nat : n = Len(pending)
  BY LengthIs
<1>2. /\ DOMAIN c = 1 .. n
      /\ \A i \in 1 .. n : c[i] = [pending[i] EXCEPT !.alone =
                                     @ /\ ~Touched(pending[i], ops)]
  BY <1>1 DEF Contested
<1>3. ASSUME NEW i \in 1 .. n
      PROVE  /\ c[i] \in Op
             /\ c[i].kind = pending[i].kind /\ c[i].id = pending[i].id
             /\ c[i].key = pending[i].key /\ c[i].to = pending[i].to
             /\ c[i].time = pending[i].time
             /\ c[i].alone = (pending[i].alone /\ ~Touched(pending[i], ops))
  <2>1. PICK op \in Op : op = pending[i]
    BY <1>1, LengthIs
  <2>2. PICK a \in BOOLEAN : a = (op.alone /\ ~Touched(op, ops))
    BY Zenon
  <2>3. c[i] = [op EXCEPT !.alone = a]
    BY <1>2, <2>1, <2>2
  <2>4. /\ c[i] \in Op
        /\ c[i].kind = op.kind /\ c[i].id = op.id /\ c[i].key = op.key
        /\ c[i].to = op.to /\ c[i].time = op.time /\ c[i].alone = a
    BY <2>3, AloneIs
  <2>5. c[i].alone = (pending[i].alone /\ ~Touched(pending[i], ops))
    BY <2>1, <2>2, <2>4, Zenon
  <2> QED
    BY <2>1, <2>4, <2>5, Zenon
<1>4. c = [i \in 1 .. n |-> c[i]]
  BY <1>1 DEF Contested
<1>5. c \in Seq(Op) /\ Len(c) = n
  BY <1>3, <1>4
<1> QED
  BY <1>1, <1>3, <1>5

-----------------------------------------------------------------------------
(* Types, strong enough to be kept.                                         *)
(* Steps of the history; histories; what a document and its clock have to   *)
(* do with each other.                                                      *)
HistoryStep ==
  [id : Node \ {Root}, key : {"place"}, before : Node, after : Node]
    \cup [id : Node \ {Root}, key : Key, before : 0 .. 1, after : 0 .. 1]

Histories == /\ undo \in [Client -> Seq(HistoryStep)]
             /\ redo \in [Client -> Seq(HistoryStep)]

Documents == /\ Doc(room) /\ InClock(room, roomClock)
             /\ store = [r \in Client |-> store[r]]
             /\ \A r \in Client : Doc(store[r]) /\ InClock(store[r], clock[r])

(* What a client has under way, and a file that is on its way to it.        *)
Snapped(r) ==
  /\ snap[r] = [file |-> snap[r].file, clock |-> snap[r].clock,
                missed |-> snap[r].missed, later |-> snap[r].later]
  /\ Doc(snap[r].file) /\ InClock(snap[r].file, snap[r].clock)
  /\ snap[r].clock \in Nat
  /\ snap[r].missed \in Nat /\ snap[r].missed <= Len(inbox[r])
  /\ waits[r] # "welcome" => snap[r].missed = 0
  /\ waits[r] = "file" => r \in loaded

Sending ==
  /\ session \in [Client -> Session] /\ used \subseteq Session
  /\ \A r \in Client : session[r] \in used
  /\ \A q, r \in Client : session[q] = session[r] => q = r
  /\ sent \in [Client -> Nat] /\ \A r \in Client : sent[r] <= Len(outbox[r])
  /\ waits \in [Client -> {"nothing", "welcome", "file"}]
  /\ snap = [r \in Client |-> snap[r]]
  /\ \A r \in Client : Snapped(r)
  /\ unseen = [r \in Client |-> unseen[r]]

Typed ==
  /\ Documents /\ Histories /\ Sending
  /\ roomClock \in Nat /\ clock \in [Client -> Nat]
  /\ outbox \in [Client -> Seq(Op)] /\ inbox \in [Client -> Seq(Seq(Op))]
  /\ edits \in [Client -> Nat] /\ \A r \in Client : edits[r] <= MaxEdit[r]
  /\ loads \in 0 .. MaxLoad /\ loaded \subseteq Client /\ apart \subseteq Client
  /\ barred \in BOOLEAN

(* What client r may emit: a new time of its own, a node that is new or one *)
(* it has, a move that makes no cycle where it was made.                    *)
Own(r, op) ==
  /\ op \in Op /\ op.time[1] > clock[r] /\ op.time[2] = session[r]
  /\ op.kind = "create" => Fresh(op.id) /\ op.to \in DOMAIN store[r]
  /\ op.kind # "create" => op.id \in DOMAIN store[r]
  /\ op.kind = "move" => CanMove(store[r], op.id, op.to)

Emits(r) == \E op : Own(r, op) /\ Emit(r, op)

(* An undo or redo that found nothing to do: at most the clock moved.       *)
Ticks(r) ==
  /\ \E c \in Nat : c >= clock[r] /\ clock' = [clock EXCEPT ![r] = c]
  /\ edits[r] < MaxEdit[r] /\ edits' = [edits EXCEPT ![r] = @ + 1]
  /\ UNCHANGED <<store, session, outbox, sent, inbox, roomVars, loads, loaded,
                 apart, barred, used, unseen>>

(* The room takes some of what r sent.                                      *)
Takes(r) == \E k \in 1 .. sent[r] : Receive(r, k)

(* A step of the history.                                                   *)
LEMMA StepIs ==
  ASSUME NEW step \in HistoryStep
  PROVE  /\ step.id \in Node \ {Root} /\ step.key \in Key \cup {"place"}
         /\ step.key = "place" => step.before \in Node /\ step.after \in Node
         /\ step.key # "place" => /\ step.key \in Key
                                  /\ step.before \in 0 .. 1 /\ step.after \in 0 .. 1
  BY DEF HistoryStep

LEMMA NewStep ==
  ASSUME NEW id \in Node \ {Root}
  PROVE  /\ \A b \in Node, a \in Node :
              [id |-> id, key |-> "place", before |-> b, after |-> a] \in HistoryStep
         /\ \A k \in Key, b \in 0 .. 1, a \in 0 .. 1 :
              [id |-> id, key |-> k, before |-> b, after |-> a] \in HistoryStep
  BY DEF HistoryStep

(* The operation a write of a register is.                                  *)
LEMMA WriteIs ==
  ASSUME NEW id, NEW key, NEW to, NEW time, NEW w, w = Write(id, key, to, time)
  PROVE  /\ w.kind = IF key = "place" THEN "move" ELSE "set"
         /\ w.id = id /\ w.key = key /\ w.to = to /\ w.time = time
  BY DEF Write, Operation

LEMMA CreateOpIs ==
  ASSUME NEW id, NEW to, NEW time, NEW w,
         w = Operation("create", id, "place", to, time)
  PROVE  /\ w.kind = "create" /\ w.id = id /\ w.key = "place"
         /\ w.to = to /\ w.time = time
  BY DEF Operation

(* A counter that was raised gives a time of its own.                       *)
LEMMA StampIs ==
  ASSUME NEW s \in Session, NEW c \in Nat, c >= 1
  PROVE  <<c, s>> \in Stamp
  BY DEF Stamp

(* A set of places of a sequence: its largest member, and how many.         *)
LEMMA Places ==
  ASSUME NEW m \in Int, NEW n \in Nat, NEW S \in SUBSET (m .. n)
  PROVE  /\ IsFiniteSet(S) /\ Cardinality(S) \in Nat
         /\ S # {} => Cardinality(S) >= 1
<1>1. IsFiniteSet(m .. n)
  BY FS_Interval
<1>2. IsFiniteSet(S)
  BY <1>1, FS_Subset
<1>3. Cardinality(S) \in Nat
  BY <1>2, FS_CardinalityType
<1>4. Cardinality(S) = 0 <=> S = {}
  BY <1>2, FS_EmptySet
<1>5. PICK c \in Nat : c = Cardinality(S)
  BY <1>3
<1>6. S # {} => c # 0
  BY <1>4, <1>5, Zenon
<1>7. S # {} => c >= 1
  BY <1>6
<1> QED
  BY <1>2, <1>5, <1>7, Zenon

(* Writing a register of the document a client has.                         *)
LEMMA OwnWrite ==
  ASSUME Typed, NEW r \in Client, NEW id \in Node \ {Root},
         NEW key \in Key \cup {"place"}, NEW to,
         key = "place" => to \in Node /\ CanMove(store[r], id, to),
         key # "place" => to \in 0 .. 1,
         id \in DOMAIN store[r], NEW c \in Nat, c > clock[r]
  PROVE  Own(r, Write(id, key, to, <<c, session[r]>>))
<1>1. PICK w : w = Write(id, key, to, <<c, session[r]>>)
  OBVIOUS
<1>2. clock[r] \in Nat /\ session[r] \in Session
  BY DEF Typed, Sending
<1>3. <<c, session[r]>> \in Stamp
  <2>1. c >= 1
    BY <1>2
  <2> QED
    BY <1>2, <2>1, StampIs
<1>4. w \in Op
  BY <1>1, <1>3, OpIs
<1>5. /\ w.kind = IF key = "place" THEN "move" ELSE "set"
      /\ w.id = id /\ w.to = to /\ w.time = <<c, session[r]>>
  BY <1>1, WriteIs
<1> QED
  BY <1>1, <1>4, <1>5 DEF Own

(* What a register holds.                                                   *)
LEMMA NowIs ==
  ASSUME NEW s, Doc(s), NEW id \in DOMAIN s, id # Root
  PROVE  /\ Now(s, id, "place") = s[id].parent /\ s[id].parent \in DOMAIN s
         /\ s[id].parent \in Node
         /\ \A k \in Key : Now(s, id, k) = s[id].val[k] /\ s[id].val[k] \in 0 .. 1
  BY DEF Now, Doc, Holds, Tree, NodeRec

(* All but the last of a sequence.                                          *)
LEMMA FrontIs ==
  ASSUME NEW S, NEW q \in Seq(S), q # <<>>
  PROVE  Last(q) \in S /\ Front(q) \in Seq(S)
<1>1. PICK n \in Nat : n = Len(q)
  BY LengthIs
<1>2. n # 0
  BY <1>1, EmptySeq
<1>3. \A i \in 1 .. n - 1 : q[i] \in S
  BY <1>1, LengthIs
<1>4. Last(q) \in S
  <2>1. n \in 1 .. n
    BY <1>2
  <2> QED
    BY <1>1, <2>1, LengthIs DEF Last
<1>5. SubSeq(q, 1, n - 1) \in Seq(S)
  BY <1>3, SubSeqProperties
<1> QED
  BY <1>1, <1>4, <1>5 DEF Front

(* A replayed step is an operation of the client's own: Replayable asks     *)
(* what Own needs.                                                          *)
LEMMA OwnReplay ==
  ASSUME Typed, NEW r \in Client, NEW step \in HistoryStep, NEW expected,
         NEW wanted, wanted \in {step.before, step.after},
         Replayable(store[r], step, expected, wanted),
         NEW c \in Nat, c > clock[r]
  PROVE  Own(r, Write(step.id, step.key, wanted, <<c, session[r]>>))
<1>1. /\ step.id \in DOMAIN store[r]
      /\ step.key = "place" => CanMove(store[r], step.id, wanted)
  BY DEF Replayable, Matches
<1>2. /\ step.id \in Node \ {Root} /\ step.key \in Key \cup {"place"}
      /\ step.key = "place" => wanted \in Node
      /\ step.key # "place" => wanted \in 0 .. 1
  BY StepIs
<1> QED
  BY <1>1, <1>2, OwnWrite

(* What a step of r does to its document and its undo history.             *)
Created(r) ==
  \E op : /\ Own(r, op) /\ Emit(r, op) /\ op.kind = "create"
          /\ undo' = [undo EXCEPT ![r] =
               Append(@, [id |-> op.id, key |-> "deleted", before |-> 1, after |-> 0])]
Wrote(r) ==
  \E op, step :
    /\ Own(r, op) /\ Emit(r, op) /\ op.kind # "create" /\ step \in HistoryStep
    /\ op.id = step.id /\ op.key = step.key /\ op.to = step.after
    /\ Now(store[r], step.id, step.key) = step.before
    /\ undo' = [undo EXCEPT ![r] = Append(@, step)]
Undid(r) ==
  \E op, i :
    /\ Own(r, op) /\ Emit(r, op) /\ op.kind # "create"
    /\ i \in Undoable(r) /\ \A j \in Undoable(r) : j <= i
    /\ op.id = undo[r][i].id /\ op.key = undo[r][i].key /\ op.to = undo[r][i].before
    /\ undo' = [undo EXCEPT ![r] = SubSeq(@, 1, i - 1)]

Remembers(r) == \/ Created(r) \/ Wrote(r) \/ Undid(r) \/ UndoNothing(r)
                \/ Read(r) \/ Load(r) \/ UNCHANGED <<store, undo, apart>>

(* A write of its own register is such a step.                              *)
LEMMA WroteIs ==
  ASSUME NEW r \in Client, NEW step \in HistoryStep, NEW time, NEW w,
         w = Write(step.id, step.key, step.after, time), Own(r, w), Emit(r, w),
         Now(store[r], step.id, step.key) = step.before,
         undo' = [undo EXCEPT ![r] = Append(@, step)]
  PROVE  Wrote(r)
<1>1. /\ w.kind # "create" /\ w.id = step.id /\ w.key = step.key
      /\ w.to = step.after
  BY WriteIs
<1> QED
  BY <1>1 DEF Wrote

(* Every step is one of five kinds.                                         *)
LEMMA Acts ==
  ASSUME Typed, Next
  PROVE  /\ \E r \in Client :
              \/ Emits(r) \/ Ticks(r) \/ Flush(r) \/ Takes(r) \/ Read(r)
              \/ Greet(r) \/ Welcome(r) \/ Load(r)
         /\ \E r \in Client : Remembers(r)
         /\ Histories'
<1>1. PICK r \in Client :
        \/ \E n \in Node, parent \in Node :
             CreateLocal(r, n, parent) \/ MoveLocal(r, n, parent)
        \/ \E n \in Node, key \in Key, value \in 0 .. 1 : SetLocal(r, n, key, value)
        \/ Undo(r) \/ UndoNothing(r) \/ Redo(r)
        \/ Flush(r) \/ Takes(r) \/ Read(r) \/ Greet(r) \/ Welcome(r) \/ Load(r)
  BY DEF Next, Takes
<1>2. /\ clock[r] \in Nat /\ undo[r] \in Seq(HistoryStep) /\ redo[r] \in Seq(HistoryStep)
      /\ undo \in [Client -> Seq(HistoryStep)] /\ redo \in [Client -> Seq(HistoryStep)]
  BY DEF Typed, Histories
<1>3. Doc(store[r]) /\ DOMAIN store[r] \subseteq Node /\ Root \in DOMAIN store[r]
  BY DEF Typed, Documents, Doc, Holds, Tree
<1>4. /\ Tick(r) = <<clock[r] + 1, session[r]>> /\ session[r] \in Session
      /\ clock[r] + 1 \in Nat /\ clock[r] + 1 > clock[r]
  BY <1>2 DEF Tick, Typed, Sending
<1>5. \A n, key, before, after :
        /\ [id |-> n, key |-> key, before |-> before, after |-> after] \in HistoryStep
        /\ Push(r, n, key, before, after)
        => Histories'
  <2>1. TAKE n, key, before, after
  <2>2. HAVE /\ [id |-> n, key |-> key, before |-> before, after |-> after] \in HistoryStep
             /\ Push(r, n, key, before, after)
  <2>3. PICK step \in HistoryStep :
          step = [id |-> n, key |-> key, before |-> before, after |-> after]
    BY <2>2
  <2>4. /\ undo' = [undo EXCEPT ![r] = Append(@, step)]
        /\ redo' = [redo EXCEPT ![r] = <<>>]
    BY <2>2, <2>3 DEF Push
  <2>5. Append(undo[r], step) \in Seq(HistoryStep) /\ <<>> \in Seq(HistoryStep)
    BY <1>2, Appended
  <2> QED
    BY <1>2, <2>4, <2>5 DEF Histories
<1>6. ASSUME NEW n \in Node, NEW parent \in Node, CreateLocal(r, n, parent)
      PROVE  Emits(r) /\ Created(r) /\ Histories'
  <2>1. PICK op : op = Operation("create", n, "place", parent, Tick(r))
    OBVIOUS
  <2>2. /\ Fresh(n) /\ Alive(store[r], parent) /\ Emit(r, op)
        /\ Push(r, n, "deleted", 1, 0)
    BY <1>6, <2>1 DEF CreateLocal
  <2>3. n # Root
    <3>1. Root \in DOMAIN room
      BY DEF Typed, Documents, Doc, Tree
    <3> QED
      BY <2>2, <3>1 DEF Fresh
  <2>4. Tick(r) \in Stamp
    <3>1. clock[r] + 1 >= 1
      BY <1>2
    <3> QED
      BY <1>4, <3>1, StampIs
  <2>5. op \in Op
    BY <2>1, <2>3, <2>4, OpIs
  <2>6. /\ op.kind = "create" /\ op.id = n /\ op.to = parent /\ op.time = Tick(r)
    BY <2>1, CreateOpIs
  <2>7. parent \in DOMAIN store[r]
    BY <2>2 DEF Alive
  <2>8. Own(r, op)
    <3>1. op.time[1] = clock[r] + 1 /\ op.time[2] = session[r]
      BY <1>4, <2>6
    <3>2. op.time[1] > clock[r]
      BY <1>4, <3>1
    <3> QED
      BY <2>2, <2>5, <2>6, <2>7, <3>1, <3>2 DEF Own
  <2>9. [id |-> n, key |-> "deleted", before |-> 1, after |-> 0] \in HistoryStep
    <3>1. PICK k \in Key, b \in 0 .. 1, a \in 0 .. 1 : k = "deleted" /\ b = 1 /\ a = 0
      OBVIOUS
    <3>2. [id |-> n, key |-> k, before |-> b, after |-> a] \in HistoryStep
      BY <2>3, NewStep
    <3> QED
      BY <3>1, <3>2
  <2> QED
    <3>1. undo' = [undo EXCEPT ![r] =
                Append(@, [id |-> op.id, key |-> "deleted", before |-> 1, after |-> 0])]
      BY <2>2, <2>6 DEF Push
    <3>2. Created(r)
      BY <2>2, <2>6, <2>8, <3>1 DEF Created
    <3> QED
      BY <1>5, <2>2, <2>8, <2>9, <3>2 DEF Emits
<1>7. ASSUME NEW n \in Node, NEW parent \in Node, MoveLocal(r, n, parent)
      PROVE  Emits(r) /\ Wrote(r) /\ Histories'
  <2>1. /\ n # Root /\ Alive(store[r], n) /\ CanMove(store[r], n, parent)
        /\ Emit(r, Write(n, "place", parent, Tick(r)))
        /\ Push(r, n, "place", store[r][n].parent, parent)
    BY <1>7 DEF MoveLocal
  <2>2. n \in DOMAIN store[r]
    BY <2>1 DEF Alive
  <2>3. Own(r, Write(n, "place", parent, Tick(r)))
    <3>1. Own(r, Write(n, "place", parent, <<clock[r] + 1, session[r]>>))
      BY <1>4, <2>1, <2>2, OwnWrite
    <3> QED
      BY <1>4, <3>1
  <2>4. [id |-> n, key |-> "place", before |-> store[r][n].parent,
         after |-> parent] \in HistoryStep
    BY <1>3, <2>1, <2>2, NowIs, NewStep
  <2> QED
    <3>1. PICK step \in HistoryStep :
            step = [id |-> n, key |-> "place", before |-> store[r][n].parent,
                    after |-> parent]
      BY <2>4
    <3>2. Now(store[r], step.id, step.key) = step.before
      BY <3>1 DEF Now
    <3>3. undo' = [undo EXCEPT ![r] = Append(@, step)]
      BY <2>1, <3>1 DEF Push
    <3>4. PICK w : w = Write(step.id, step.key, step.after, Tick(r))
      OBVIOUS
    <3>5. w = Write(n, "place", parent, Tick(r))
      BY <3>1, <3>4
    <3>6. Wrote(r)
      BY <2>1, <2>3, <3>2, <3>3, <3>4, <3>5, WroteIs
    <3> QED
      BY <1>5, <2>1, <2>3, <2>4, <3>6 DEF Emits
<1>8. ASSUME NEW n \in Node, NEW key \in Key, NEW value \in 0 .. 1,
             SetLocal(r, n, key, value)
      PROVE  Emits(r) /\ Wrote(r) /\ Histories'
  <2>1. /\ n # Root /\ Alive(store[r], n)
        /\ Emit(r, Write(n, key, value, Tick(r)))
        /\ Push(r, n, key, Now(store[r], n, key), value)
    BY <1>8 DEF SetLocal
  <2>2. n \in DOMAIN store[r] /\ key # "place"
    BY <2>1 DEF Alive
  <2>3. Own(r, Write(n, key, value, Tick(r)))
    <3>1. Own(r, Write(n, key, value, <<clock[r] + 1, session[r]>>))
      BY <1>4, <2>1, <2>2, OwnWrite
    <3> QED
      BY <1>4, <3>1
  <2>4. [id |-> n, key |-> key, before |-> Now(store[r], n, key),
         after |-> value] \in HistoryStep
    <3>1. Now(store[r], n, key) \in 0 .. 1
      BY <1>3, <2>1, <2>2, NowIs
    <3> QED
      BY <2>1, <3>1, NewStep
  <2> QED
    <3>1. PICK step \in HistoryStep :
            step = [id |-> n, key |-> key, before |-> Now(store[r], n, key),
                    after |-> value]
      BY <2>4
    <3>2. Now(store[r], step.id, step.key) = step.before
      BY <3>1
    <3>3. undo' = [undo EXCEPT ![r] = Append(@, step)]
      BY <2>1, <3>1 DEF Push
    <3>4. PICK w : w = Write(step.id, step.key, step.after, Tick(r))
      OBVIOUS
    <3>5. w = Write(n, key, value, Tick(r))
      BY <3>1, <3>4
    <3>6. Wrote(r)
      BY <2>1, <2>3, <3>2, <3>3, <3>4, <3>5, WroteIs
    <3> QED
      BY <1>5, <2>1, <2>3, <2>4, <3>6 DEF Emits
<1>9. ASSUME Undo(r) PROVE Emits(r) /\ Undid(r) /\ Histories'
  <2>1. PICK n \in Nat, u \in Seq(HistoryStep) : u = undo[r] /\ n = Len(u)
    BY <1>2, LengthIs
  <2>2. PICK S : S = Undoable(r)
    OBVIOUS
  <2>3. S \in SUBSET (1 .. n) /\ S # {}
    <3>1. S \in SUBSET (1 .. n)
      BY <2>1, <2>2 DEF Undoable
    <3>2. S # {}
      BY <1>9, <2>2 DEF Undo
    <3> QED
      BY <3>1, <3>2
  <2>4. Max(S) \in S /\ \A x \in S : x <= Max(S)
    <3>1. S \in SUBSET Nat /\ \A x \in S : x <= n
      BY <2>3
    <3> QED
      BY <2>3, <3>1, MaxIs
  <2>5. PICK i \in S : i = Max(Undoable(r))
    BY <2>2, <2>4
  <2>6. PICK step \in HistoryStep : step = undo[r][i]
    BY <2>1, <2>3, LengthIs
  <2>7. PICK j : j = UndoTicks(r, i)
    OBVIOUS
  <2>8. /\ Emit(r, Write(step.id, step.key, step.before, <<clock[r] + j, session[r]>>))
        /\ undo' = [undo EXCEPT ![r] = SubSeq(@, 1, i - 1)]
        /\ redo' = [redo EXCEPT ![r] = Append(@, step)]
    BY <1>9, <2>5, <2>6, <2>7 DEF Undo
  <2>9. Replayable(store[r], step, step.after, step.before)
    BY <2>2, <2>6 DEF Undoable
  <2>10. j \in Nat /\ j >= 1
    <3>1. PICK T : T = {k \in i .. n : Matches(store[r], undo[r][k], undo[r][k].after)}
      OBVIOUS
    <3>2. i \in T
      BY <2>3, <2>6, <2>9, <3>1 DEF Replayable
    <3>3. i \in Int /\ T \in SUBSET (i .. n) /\ T # {}
      BY <2>3, <3>1, <3>2
    <3>4. j = Cardinality(T)
      BY <2>1, <2>7, <3>1 DEF UndoTicks
    <3>5. 1 \in Int
      OBVIOUS
    <3> QED
      BY <3>1, <3>3, <3>4, <3>5, Places
  <2>11. clock[r] + j \in Nat /\ clock[r] + j > clock[r]
    BY <1>2, <2>10
  <2>12. Own(r, Write(step.id, step.key, step.before, <<clock[r] + j, session[r]>>))
    <3>1. PICK c \in Nat : c = clock[r] + j /\ c > clock[r]
      BY <2>11
    <3>2. step.before \in {step.before, step.after}
      OBVIOUS
    <3>3. Own(r, Write(step.id, step.key, step.before, <<c, session[r]>>))
      BY <2>9, <3>1, <3>2, OwnReplay
    <3> QED
      BY <3>1, <3>3
  <2>13. SubSeq(undo[r], 1, i - 1) \in Seq(HistoryStep)
    <3>1. \A k \in 1 .. i - 1 : undo[r][k] \in HistoryStep
      BY <2>1, <2>3, LengthIs
    <3>2. i - 1 \in Int
      BY <2>3
    <3> QED
      BY <3>1, <3>2, SubSeqProperties
  <2>14. Append(redo[r], step) \in Seq(HistoryStep)
    BY <1>2, Appended
  <2> QED
    <3>1. PICK w : w = Write(step.id, step.key, step.before, <<clock[r] + j, session[r]>>)
      OBVIOUS
    <3>2. /\ w.kind # "create" /\ w.id = step.id /\ w.key = step.key
          /\ w.to = step.before
      BY <3>1, WriteIs
    <3>3. i \in Undoable(r) /\ \A k \in Undoable(r) : k <= i
      BY <2>2, <2>4, <2>5
    <3>4. Undid(r)
      <4>1. Own(r, w) /\ Emit(r, w)
        BY <2>8, <2>12, <3>1
      <4>2. /\ w.id = undo[r][i].id /\ w.key = undo[r][i].key
            /\ w.to = undo[r][i].before
        BY <2>6, <3>2
      <4>3. undo' = [undo EXCEPT ![r] = SubSeq(@, 1, i - 1)]
        BY <2>8
      <4> QED
        BY <3>2, <3>3, <4>1, <4>2, <4>3, Zenon DEF Undid
    <3> QED
      BY <1>2, <2>8, <2>12, <2>13, <2>14, <3>4 DEF Emits, Histories
<1>10. ASSUME UndoNothing(r) PROVE Ticks(r) /\ Histories'
  <2>1. PICK j : j = UndoTicks(r, 1)
    OBVIOUS
  <2>2. j \in Nat
    <3>1. PICK n \in Nat : n = Len(undo[r])
      BY <1>2, LengthIs
    <3>2. PICK T : T = {k \in 1 .. n : Matches(store[r], undo[r][k], undo[r][k].after)}
      OBVIOUS
    <3>3. j = Cardinality(T)
      BY <2>1, <3>1, <3>2 DEF UndoTicks
    <3>4. T \in SUBSET (1 .. n)
      BY <3>2
    <3>5. 1 \in Int
      OBVIOUS
    <3> QED
      BY <3>1, <3>3, <3>4, <3>5, Places
  <2>3. clock[r] + j \in Nat /\ clock[r] + j >= clock[r]
    BY <1>2, <2>2
  <2>4. clock' = [clock EXCEPT ![r] = clock[r] + j]
    BY <1>10, <2>1 DEF UndoNothing
  <2>5. Ticks(r)
    BY <1>10, <2>3, <2>4 DEF UndoNothing, Ticks
  <2>6. undo' = [undo EXCEPT ![r] = <<>>] /\ redo' = redo
    BY <1>10 DEF UndoNothing
  <2> QED
    BY <1>2, <2>5, <2>6 DEF Histories
<1>11. ASSUME Redo(r)
       PROVE  /\ Emits(r) \/ Ticks(r)
              /\ Wrote(r) \/ UNCHANGED <<store, undo, apart>>
              /\ Histories'
  <2>1. redo[r] # <<>> /\ redo' = [redo EXCEPT ![r] = Front(@)]
    BY <1>11 DEF Redo
  <2>2. PICK step \in HistoryStep : step = Last(redo[r])
    BY <1>2, <2>1, FrontIs
  <2>3. Front(redo[r]) \in Seq(HistoryStep)
    BY <1>2, <2>1, FrontIs
  <2>4. CASE Replayable(store[r], step, step.before, step.after)
    <3>1. /\ Emit(r, Write(step.id, step.key, step.after, Tick(r)))
          /\ undo' = [undo EXCEPT ![r] = Append(@, step)]
      BY <1>11, <2>2, <2>4 DEF Redo
    <3>2. Own(r, Write(step.id, step.key, step.after, Tick(r)))
      <4>1. PICK c \in Nat : c = clock[r] + 1 /\ c > clock[r]
        BY <1>4
      <4>2. step.after \in {step.before, step.after}
        OBVIOUS
      <4>3. Own(r, Write(step.id, step.key, step.after, <<c, session[r]>>))
        BY <2>4, <4>1, <4>2, OwnReplay
      <4> QED
        BY <1>4, <4>1, <4>3
    <3>3. Append(undo[r], step) \in Seq(HistoryStep)
      BY <1>2, Appended
    <3> QED
      <4>1. Now(store[r], step.id, step.key) = step.before
        BY <2>4 DEF Replayable, Matches
      <4>2. Wrote(r)
        BY <3>1, <3>2, <4>1, WroteIs
      <4> QED
        BY <1>2, <2>1, <2>3, <3>1, <3>2, <3>3, <4>2 DEF Emits, Histories
  <2>5. CASE ~Replayable(store[r], step, step.before, step.after)
    <3>1. /\ edits[r] < MaxEdit[r] /\ edits' = [edits EXCEPT ![r] = @ + 1]
          /\ clock' = [clock EXCEPT ![r] =
                 IF Matches(store[r], step, step.before) THEN @ + 1 ELSE @]
          /\ UNCHANGED <<store, session, outbox, sent, inbox, undo, roomVars,
                         loads, loaded, apart, barred, used, unseen>>
      BY <1>11, <2>2, <2>5 DEF Redo
    <3>2. PICK c \in Nat : /\ c >= clock[r]
                           /\ c = IF Matches(store[r], step, step.before)
                                  THEN clock[r] + 1 ELSE clock[r]
      <4>1. clock[r] >= clock[r] /\ clock[r] + 1 >= clock[r]
        BY <1>2
      <4> QED
        BY <1>2, <1>4, <4>1
    <3>3. clock' = [clock EXCEPT ![r] = c]
      BY <3>1, <3>2
    <3>4. Ticks(r)
      BY <3>1, <3>2, <3>3 DEF Ticks
    <3>5. UNCHANGED <<store, undo, apart>>
      BY <3>1
    <3>6. Histories'
      BY <1>2, <2>1, <2>3, <3>1 DEF Histories
    <3> QED
      BY <3>4, <3>5, <3>6
  <2> QED
    BY <2>4, <2>5
<1>12. ASSUME \/ Flush(r) \/ Takes(r) \/ Greet(r) \/ Welcome(r)
       PROVE  UNCHANGED <<store, undo, apart>> /\ Histories'
  <2>1. UNCHANGED <<store, undo, redo, apart>>
    BY <1>12 DEF Flush, Takes, Receive, Greet, Welcome, clientVars, obsVars
  <2> QED
    BY <1>2, <2>1 DEF Histories
<1>13. ASSUME Load(r) PROVE Histories'
  <2>1. undo' = [undo EXCEPT ![r] = <<>>] /\ redo' = [redo EXCEPT ![r] = <<>>]
    BY <1>13 DEF Load, NewDocument
  <2>2. <<>> \in Seq(HistoryStep)
    OBVIOUS
  <2> QED
    BY <1>2, <2>1, <2>2 DEF Histories
<1>14. ASSUME Read(r) PROVE Histories'
  BY <1>2, <1>14 DEF Read, Histories
<1>15. /\ \/ Emits(r) \/ Ticks(r) \/ Flush(r) \/ Takes(r) \/ Read(r)
          \/ Greet(r) \/ Welcome(r) \/ Load(r)
       /\ Histories'
  BY <1>1, <1>6, <1>7, <1>8, <1>9, <1>10, <1>11, <1>12, <1>13, <1>14
<1>16. Remembers(r)
  BY <1>1, <1>6, <1>7, <1>8, <1>9, <1>11, <1>12 DEF Remembers
<1> QED
  BY <1>15, <1>16

-----------------------------------------------------------------------------
(* What each kind of step does, one client at a time.                       *)
LEMMA EmitStore ==
  ASSUME Typed, NEW r \in Client, NEW op, Own(r, op), Emit(r, op)
  PROVE  store' = [q \in Client |-> IF q = r THEN Apply(store[q], op) ELSE store[q]]
<1>1. store = [q \in Client |-> store[q]]
  BY DEF Typed, Documents
<1>2. store' = [store EXCEPT ![r] = Apply(@, op)]
  BY DEF Emit
<1> QED
  BY <1>1, <1>2

LEMMA EmitClock ==
  ASSUME Typed, NEW r \in Client, NEW op, Own(r, op), Emit(r, op)
  PROVE  clock' = [q \in Client |-> IF q = r THEN op.time[1] ELSE clock[q]]
<1>1. clock \in [Client -> Nat]
  BY DEF Typed
<1>2. clock' = [clock EXCEPT ![r] = op.time[1]]
  BY DEF Emit
<1> QED
  BY <1>1, <1>2

LEMMA EmitEdits ==
  ASSUME Typed, NEW r \in Client, NEW op, Own(r, op), Emit(r, op)
  PROVE  /\ edits' = [q \in Client |-> IF q = r THEN edits[q] + 1 ELSE edits[q]]
         /\ edits[r] < MaxEdit[r]
<1>1. edits \in [Client -> Nat]
  BY DEF Typed
<1>2. edits' = [edits EXCEPT ![r] = @ + 1] /\ edits[r] < MaxEdit[r]
  BY DEF Emit
<1>3. edits' = [q \in Client |-> IF q = r THEN edits[q] + 1 ELSE edits[q]]
  BY <1>1, <1>2
<1> QED
  BY <1>2, <1>3

LEMMA EmitKeeps ==
  ASSUME Typed, NEW r \in Client, NEW op, Own(r, op), Emit(r, op)
  PROVE  /\ inbox' = inbox /\ room' = room /\ roomClock' = roomClock
         /\ loads' = loads /\ loaded' = loaded /\ apart' = apart
         /\ barred' = barred
         /\ session' = session /\ sent' = sent /\ used' = used
         /\ waits' = waits /\ snap' = snap /\ unseen' = unseen
  BY DEF Emit, roomVars

(* The operation goes to the end of what r has not sent, with a note        *)
(* whether it was alone.                                                    *)
LEMMA EmitOut ==
  ASSUME Typed, NEW r \in Client, NEW op, Own(r, op), Emit(r, op)
  PROVE  \E p \in Op :
           /\ p.kind = op.kind /\ p.id = op.id /\ p.key = op.key
           /\ p.to = op.to /\ p.time = op.time
           /\ p.alone <=> /\ <<op.id, op.key>> \notin unseen[r]
                          /\ ~\E b \in 1 .. Len(inbox[r]) : Touched(op, inbox[r][b])
           /\ outbox' = [q \in Client |-> IF q = r THEN Append(outbox[q], p)
                                          ELSE outbox[q]]
<1>1. outbox \in [Client -> Seq(Op)]
  BY DEF Typed
<1>2. PICK a \in BOOLEAN :
        a = (/\ <<op.id, op.key>> \notin unseen[r]
             /\ ~\E b \in 1 .. Len(inbox[r]) : Touched(op, inbox[r][b]))
  BY Zenon
<1>3. PICK p : p = [op EXCEPT !.alone = a]
  OBVIOUS
<1>4. /\ p \in Op /\ p.kind = op.kind /\ p.id = op.id /\ p.key = op.key
      /\ p.to = op.to /\ p.time = op.time /\ p.alone = a
  BY <1>3, AloneIs DEF Own
<1>5. outbox' = [outbox EXCEPT ![r] = Append(@, p)]
  BY <1>2, <1>3 DEF Emit
<1>6. outbox' = [q \in Client |-> IF q = r THEN Append(outbox[q], p) ELSE outbox[q]]
  BY <1>1, <1>5
<1>7. p.alone <=> /\ <<op.id, op.key>> \notin unseen[r]
                  /\ ~\E b \in 1 .. Len(inbox[r]) : Touched(op, inbox[r][b])
  BY <1>2, <1>4, Zenon
<1> QED
  BY <1>4, <1>6, <1>7

(* The two parts of a sequence: what goes first, and the rest.              *)
LEMMA SplitIs ==
  ASSUME NEW S, NEW ops \in Seq(S), NEW k \in Nat, k <= Len(ops)
  PROVE  /\ SubSeq(ops, 1, k) \in Seq(S) /\ Len(SubSeq(ops, 1, k)) = k
         /\ \A i \in 1 .. k : SubSeq(ops, 1, k)[i] = ops[i]
         /\ Rest(ops, k) \in Seq(S) /\ Len(Rest(ops, k)) = Len(ops) - k
         /\ \A i \in 1 .. Len(ops) - k : Rest(ops, k)[i] = ops[i + k]
<1>1. Len(ops) \in Nat /\ \A i \in 1 .. Len(ops) : ops[i] \in S
  BY LengthIs
<1>2. /\ SubSeq(ops, 1, k) \in Seq(S) /\ Len(SubSeq(ops, 1, k)) = k
      /\ \A i \in 1 .. k : SubSeq(ops, 1, k)[i] = ops[i]
  <2>1. \A i \in 1 .. k : ops[i] \in S
    BY <1>1
  <2>2. /\ SubSeq(ops, 1, k) \in Seq(S)
        /\ Len(SubSeq(ops, 1, k)) = IF 1 <= k THEN k - 1 + 1 ELSE 0
        /\ \A i \in 1 .. k - 1 + 1 : SubSeq(ops, 1, k)[i] = ops[1 + i - 1]
    BY <2>1, SubSeqProperties
  <2> QED
    BY <2>2
<1>3. /\ Rest(ops, k) \in Seq(S) /\ Len(Rest(ops, k)) = Len(ops) - k
      /\ \A i \in 1 .. Len(ops) - k : Rest(ops, k)[i] = ops[i + k]
  <2>1. PICK n \in Nat, m \in Nat : n = Len(ops) /\ m = k + 1
    BY <1>1
  <2>2. \A i \in m .. n : ops[i] \in S
    BY <1>1, <2>1
  <2>3. m \in Int /\ n \in Int
    BY <2>1
  <2>4. /\ SubSeq(ops, m, n) \in Seq(S)
        /\ Len(SubSeq(ops, m, n)) = IF m <= n THEN n - m + 1 ELSE 0
        /\ \A i \in 1 .. n - m + 1 : SubSeq(ops, m, n)[i] = ops[m + i - 1]
    BY <2>2, <2>3, SubSeqProperties
  <2>5. Rest(ops, k) = SubSeq(ops, m, n)
    BY <2>1 DEF Rest
  <2>6. Len(Rest(ops, k)) = n - k
    BY <2>1, <2>4, <2>5
  <2>7. ASSUME NEW i \in 1 .. n - k PROVE Rest(ops, k)[i] = ops[i + k]
    <3>1. i \in 1 .. n - m + 1 /\ m + i - 1 = i + k
      BY <2>1
    <3> QED
      BY <2>4, <2>5, <3>1
  <2> QED
    BY <2>1, <2>4, <2>5, <2>6, <2>7
<1> QED
  BY <1>2, <1>3

(* What client r has under way is the first part of what it keeps.          *)
LEMMA SentIs ==
  ASSUME Typed, NEW r \in Client
  PROVE  /\ outbox[r] \in Seq(Op) /\ inbox[r] \in Seq(Seq(Op))
         /\ Len(outbox[r]) \in Nat /\ Len(inbox[r]) \in Nat
         /\ sent[r] \in Nat /\ sent[r] <= Len(outbox[r])
         /\ Rest(outbox[r], sent[r]) \in Seq(Op)
<1>1. /\ outbox[r] \in Seq(Op) /\ inbox[r] \in Seq(Seq(Op))
      /\ sent[r] \in Nat /\ sent[r] <= Len(outbox[r])
  BY DEF Typed, Sending
<1> QED
  BY <1>1, SplitIs, LengthIs

(* A batch that reaches the room.                                           *)
LEMMA ReceiveIs ==
  ASSUME Typed, NEW r \in Client, NEW k \in 1 .. sent[r], Receive(r, k)
  PROVE  /\ outbox[r] \in Seq(Op) /\ Batch(r, k) \in Seq(Op)
         /\ k \in Nat /\ k >= 1 /\ k <= Len(outbox[r]) /\ Len(Batch(r, k)) = k
         /\ \A i \in 1 .. k : Batch(r, k)[i] = outbox[r][i]
         /\ room' = ApplyAll(room, Batch(r, k))
         /\ roomClock' = Observed(roomClock, Batch(r, k))
         /\ inbox' = [q \in Client |-> IF q = r THEN inbox[q]
                                       ELSE Append(inbox[q], Batch(r, k))]
         /\ outbox' = [q \in Client |-> IF q = r THEN Rest(outbox[q], k)
                                        ELSE Contested(outbox[q], Batch(r, k))]
         /\ barred' = (barred \/ Bars(room, Batch(r, k)))
         /\ store' = store /\ clock' = clock /\ edits' = edits
         /\ loads' = loads /\ loaded' = loaded /\ apart' = apart
         /\ session' = session /\ used' = used /\ waits' = waits
         /\ unseen' = unseen
<1>1. /\ outbox[r] \in Seq(Op) /\ sent[r] \in Nat /\ sent[r] <= Len(outbox[r])
      /\ Len(outbox[r]) \in Nat
  BY SentIs
<1>2. k \in Nat /\ k >= 1 /\ k <= Len(outbox[r])
  BY <1>1
<1>3. /\ Batch(r, k) \in Seq(Op) /\ Len(Batch(r, k)) = k
      /\ \A i \in 1 .. k : Batch(r, k)[i] = outbox[r][i]
  BY <1>1, <1>2, SplitIs DEF Batch
<1>4. /\ room' = ApplyAll(room, Batch(r, k))
      /\ roomClock' = Observed(roomClock, Batch(r, k))
      /\ inbox' = [q \in Client |-> IF q = r THEN inbox[q]
                                    ELSE Append(inbox[q], Batch(r, k))]
      /\ outbox' = [q \in Client |-> IF q = r THEN Rest(outbox[r], k)
                                     ELSE Contested(outbox[q], Batch(r, k))]
      /\ barred' = (barred \/ Bars(room, Batch(r, k)))
  BY DEF Receive
<1>5. outbox' = [q \in Client |-> IF q = r THEN Rest(outbox[q], k)
                                  ELSE Contested(outbox[q], Batch(r, k))]
  BY <1>4
<1>6. /\ store' = store /\ clock' = clock /\ edits' = edits
      /\ loads' = loads /\ loaded' = loaded /\ apart' = apart
      /\ session' = session /\ used' = used /\ waits' = waits
      /\ unseen' = unseen
  BY DEF Receive
<1> QED
  BY <1>1, <1>2, <1>3, <1>4, <1>5, <1>6, Zenon

(* What it does to what is under way, and to a file that is on its way.     *)
LEMMA ReceiveSends ==
  ASSUME Typed, NEW r \in Client, NEW k \in 1 .. sent[r], Receive(r, k)
  PROVE  /\ sent' = [q \in Client |-> IF q = r THEN sent[q] - k ELSE sent[q]]
         /\ snap' = [q \in Client |-> snap'[q]]
         /\ \A q \in Client :
              /\ snap'[q] = [file |-> snap[q].file, clock |-> snap[q].clock,
                             missed |-> snap[q].missed, later |-> snap'[q].later]
              /\ q # r \/ waits[q] = "nothing" => snap'[q].later = snap[q].later
         /\ waits[r] # "nothing" =>
              snap'[r].later = snap[r].later \cup Registers(Batch(r, k))
<1>1. /\ sent \in [Client -> Nat] /\ snap = [q \in Client |-> snap[q]]
      /\ \A q \in Client :
           snap[q] = [file |-> snap[q].file, clock |-> snap[q].clock,
                      missed |-> snap[q].missed, later |-> snap[q].later]
  BY DEF Typed, Sending, Snapped
<1>2. sent' = [q \in Client |-> IF q = r THEN sent[q] - k ELSE sent[q]]
  BY <1>1 DEF Receive
<1>3. PICK l : l = IF waits[r] = "nothing" THEN snap[r].later
                   ELSE snap[r].later \cup Registers(Batch(r, k))
  OBVIOUS
<1>4. snap' = [snap EXCEPT ![r].later = l]
  BY <1>3 DEF Receive
<1>5. /\ snap' = [q \in Client |-> snap'[q]]
      /\ \A q \in Client :
              snap'[q] = [file |-> snap[q].file, clock |-> snap[q].clock,
                          missed |-> snap[q].missed,
                          later |-> IF q = r THEN l ELSE snap[q].later]
  BY <1>1, <1>4
<1> QED
  BY <1>2, <1>3, <1>5

(* A batch that reaches a client.                                           *)
LEMMA ReadIs ==
  ASSUME Typed, NEW r \in Client, Read(r)
  PROVE  /\ inbox[r] \in Seq(Seq(Op)) /\ inbox[r] # <<>>
         /\ Head(inbox[r]) \in Seq(Op)
         /\ inbox' = [q \in Client |-> IF q = r THEN Tail(inbox[q]) ELSE inbox[q]]
         /\ store' = [q \in Client |-> IF q = r THEN ApplyAll(store[q], Head(inbox[q]))
                                       ELSE store[q]]
         /\ clock' = [q \in Client |-> IF q = r THEN Observed(clock[q], Head(inbox[q]))
                                       ELSE clock[q]]
         /\ barred' = (barred \/ Bars(store[r], Head(inbox[r])))
         /\ apart' = apart \cup {r}
         /\ outbox' = outbox /\ room' = room /\ roomClock' = roomClock
         /\ edits' = edits /\ loads' = loads /\ loaded' = loaded
         /\ waits[r] = "nothing" /\ session' = session /\ sent' = sent
         /\ used' = used /\ waits' = waits /\ snap' = snap /\ unseen' = unseen
<1>1. /\ store = [q \in Client |-> store[q]] /\ clock \in [Client -> Nat]
      /\ inbox \in [Client -> Seq(Seq(Op))]
  BY DEF Typed, Documents
<1>2. inbox[r] \in Seq(Seq(Op)) /\ inbox[r] # <<>>
  BY <1>1 DEF Read
<1>3. Head(inbox[r]) \in Seq(Op)
  BY <1>2, Shortened
<1>4. inbox' = [q \in Client |-> IF q = r THEN Tail(inbox[q]) ELSE inbox[q]]
  BY <1>1 DEF Read
<1>5. store' = [q \in Client |-> IF q = r THEN ApplyAll(store[q], Head(inbox[q]))
                                 ELSE store[q]]
  BY <1>1 DEF Read
<1>6. clock' = [q \in Client |-> IF q = r THEN Observed(clock[q], Head(inbox[q]))
                                 ELSE clock[q]]
  BY <1>1 DEF Read
<1>7. /\ barred' = (barred \/ Bars(store[r], Head(inbox[r])))
      /\ apart' = apart \cup {r}
      /\ outbox' = outbox /\ room' = room /\ roomClock' = roomClock
      /\ edits' = edits /\ loads' = loads /\ loaded' = loaded
      /\ waits[r] = "nothing" /\ session' = session /\ sent' = sent
      /\ used' = used /\ waits' = waits /\ snap' = snap /\ unseen' = unseen
  BY DEF Read, roomVars
<1> QED
  BY <1>2, <1>3, <1>4, <1>5, <1>6, <1>7, Zenon

(* The later of two numbers.                                                *)
LEMMA LaterIs ==
  ASSUME NEW a \in Nat, NEW b \in Nat
  PROVE  Max({a, b}) \in Nat /\ a <= Max({a, b}) /\ b <= Max({a, b})
<1>1. {a, b} \in SUBSET Nat /\ {a, b} # {} /\ a + b \in Nat
      /\ \A x \in {a, b} : x <= a + b
  OBVIOUS
<1>2. Max({a, b}) \in {a, b} /\ \A x \in {a, b} : x <= Max({a, b})
  BY <1>1, MaxIs
<1> QED
  BY <1>2

(* The room takes the snapshot for a client.                                *)
LEMMA GreetIs ==
  ASSUME Typed, NEW r \in Client, Greet(r)
  PROVE  /\ waits[r] = "nothing" /\ loads < MaxLoad /\ loads' = loads + 1
         /\ waits' = [q \in Client |-> IF q = r THEN "welcome" ELSE waits[q]]
         /\ snap' = [q \in Client |->
              IF q = r THEN [file |-> Snapshot(room), clock |-> roomClock,
                             missed |-> Len(inbox[q]), later |-> {}]
              ELSE snap[q]]
         /\ store' = store /\ clock' = clock /\ session' = session
         /\ outbox' = outbox /\ sent' = sent /\ inbox' = inbox
         /\ room' = room /\ roomClock' = roomClock /\ edits' = edits
         /\ loaded' = loaded /\ apart' = apart /\ barred' = barred
         /\ used' = used /\ unseen' = unseen
<1>1. /\ waits \in [Client -> {"nothing", "welcome", "file"}]
      /\ snap = [q \in Client |-> snap[q]]
  BY DEF Typed, Sending
<1>2. waits' = [q \in Client |-> IF q = r THEN "welcome" ELSE waits[q]]
  BY <1>1 DEF Greet
<1>3. snap' = [q \in Client |->
              IF q = r THEN [file |-> Snapshot(room), clock |-> roomClock,
                             missed |-> Len(inbox[q]), later |-> {}]
              ELSE snap[q]]
  BY <1>1 DEF Greet
<1> QED
  BY <1>2, <1>3 DEF Greet, clientVars

(* The welcome reaches it.                                                  *)
LEMMA WelcomeIs ==
  ASSUME Typed, NEW r \in Client, Welcome(r)
  PROVE  /\ waits[r] = "welcome"
         /\ waits' = [q \in Client |-> IF q = r THEN "file" ELSE waits[q]]
         /\ \E c \in Nat :
              /\ clock[r] <= c /\ snap[r].clock <= c
              /\ clock' = [q \in Client |-> IF q = r THEN c ELSE clock[q]]
         /\ sent' = [q \in Client |-> IF q = r THEN Len(outbox[q]) ELSE sent[q]]
         /\ inbox' = [q \in Client |-> IF q = r THEN Rest(inbox[q], snap[q].missed)
                                       ELSE inbox[q]]
         /\ snap' = [q \in Client |->
              IF q = r THEN [file |-> snap[q].file, clock |-> snap[q].clock,
                             missed |-> 0, later |-> snap[q].later]
              ELSE snap[q]]
         /\ loaded' = loaded \cup {r}
         /\ store' = store /\ session' = session /\ outbox' = outbox
         /\ room' = room /\ roomClock' = roomClock /\ edits' = edits
         /\ loads' = loads /\ apart' = apart /\ barred' = barred
         /\ used' = used /\ unseen' = unseen
<1>1. /\ waits \in [Client -> {"nothing", "welcome", "file"}]
      /\ snap = [q \in Client |-> snap[q]] /\ clock \in [Client -> Nat]
      /\ sent \in [Client -> Nat] /\ inbox \in [Client -> Seq(Seq(Op))]
      /\ snap[r].clock \in Nat
      /\ snap[r] = [file |-> snap[r].file, clock |-> snap[r].clock,
                    missed |-> snap[r].missed, later |-> snap[r].later]
  BY DEF Typed, Sending, Snapped
<1>2. PICK c \in Nat : /\ c = Max({clock[r], snap[r].clock})
                       /\ clock[r] <= c /\ snap[r].clock <= c
  BY <1>1, LaterIs
<1>3. clock' = [q \in Client |-> IF q = r THEN c ELSE clock[q]]
  BY <1>1, <1>2 DEF Welcome
<1>4. /\ waits' = [q \in Client |-> IF q = r THEN "file" ELSE waits[q]]
      /\ sent' = [q \in Client |-> IF q = r THEN Len(outbox[q]) ELSE sent[q]]
  BY <1>1 DEF Welcome
<1>5. inbox' = [q \in Client |-> IF q = r THEN Rest(inbox[q], snap[q].missed)
                                 ELSE inbox[q]]
  BY <1>1 DEF Welcome
<1>6. snap' = [q \in Client |->
              IF q = r THEN [file |-> snap[q].file, clock |-> snap[q].clock,
                             missed |-> 0, later |-> snap[q].later]
              ELSE snap[q]]
  <2>1. snap' = [snap EXCEPT ![r].missed = 0]
    BY DEF Welcome
  <2>2. [snap[r] EXCEPT !.missed = 0] =
          [file |-> snap[r].file, clock |-> snap[r].clock,
           missed |-> 0, later |-> snap[r].later]
    <3>1. PICK f, d, m, l : snap[r] = [file |-> f, clock |-> d, missed |-> m,
                                       later |-> l]
      BY <1>1, Zenon
    <3>2. [snap[r] EXCEPT !.missed = 0] =
            [file |-> f, clock |-> d, missed |-> 0, later |-> l]
      BY <3>1
    <3>3. snap[r].file = f /\ snap[r].clock = d /\ snap[r].later = l
      BY <3>1
    <3> QED
      BY <3>2, <3>3, Zenon
  <2>3. snap' = [snap EXCEPT ![r] = [snap[r] EXCEPT !.missed = 0]]
    BY <2>1
  <2> QED
    BY <1>1, <2>2, <2>3
<1>7. /\ waits[r] = "welcome" /\ loaded' = loaded \cup {r}
      /\ store' = store /\ session' = session /\ outbox' = outbox
      /\ room' = room /\ roomClock' = roomClock /\ edits' = edits
      /\ loads' = loads /\ apart' = apart /\ barred' = barred
      /\ used' = used /\ unseen' = unseen
  BY DEF Welcome
<1> QED
  BY <1>2, <1>3, <1>4, <1>5, <1>6, <1>7

(* The file reaches it; what was not sent yet goes on top.                  *)
LEMMA LoadIs ==
  ASSUME Typed, NEW r \in Client, Load(r),
         NEW unsent, unsent = Rest(outbox[r], sent[r])
  PROVE  /\ waits[r] = "file" /\ unsent \in Seq(Op)
         /\ waits' = [q \in Client |-> IF q = r THEN "nothing" ELSE waits[q]]
         /\ \E s \in Session \ used :
              /\ session' = [q \in Client |-> IF q = r THEN s ELSE session[q]]
              /\ used' = used \cup {s}
         /\ store' = [q \in Client |-> IF q = r THEN ApplyAll(snap[q].file, unsent)
                                       ELSE store[q]]
         /\ clock' = [q \in Client |-> IF q = r THEN Observed(snap[q].clock, unsent)
                                       ELSE clock[q]]
         /\ unseen' = [q \in Client |->
              IF q = r THEN snap[q].later
                              \cup Registers(Batch(q, sent[q]))
              ELSE unseen[q]]
         /\ snap' = [q \in Client |-> IF q = r THEN NoSnap ELSE snap[q]]
         /\ apart' = apart \cup {r}
         /\ barred' = (barred \/ Bars(snap[r].file, unsent))
         /\ outbox' = outbox /\ sent' = sent /\ inbox' = inbox
         /\ room' = room /\ roomClock' = roomClock
         /\ edits' = edits /\ loads' = loads /\ loaded' = loaded
<1>1. /\ waits \in [Client -> {"nothing", "welcome", "file"}]
      /\ snap = [q \in Client |-> snap[q]] /\ clock \in [Client -> Nat]
      /\ store = [q \in Client |-> store[q]]
      /\ session \in [Client -> Session] /\ unseen = [q \in Client |-> unseen[q]]
  BY DEF Typed, Sending, Documents
<1>2. waits' = [q \in Client |-> IF q = r THEN "nothing" ELSE waits[q]]
  BY <1>1 DEF Load, NewDocument
<1>3. \E s \in Session \ used :
        /\ session' = [q \in Client |-> IF q = r THEN s ELSE session[q]]
        /\ used' = used \cup {s}
  <2>1. PICK s \in Session \ used : /\ session' = [session EXCEPT ![r] = s]
                                    /\ used' = used \cup {s}
    BY DEF Load, NewDocument
  <2>2. session' = [q \in Client |-> IF q = r THEN s ELSE session[q]]
    BY <1>1, <2>1
  <2> QED
    BY <2>1, <2>2
<1>4. store' = [q \in Client |-> IF q = r THEN ApplyAll(snap[q].file, unsent)
                                 ELSE store[q]]
  BY <1>1 DEF Load, NewDocument
<1>5. clock' = [q \in Client |-> IF q = r THEN Observed(snap[q].clock, unsent)
                                 ELSE clock[q]]
  BY <1>1 DEF Load, NewDocument
<1>6. unseen' = [q \in Client |->
              IF q = r THEN snap[q].later
                              \cup Registers(Batch(q, sent[q]))
              ELSE unseen[q]]
  BY <1>1 DEF Load, NewDocument
<1>7. snap' = [q \in Client |-> IF q = r THEN NoSnap ELSE snap[q]]
  BY <1>1 DEF Load, NewDocument
<1>8. /\ waits[r] = "file" /\ apart' = apart \cup {r}
      /\ barred' = (barred \/ Bars(snap[r].file, unsent))
      /\ outbox' = outbox /\ sent' = sent /\ inbox' = inbox
      /\ room' = room /\ roomClock' = roomClock
      /\ edits' = edits /\ loads' = loads /\ loaded' = loaded
  BY DEF Load, NewDocument
<1>9. unsent \in Seq(Op)
  BY SentIs
<1> QED
  BY <1>2, <1>3, <1>4, <1>5, <1>6, <1>7, <1>8, <1>9, Zenon

(* What a client kept goes out.                                             *)
LEMMA FlushIs ==
  ASSUME Typed, NEW r \in Client, Flush(r)
  PROVE  /\ sent' = [q \in Client |-> IF q = r THEN Len(outbox[q]) ELSE sent[q]]
         /\ store' = store /\ clock' = clock /\ session' = session
         /\ outbox' = outbox /\ inbox' = inbox
         /\ room' = room /\ roomClock' = roomClock
         /\ waits' = waits /\ snap' = snap /\ edits' = edits
         /\ loads' = loads /\ loaded' = loaded /\ apart' = apart
         /\ barred' = barred /\ used' = used /\ unseen' = unseen
  BY DEF Flush, roomVars, obsVars, Typed, Sending

(* A step of the history that was not replayed: the clock at most goes on.  *)
LEMMA TicksIs ==
  ASSUME Typed, NEW r \in Client, Ticks(r)
  PROVE  /\ \E c \in Nat : /\ c >= clock[r]
                           /\ clock' = [q \in Client |-> IF q = r THEN c ELSE clock[q]]
         /\ edits' = [q \in Client |-> IF q = r THEN edits[q] + 1 ELSE edits[q]]
         /\ edits[r] < MaxEdit[r]
         /\ store' = store /\ outbox' = outbox /\ inbox' = inbox
         /\ room' = room /\ roomClock' = roomClock
         /\ loads' = loads /\ loaded' = loaded /\ apart' = apart
         /\ barred' = barred
         /\ session' = session /\ sent' = sent /\ used' = used
         /\ waits' = waits /\ snap' = snap /\ unseen' = unseen
<1>1. clock \in [Client -> Nat] /\ edits \in [Client -> Nat]
  BY DEF Typed
<1>2. PICK c \in Nat : c >= clock[r] /\ clock' = [clock EXCEPT ![r] = c]
  BY DEF Ticks
<1>3. clock' = [q \in Client |-> IF q = r THEN c ELSE clock[q]]
  BY <1>1, <1>2
<1>4. edits' = [q \in Client |-> IF q = r THEN edits[q] + 1 ELSE edits[q]]
  BY <1>1 DEF Ticks
<1>5. /\ edits[r] < MaxEdit[r]
      /\ store' = store /\ outbox' = outbox /\ inbox' = inbox
      /\ room' = room /\ roomClock' = roomClock
      /\ loads' = loads /\ loaded' = loaded /\ apart' = apart
      /\ barred' = barred
      /\ session' = session /\ sent' = sent /\ used' = used
      /\ waits' = waits /\ snap' = snap /\ unseen' = unseen
  BY DEF Ticks, roomVars
<1> QED
  BY <1>2, <1>3, <1>4, <1>5

(* Typed at first, and after every step: documents by ApplyDoc, clocks by   *)
(* ObservedIs, operations under way by OwnWrite and OwnReplay.              *)
LEMMA SendingInit == Init => Sending
<1> SUFFICES ASSUME Init PROVE Sending
  OBVIOUS
<1>1. /\ session = First /\ used = {First[r] : r \in Client}
      /\ sent = [r \in Client |-> 0] /\ unseen = [r \in Client |-> {}]
      /\ waits = [r \in Client |-> "nothing"] /\ snap = [r \in Client |-> NoSnap]
      /\ outbox = [r \in Client |-> <<>>] /\ inbox = [r \in Client |-> <<>>]
  BY DEF Init
<1>2. /\ session \in [Client -> Session] /\ used \subseteq Session
      /\ \A r \in Client : session[r] \in used
      /\ \A q, r \in Client : session[q] = session[r] => q = r
  BY <1>1, FirstAssumption DEF FirstAssumption
<1>3. /\ sent \in [Client -> Nat] /\ \A r \in Client : sent[r] <= Len(outbox[r])
      /\ waits \in [Client -> {"nothing", "welcome", "file"}]
      /\ snap = [r \in Client |-> snap[r]] /\ unseen = [r \in Client |-> unseen[r]]
  BY <1>1
<1>4. ASSUME NEW r \in Client PROVE Snapped(r)
  <2>1. /\ snap[r].file = File /\ snap[r].clock = 0 /\ snap[r].missed = 0
        /\ snap[r].later = {} /\ waits[r] = "nothing" /\ inbox[r] = <<>>
        /\ snap[r] = [file |-> snap[r].file, clock |-> snap[r].clock,
                      missed |-> snap[r].missed, later |-> snap[r].later]
    BY <1>1 DEF NoSnap
  <2>2. snap[r].missed <= Len(inbox[r])
    BY <2>1
  <2> QED
    BY <2>1, <2>2, FileDoc DEF Snapped
<1> QED
  BY <1>2, <1>3, <1>4 DEF Sending

LEMMA TypedInit == Init => Typed
<1> SUFFICES ASSUME Init PROVE Typed
  OBVIOUS
<1>1. Documents
  <2>1. room = File /\ roomClock = 0 /\ store = [r \in Client |-> File]
        /\ clock = [r \in Client |-> 0]
    BY DEF Init
  <2>2. store = [r \in Client |-> store[r]]
        /\ \A r \in Client : store[r] = File /\ clock[r] = 0
    BY <2>1
  <2> QED
    BY <2>1, <2>2, FileDoc DEF Documents
<1>2. Histories
  BY DEF Init, Histories
<1>3. edits \in [Client -> Nat] /\ \A r \in Client : edits[r] <= MaxEdit[r]
  BY DEF Init
<1>4. /\ roomClock \in Nat /\ clock \in [Client -> Nat]
      /\ outbox \in [Client -> Seq(Op)] /\ inbox \in [Client -> Seq(Seq(Op))]
  BY DEF Init
<1>5. /\ loads \in 0 .. MaxLoad /\ loaded \subseteq Client /\ apart \subseteq Client
  BY DEF Init
<1>6. barred \in BOOLEAN
  BY Zenon DEF Init
<1> QED
  BY <1>1, <1>2, <1>3, <1>4, <1>5, <1>6, SendingInit DEF Typed

(* A document that takes in a batch.                                        *)
LEMMA BatchIn ==
  ASSUME NEW s, Doc(s), NEW c \in Nat, InClock(s, c), NEW ops \in Seq(Op)
  PROVE  /\ Doc(ApplyAll(s, ops))
         /\ Observed(c, ops) \in Nat /\ c <= Observed(c, ops)
         /\ InClock(ApplyAll(s, ops), Observed(c, ops))
<1>1. PICK d \in Nat : /\ d = Observed(c, ops) /\ c <= d
                       /\ \A i \in 1 .. Len(ops) : ops[i].time[1] <= d
  BY ObservedIs
<1>2. InClock(s, d)
  BY <1>1, InClockLater
<1> QED
  BY <1>1, <1>2, ApplyAllDoc, ApplyAllInClock

(* What is under way, and a file on its way, stay what they are.            *)
LEMMA SnappedSame ==
  ASSUME Typed, NEW q \in Client, snap'[q] = snap[q], waits'[q] = waits[q],
         Len(inbox[q]) <= Len(inbox'[q]), Len(inbox'[q]) \in Nat,
         q \in loaded => q \in loaded'
  PROVE  Snapped(q)'
<1>1. Snapped(q)
  BY DEF Typed, Sending
<1>2. Len(inbox[q]) \in Nat
  BY SentIs
<1>3. snap[q].missed \in Nat /\ snap[q].missed <= Len(inbox'[q])
  BY <1>1, <1>2 DEF Snapped
<1> QED
  BY <1>1, <1>3 DEF Snapped

LEMMA SendingEmit ==
  ASSUME Typed, NEW r \in Client, Emits(r)
  PROVE  Sending'
<1>1. PICK op : Own(r, op) /\ Emit(r, op)
  BY DEF Emits
<1>2. PICK p \in Op :
        outbox' = [q \in Client |-> IF q = r THEN Append(outbox[q], p)
                                    ELSE outbox[q]]
  BY <1>1, EmitOut
<1>3. /\ inbox' = inbox /\ loaded' = loaded
      /\ session' = session /\ sent' = sent /\ used' = used
      /\ waits' = waits /\ snap' = snap /\ unseen' = unseen
  BY <1>1, EmitKeeps
<1>4. ASSUME NEW q \in Client PROVE sent'[q] <= Len(outbox'[q])
  <2>1. outbox[q] \in Seq(Op) /\ sent[q] \in Nat /\ sent[q] <= Len(outbox[q])
    BY SentIs
  <2>2. Len(Append(outbox[q], p)) = Len(outbox[q]) + 1 /\ Len(outbox[q]) \in Nat
    BY <2>1, AppendProperties, LengthIs
  <2> QED
    BY <1>2, <1>3, <2>1, <2>2
<1>5. \A q \in Client : Snapped(q)'
  BY <1>3, SnappedSame, SentIs
<1> QED
  BY <1>3, <1>4, <1>5 DEF Typed, Sending

LEMMA SendingReceive ==
  ASSUME Typed, NEW r \in Client, NEW k \in 1 .. sent[r], Receive(r, k)
  PROVE  Sending'
<1>2. /\ outbox[r] \in Seq(Op) /\ Batch(r, k) \in Seq(Op)
      /\ k \in Nat /\ k >= 1 /\ k <= Len(outbox[r])
      /\ inbox' = [q \in Client |-> IF q = r THEN inbox[q]
                                    ELSE Append(inbox[q], Batch(r, k))]
      /\ outbox' = [q \in Client |-> IF q = r THEN Rest(outbox[q], k)
                                     ELSE Contested(outbox[q], Batch(r, k))]
      /\ loaded' = loaded
      /\ session' = session /\ used' = used /\ waits' = waits
      /\ unseen' = unseen
  BY ReceiveIs
<1>3. /\ sent' = [q \in Client |-> IF q = r THEN sent[q] - k ELSE sent[q]]
      /\ snap' = [q \in Client |-> snap'[q]]
      /\ \A q \in Client :
           snap'[q] = [file |-> snap[q].file, clock |-> snap[q].clock,
                       missed |-> snap[q].missed, later |-> snap'[q].later]
  BY ReceiveSends
<1>4. ASSUME NEW q \in Client
      PROVE  sent'[q] \in Nat /\ sent'[q] <= Len(outbox'[q])
  <2>1. /\ outbox[q] \in Seq(Op) /\ sent[q] \in Nat /\ sent[q] <= Len(outbox[q])
        /\ Len(outbox[q]) \in Nat
    BY SentIs
  <2>2. Len(Contested(outbox[q], Batch(r, k))) = Len(outbox[q])
    <3>1. PICK c : c = Contested(outbox[q], Batch(r, k))
      OBVIOUS
    <3>2. Len(c) = Len(outbox[q])
      BY <2>1, <3>1, ContestedIs
    <3> QED
      BY <3>1, <3>2
  <2>3. Len(Rest(outbox[r], k)) = Len(outbox[r]) - k
    <3>1. PICK ops \in Seq(Op) : ops = outbox[r]
      BY <1>2
    <3>2. Rest(ops, k) \in Seq(Op) /\ Len(Rest(ops, k)) = Len(ops) - k
      <4>1. k \in Nat /\ k <= Len(ops)
        BY <1>2, <3>1
      <4> QED
        BY <4>1, SplitIs
    <3> QED
      BY <3>1, <3>2
  <2>4. q = r => k <= sent[q]
    OBVIOUS
  <2> QED
    BY <1>2, <1>3, <2>1, <2>2, <2>3, <2>4
<1>5. ASSUME NEW q \in Client PROVE Snapped(q)'
  <2>1. Snapped(q)
    BY DEF Typed, Sending
  <2>2. Len(inbox'[q]) \in Nat /\ Len(inbox[q]) \in Nat /\ Len(inbox[q]) <= Len(inbox'[q])
    <3>1. inbox[q] \in Seq(Seq(Op)) /\ Len(inbox[q]) \in Nat
      BY SentIs
    <3>2. Len(Append(inbox[q], Batch(r, k))) = Len(inbox[q]) + 1
      BY <1>2, <3>1, AppendProperties
    <3> QED
      BY <1>2, <3>1, <3>2
  <2>3. /\ snap'[q].file = snap[q].file /\ snap'[q].clock = snap[q].clock
        /\ snap'[q].missed = snap[q].missed
        /\ snap'[q] = [file |-> snap'[q].file, clock |-> snap'[q].clock,
                       missed |-> snap'[q].missed, later |-> snap'[q].later]
    BY <1>3
  <2>4. snap[q].missed \in Nat /\ snap[q].missed <= Len(inbox'[q])
    BY <2>1, <2>2 DEF Snapped
  <2> QED
    BY <1>2, <2>1, <2>3, <2>4 DEF Snapped
<1>6. sent' \in [Client -> Nat]
  BY <1>3, <1>4
<1> QED
  BY <1>2, <1>3, <1>4, <1>5, <1>6 DEF Typed, Sending

LEMMA SendingGreet ==
  ASSUME Typed, NEW r \in Client, Greet(r)
  PROVE  Sending'
<1>1. /\ waits' = [q \in Client |-> IF q = r THEN "welcome" ELSE waits[q]]
      /\ snap' = [q \in Client |->
           IF q = r THEN [file |-> Snapshot(room), clock |-> roomClock,
                          missed |-> Len(inbox[q]), later |-> {}]
           ELSE snap[q]]
      /\ session' = session /\ outbox' = outbox /\ sent' = sent /\ inbox' = inbox
      /\ loaded' = loaded /\ used' = used /\ unseen' = unseen
  BY GreetIs
<1>2. ASSUME NEW q \in Client, q # r PROVE Snapped(q)'
  <2>1. /\ snap'[q] = snap[q] /\ waits'[q] = waits[q] /\ inbox'[q] = inbox[q]
        /\ q \in loaded => q \in loaded'
    BY <1>1, <1>2
  <2>2. Len(inbox'[q]) \in Nat /\ Len(inbox[q]) <= Len(inbox'[q])
    BY <2>1, SentIs
  <2> QED
    BY <2>1, <2>2, SnappedSame
<1>3. Snapped(r)'
  <2>1. /\ snap'[r].file = Snapshot(room) /\ snap'[r].clock = roomClock
        /\ snap'[r].missed = Len(inbox'[r]) /\ waits'[r] = "welcome"
        /\ snap'[r] = [file |-> snap'[r].file, clock |-> snap'[r].clock,
                       missed |-> snap'[r].missed, later |-> snap'[r].later]
    BY <1>1
  <2>2. /\ Doc(Snapshot(room)) /\ InClock(Snapshot(room), roomClock)
        /\ roomClock \in Nat
    BY SnapshotDoc DEF Typed, Documents
  <2>3. Len(inbox'[r]) \in Nat
    BY <1>1, SentIs
  <2>4. snap'[r].missed \in Nat /\ snap'[r].missed <= Len(inbox'[r])
    BY <2>1, <2>3
  <2> QED
    BY <2>1, <2>2, <2>4 DEF Snapped
<1>4. waits' \in [Client -> {"nothing", "welcome", "file"}]
  BY <1>1 DEF Typed, Sending
<1>5. snap' = [q \in Client |-> snap'[q]]
  BY <1>1
<1> QED
  BY <1>1, <1>2, <1>3, <1>4, <1>5 DEF Typed, Sending

LEMMA SendingWelcome ==
  ASSUME Typed, NEW r \in Client, Welcome(r)
  PROVE  Sending'
<1>1. /\ waits' = [q \in Client |-> IF q = r THEN "file" ELSE waits[q]]
      /\ sent' = [q \in Client |-> IF q = r THEN Len(outbox[q]) ELSE sent[q]]
      /\ inbox' = [q \in Client |-> IF q = r THEN Rest(inbox[q], snap[q].missed)
                                    ELSE inbox[q]]
      /\ snap' = [q \in Client |->
           IF q = r THEN [file |-> snap[q].file, clock |-> snap[q].clock,
                          missed |-> 0, later |-> snap[q].later]
           ELSE snap[q]]
      /\ loaded' = loaded \cup {r} /\ session' = session /\ outbox' = outbox
      /\ used' = used /\ unseen' = unseen
  BY WelcomeIs
<1>2. ASSUME NEW q \in Client, q # r PROVE Snapped(q)'
  <2>1. /\ snap'[q] = snap[q] /\ waits'[q] = waits[q] /\ inbox'[q] = inbox[q]
        /\ q \in loaded => q \in loaded'
    BY <1>1, <1>2
  <2>2. Len(inbox'[q]) \in Nat /\ Len(inbox[q]) <= Len(inbox'[q])
    BY <2>1, SentIs
  <2> QED
    BY <2>1, <2>2, SnappedSame
<1>3. Snapped(r)'
  <2>1. Snapped(r)
    BY DEF Typed, Sending
  <2>2. /\ snap'[r].file = snap[r].file /\ snap'[r].clock = snap[r].clock
        /\ snap'[r].missed = 0 /\ waits'[r] = "file" /\ r \in loaded'
        /\ snap'[r] = [file |-> snap'[r].file, clock |-> snap'[r].clock,
                       missed |-> snap'[r].missed, later |-> snap'[r].later]
    BY <1>1
  <2>3. Len(inbox'[r]) \in Nat
    <3>1. /\ inbox[r] \in Seq(Seq(Op)) /\ snap[r].missed \in Nat
          /\ snap[r].missed <= Len(inbox[r])
      BY <2>1, SentIs DEF Snapped
    <3>2. Rest(inbox[r], snap[r].missed) \in Seq(Seq(Op))
      BY <3>1, SplitIs
    <3> QED
      BY <1>1, <3>2, LengthIs
  <2>4. snap'[r].missed <= Len(inbox'[r])
    BY <2>2, <2>3
  <2> QED
    BY <2>1, <2>2, <2>4 DEF Snapped
<1>4. waits' \in [Client -> {"nothing", "welcome", "file"}]
  BY <1>1 DEF Typed, Sending
<1>5. snap' = [q \in Client |-> snap'[q]]
  BY <1>1
<1>6. ASSUME NEW q \in Client
      PROVE  sent'[q] \in Nat /\ sent'[q] <= Len(outbox'[q])
  <2>1. Len(outbox[q]) \in Nat /\ sent[q] \in Nat /\ sent[q] <= Len(outbox[q])
    BY SentIs
  <2> QED
    BY <1>1, <2>1
<1>7. sent' \in [Client -> Nat]
  BY <1>1, <1>6
<1> QED
  BY <1>1, <1>2, <1>3, <1>4, <1>5, <1>6, <1>7 DEF Typed, Sending

LEMMA SendingLoad ==
  ASSUME Typed, NEW r \in Client, Load(r)
  PROVE  Sending'
<1>1. PICK unsent : unsent = Rest(outbox[r], sent[r])
  OBVIOUS
<1>2. /\ waits' = [q \in Client |-> IF q = r THEN "nothing" ELSE waits[q]]
      /\ \E s \in Session \ used :
              /\ session' = [q \in Client |-> IF q = r THEN s ELSE session[q]]
              /\ used' = used \cup {s}
      /\ snap' = [q \in Client |-> IF q = r THEN NoSnap ELSE snap[q]]
      /\ outbox' = outbox /\ sent' = sent /\ inbox' = inbox
      /\ loaded' = loaded
  BY <1>1, LoadIs
<1>3. unseen' = [q \in Client |-> unseen'[q]]
  <2>1. unseen' = [q \in Client |->
              IF q = r THEN snap[q].later
                              \cup Registers(Batch(q, sent[q]))
              ELSE unseen[q]]
    BY <1>1, LoadIs
  <2> QED
    BY <2>1
<1>4. PICK s \in Session \ used :
              /\ session' = [q \in Client |-> IF q = r THEN s ELSE session[q]]
              /\ used' = used \cup {s}
  BY <1>2
<1>5. /\ session' \in [Client -> Session] /\ used' \subseteq Session
      /\ \A q \in Client : session'[q] \in used'
      /\ \A p, q \in Client : session'[p] = session'[q] => p = q
  BY <1>4 DEF Typed, Sending
<1>6. \A q \in Client : q # r => Snapped(q)'
  BY <1>2, SnappedSame, SentIs
<1>7. Snapped(r)'
  <2>1. /\ snap'[r].file = File /\ snap'[r].clock = 0 /\ snap'[r].missed = 0
        /\ waits'[r] = "nothing"
        /\ snap'[r] = [file |-> snap'[r].file, clock |-> snap'[r].clock,
                       missed |-> snap'[r].missed, later |-> snap'[r].later]
    BY <1>2 DEF NoSnap
  <2>2. snap'[r].missed <= Len(inbox'[r])
    BY <1>2, <2>1, SentIs
  <2> QED
    BY <2>1, <2>2, FileDoc DEF Snapped
<1>8. waits' \in [Client -> {"nothing", "welcome", "file"}]
  BY <1>2 DEF Typed, Sending
<1>9. snap' = [q \in Client |-> snap'[q]]
  BY <1>2
<1> QED
  BY <1>2, <1>3, <1>5, <1>6, <1>7, <1>8, <1>9 DEF Typed, Sending

LEMMA SendingNext == Typed /\ [Next]_vars => Sending'
<1> SUFFICES ASSUME Typed, [Next]_vars PROVE Sending'
  OBVIOUS
<1>1. CASE UNCHANGED vars
  <2>1. /\ session' = session /\ used' = used /\ sent' = sent /\ outbox' = outbox
        /\ waits' = waits /\ snap' = snap /\ unseen' = unseen /\ inbox' = inbox
        /\ loaded' = loaded
    BY <1>1 DEF vars, clientVars, roomVars, obsVars
  <2>2. \A q \in Client : Snapped(q)'
    BY <2>1, SnappedSame, SentIs
  <2> QED
    BY <2>1, <2>2 DEF Typed, Sending
<1>2. CASE Next
  <2>1. PICK r \in Client :
              \/ Emits(r) \/ Ticks(r) \/ Flush(r) \/ Takes(r) \/ Read(r)
              \/ Greet(r) \/ Welcome(r) \/ Load(r)
    BY <1>2, Acts
  <2>2. ASSUME Ticks(r) PROVE Sending'
    <3>1. /\ session' = session /\ used' = used /\ sent' = sent /\ outbox' = outbox
          /\ waits' = waits /\ snap' = snap /\ unseen' = unseen /\ inbox' = inbox
          /\ loaded' = loaded
      BY <2>2, TicksIs
    <3>2. \A q \in Client : Snapped(q)'
      BY <3>1, SnappedSame, SentIs
    <3> QED
      BY <3>1, <3>2 DEF Typed, Sending
  <2>3. ASSUME Flush(r) PROVE Sending'
    <3>1. /\ sent' = [q \in Client |-> IF q = r THEN Len(outbox[q]) ELSE sent[q]]
          /\ session' = session /\ used' = used /\ outbox' = outbox
          /\ waits' = waits /\ snap' = snap /\ unseen' = unseen /\ inbox' = inbox
          /\ loaded' = loaded
      BY <2>3, FlushIs
    <3>2. \A q \in Client : Snapped(q)'
      BY <3>1, SnappedSame, SentIs
    <3>3. \A q \in Client : sent'[q] \in Nat /\ sent'[q] <= Len(outbox'[q])
      BY <3>1, SentIs
    <3>4. sent' \in [Client -> Nat]
      BY <3>1, <3>3
    <3> QED
      BY <3>1, <3>2, <3>3, <3>4 DEF Typed, Sending
  <2>4. ASSUME Read(r) PROVE Sending'
    <3>1. /\ waits[r] = "nothing" /\ session' = session /\ sent' = sent
          /\ used' = used /\ waits' = waits /\ snap' = snap /\ unseen' = unseen
          /\ outbox' = outbox /\ loaded' = loaded
          /\ inbox[r] \in Seq(Seq(Op)) /\ inbox[r] # <<>>
          /\ inbox' = [q \in Client |-> IF q = r THEN Tail(inbox[q]) ELSE inbox[q]]
      BY <2>4, ReadIs
    <3>2. ASSUME NEW q \in Client, q # r PROVE Snapped(q)'
      <4>1. /\ snap'[q] = snap[q] /\ waits'[q] = waits[q] /\ inbox'[q] = inbox[q]
            /\ q \in loaded => q \in loaded'
        BY <3>1, <3>2
      <4>2. Len(inbox'[q]) \in Nat /\ Len(inbox[q]) <= Len(inbox'[q])
        BY <4>1, SentIs
      <4> QED
        BY <4>1, <4>2, SnappedSame
    <3>3. Snapped(r)'
      <4>1. Snapped(r)
        BY DEF Typed, Sending
      <4>2. Len(inbox'[r]) \in Nat
        <5>1. Tail(inbox[r]) \in Seq(Seq(Op))
          BY <3>1, Shortened
        <5> QED
          BY <3>1, <5>1, LengthIs
      <4>3. snap'[r].missed = 0 /\ snap'[r].missed <= Len(inbox'[r])
        BY <3>1, <4>1, <4>2 DEF Snapped
      <4> QED
        BY <3>1, <4>1, <4>3 DEF Snapped
    <3> QED
      BY <3>1, <3>2, <3>3 DEF Typed, Sending
  <2>5. ASSUME Takes(r) PROVE Sending'
    BY <2>5, SendingReceive DEF Takes
  <2> QED
    BY <2>1, <2>2, <2>3, <2>4, <2>5, SendingEmit, SendingGreet, SendingWelcome,
       SendingLoad
<1> QED
  BY <1>1, <1>2

LEMMA TypedNext == Typed /\ [Next]_vars => Typed'
<1> SUFFICES ASSUME Typed, [Next]_vars PROVE Typed'
  OBVIOUS
<1> USE DEF Documents
<1>0. Sending'
  BY SendingNext
<1>1. CASE UNCHANGED vars
  BY <1>0, <1>1 DEF Typed, Documents, Histories, vars, clientVars, roomVars, obsVars
<1>2. CASE Next
  <2>1. Histories'
    BY <1>2, Acts
  <2>2. PICK r \in Client :
              \/ Emits(r) \/ Ticks(r) \/ Flush(r) \/ Takes(r) \/ Read(r)
              \/ Greet(r) \/ Welcome(r) \/ Load(r)
    BY <1>2, Acts
  <2>3. /\ Doc(room) /\ InClock(room, roomClock) /\ roomClock \in Nat
        /\ store = [q \in Client |-> store[q]]
        /\ \A q \in Client : Doc(store[q]) /\ InClock(store[q], clock[q])
        /\ clock \in [Client -> Nat]
        /\ outbox \in [Client -> Seq(Op)] /\ inbox \in [Client -> Seq(Seq(Op))]
        /\ edits \in [Client -> Nat] /\ \A q \in Client : edits[q] <= MaxEdit[q]
        /\ MaxEdit \in [Client -> Nat]
        /\ loads \in 0 .. MaxLoad /\ loaded \subseteq Client /\ apart \subseteq Client
        /\ barred \in BOOLEAN
    BY DEF Typed
  <2>4. ASSUME edits[r] < MaxEdit[r],
               edits' = [q \in Client |-> IF q = r THEN edits[q] + 1 ELSE edits[q]]
        PROVE  edits' \in [Client -> Nat] /\ \A q \in Client : edits'[q] <= MaxEdit[q]
    <3>1. /\ edits \in [Client -> Nat] /\ MaxEdit \in [Client -> Nat]
          /\ \A q \in Client : edits[q] <= MaxEdit[q]
      BY <2>3
    <3>2. edits' \in [Client -> Nat]
      BY <2>4, <3>1
    <3>3. ASSUME NEW q \in Client PROVE edits'[q] <= MaxEdit[q]
      <4>1. edits'[q] = IF q = r THEN edits[q] + 1 ELSE edits[q]
        BY <2>4
      <4>2. edits[q] \in Nat /\ MaxEdit[q] \in Nat /\ edits[q] <= MaxEdit[q]
        BY <3>1
      <4> QED
        BY <2>4, <4>1, <4>2
    <3> QED
      BY <3>2, <3>3
  <2>5. CASE Emits(r)
    <3>1. PICK op : Own(r, op) /\ Emit(r, op)
      BY <2>5 DEF Emits
    <3>2. op \in Op /\ op.time[1] > clock[r] /\ op.time[1] \in Nat
      BY <3>1, OpFields, StampCounts DEF Own
    <3>3. PICK p \in Op :
            outbox' = [q \in Client |-> IF q = r THEN Append(outbox[q], p)
                                        ELSE outbox[q]]
      BY <3>1, EmitOut
    <3>4. outbox' \in [Client -> Seq(Op)]
      BY <2>3, <3>3, Appended
    <3>5. Doc(Apply(store[r], op)) /\ InClock(Apply(store[r], op), op.time[1])
      <4>1. clock[r] \in Nat /\ clock[r] <= op.time[1]
        BY <2>3, <3>2
      <4>2. InClock(store[r], op.time[1])
        BY <2>3, <3>2, <4>1, InClockLater
      <4> QED
        BY <2>3, <3>2, <4>2, ApplyDoc, ApplyInClock
    <3>6. /\ store' = [q \in Client |-> IF q = r THEN Apply(store[q], op)
                                        ELSE store[q]]
          /\ clock' = [q \in Client |-> IF q = r THEN op.time[1] ELSE clock[q]]
      BY <3>1, EmitStore, EmitClock
    <3>7. /\ store' = [q \in Client |-> store'[q]] /\ clock' \in [Client -> Nat]
          /\ \A q \in Client : Doc(store'[q]) /\ InClock(store'[q], clock'[q])
      BY <2>3, <3>2, <3>5, <3>6
    <3>8. /\ inbox' = inbox /\ room' = room /\ roomClock' = roomClock
          /\ loads' = loads /\ loaded' = loaded /\ apart' = apart
          /\ barred' = barred
      BY <3>1, EmitKeeps
    <3>9. edits' \in [Client -> Nat] /\ \A q \in Client : edits'[q] <= MaxEdit[q]
      BY <2>4, <3>1, EmitEdits
    <3>10. Documents'
      BY <2>3, <3>7, <3>8
    <3> QED
      BY <1>0, <2>1, <2>3, <3>4, <3>7, <3>8, <3>9, <3>10 DEF Typed
  <2>6. CASE Ticks(r)
    <3>1. PICK c \in Nat :
            /\ c >= clock[r]
            /\ clock' = [q \in Client |-> IF q = r THEN c ELSE clock[q]]
      BY <2>6, TicksIs
    <3>2. /\ store' = store /\ outbox' = outbox /\ inbox' = inbox
          /\ room' = room /\ roomClock' = roomClock
          /\ loads' = loads /\ loaded' = loaded /\ apart' = apart
          /\ barred' = barred
      BY <2>6, TicksIs
    <3>3. edits' \in [Client -> Nat] /\ \A q \in Client : edits'[q] <= MaxEdit[q]
      BY <2>4, <2>6, TicksIs
    <3>4. clock' \in [Client -> Nat]
      BY <2>3, <3>1
    <3>5. InClock(store[r], c)
      <4>1. clock[r] \in Nat /\ clock[r] <= c
        BY <2>3, <3>1
      <4> QED
        BY <2>3, <4>1, InClockLater
    <3>6. \A q \in Client : Doc(store'[q]) /\ InClock(store'[q], clock'[q])
      BY <2>3, <3>1, <3>2, <3>5
    <3>7. Documents'
      BY <2>3, <3>2, <3>6
    <3> QED
      BY <1>0, <2>1, <2>3, <3>2, <3>3, <3>4, <3>7 DEF Typed
  <2>7. CASE Takes(r)
    <3>t. PICK k \in 1 .. sent[r] : Receive(r, k)
      BY <2>7 DEF Takes
    <3>1. /\ outbox[r] \in Seq(Op) /\ Batch(r, k) \in Seq(Op)
          /\ k \in Nat /\ k <= Len(outbox[r])
          /\ room' = ApplyAll(room, Batch(r, k))
          /\ roomClock' = Observed(roomClock, Batch(r, k))
          /\ inbox' = [q \in Client |-> IF q = r THEN inbox[q]
                                        ELSE Append(inbox[q], Batch(r, k))]
          /\ outbox' = [q \in Client |-> IF q = r THEN Rest(outbox[q], k)
                                         ELSE Contested(outbox[q], Batch(r, k))]
      BY <3>t, ReceiveIs
    <3>2. barred' = (barred \/ Bars(room, Batch(r, k)))
      BY <3>t, ReceiveIs
    <3>3. /\ store' = store /\ clock' = clock /\ edits' = edits
          /\ loads' = loads /\ loaded' = loaded /\ apart' = apart
      BY <3>t, ReceiveIs
    <3>4. Doc(room') /\ roomClock' \in Nat /\ InClock(room', roomClock')
      BY <2>3, <3>1, BatchIn
    <3>5. outbox' \in [Client -> Seq(Op)]
      <4>1. \A q \in Client : Contested(outbox[q], Batch(r, k)) \in Seq(Op)
        BY <2>3, <3>1, ContestedIs
      <4>2. Rest(outbox[r], k) \in Seq(Op)
        BY <3>1, SplitIs
      <4> QED
        BY <3>1, <4>1, <4>2
    <3>6. inbox' \in [Client -> Seq(Seq(Op))]
      <4>1. \A q \in Client : Append(inbox[q], Batch(r, k)) \in Seq(Seq(Op))
        BY <2>3, <3>1, Appended
      <4> QED
        BY <2>3, <3>1, <4>1
    <3>7. barred' \in BOOLEAN
      BY <3>2, Zenon
    <3>8. Documents'
      BY <2>3, <3>3, <3>4
    <3> QED
      BY <1>0, <2>1, <2>3, <3>3, <3>4, <3>5, <3>6, <3>7, <3>8 DEF Typed
  <2>8. CASE Read(r)
    <3>1. PICK ops \in Seq(Op) : ops = Head(inbox[r])
      BY <2>8, ReadIs
    <3>2. /\ inbox[r] \in Seq(Seq(Op)) /\ inbox[r] # <<>>
          /\ inbox' = [q \in Client |-> IF q = r THEN Tail(inbox[q]) ELSE inbox[q]]
      BY <2>8, ReadIs
    <3>3. store' = [q \in Client |-> IF q = r THEN ApplyAll(store[q], Head(inbox[q]))
                                     ELSE store[q]]
      BY <2>8, ReadIs
    <3>4. clock' = [q \in Client |-> IF q = r THEN Observed(clock[q], Head(inbox[q]))
                                     ELSE clock[q]]
      BY <2>8, ReadIs
    <3>5. barred' = (barred \/ Bars(store[r], Head(inbox[r])))
      BY <2>8, ReadIs
    <3>6. /\ apart' = apart \cup {r}
          /\ outbox' = outbox /\ room' = room /\ roomClock' = roomClock
          /\ edits' = edits /\ loads' = loads /\ loaded' = loaded
      BY <2>8, ReadIs
    <3>7. /\ Doc(ApplyAll(store[r], ops)) /\ Observed(clock[r], ops) \in Nat
          /\ InClock(ApplyAll(store[r], ops), Observed(clock[r], ops))
      BY <2>3, <3>1, BatchIn
    <3>8. \A q \in Client : Doc(store'[q]) /\ InClock(store'[q], clock'[q])
      BY <2>3, <3>1, <3>3, <3>4, <3>7
    <3>9. store' = [q \in Client |-> store'[q]] /\ clock' \in [Client -> Nat]
      BY <2>3, <3>1, <3>3, <3>4, <3>7
    <3>10. inbox' \in [Client -> Seq(Seq(Op))]
      <4>1. Tail(inbox[r]) \in Seq(Seq(Op))
        BY <3>2, Shortened
      <4> QED
        BY <2>3, <3>2, <4>1
    <3>11. barred' \in BOOLEAN
      BY <3>5, Zenon
    <3>12. Documents'
      BY <2>3, <3>6, <3>8, <3>9
    <3> QED
      BY <1>0, <2>1, <2>3, <3>6, <3>9, <3>10, <3>11, <3>12 DEF Typed
  <2>9. CASE Load(r)
    <3>1. PICK unsent : unsent = Rest(outbox[r], sent[r])
      OBVIOUS
    <3>2. /\ apart' = apart \cup {r} /\ unsent \in Seq(Op)
          /\ outbox' = outbox /\ inbox' = inbox /\ room' = room
          /\ roomClock' = roomClock
          /\ edits' = edits /\ loads' = loads /\ loaded' = loaded
      BY <2>9, <3>1, LoadIs
    <3>3. store' = [q \in Client |-> IF q = r THEN ApplyAll(snap[q].file, unsent)
                                     ELSE store[q]]
      BY <2>9, <3>1, LoadIs
    <3>4. clock' = [q \in Client |-> IF q = r THEN Observed(snap[q].clock, unsent)
                                     ELSE clock[q]]
      BY <2>9, <3>1, LoadIs
    <3>5. barred' = (barred \/ Bars(snap[r].file, unsent))
      BY <2>9, <3>1, LoadIs
    <3>6. /\ Doc(snap[r].file) /\ InClock(snap[r].file, snap[r].clock)
          /\ snap[r].clock \in Nat
      BY DEF Typed, Sending, Snapped
    <3>7. /\ Doc(ApplyAll(snap[r].file, unsent))
          /\ Observed(snap[r].clock, unsent) \in Nat
          /\ InClock(ApplyAll(snap[r].file, unsent), Observed(snap[r].clock, unsent))
      BY <3>2, <3>6, BatchIn
    <3>8. \A q \in Client : Doc(store'[q]) /\ InClock(store'[q], clock'[q])
      BY <2>3, <3>3, <3>4, <3>7
    <3>9. store' = [q \in Client |-> store'[q]] /\ clock' \in [Client -> Nat]
      BY <2>3, <3>3, <3>4, <3>7
    <3>10. barred' \in BOOLEAN
      BY <3>5, Zenon
    <3>11. apart' \subseteq Client
      BY <2>3, <3>2
    <3>12. Documents'
      BY <2>3, <3>2, <3>8, <3>9
    <3> QED
      BY <1>0, <2>1, <2>3, <3>2, <3>9, <3>10, <3>11, <3>12 DEF Typed
  <2>10. CASE Flush(r)
    <3>1. /\ store' = store /\ clock' = clock
          /\ outbox' = outbox /\ inbox' = inbox
          /\ room' = room /\ roomClock' = roomClock /\ edits' = edits
          /\ loads' = loads /\ loaded' = loaded /\ apart' = apart
          /\ barred' = barred
      BY <2>10, FlushIs
    <3>2. Documents'
      BY <2>3, <3>1
    <3> QED
      BY <1>0, <2>1, <2>3, <3>1, <3>2 DEF Typed
  <2>11. CASE Greet(r)
    <3>1. /\ loads < MaxLoad /\ loads' = loads + 1
          /\ store' = store /\ clock' = clock
          /\ outbox' = outbox /\ inbox' = inbox
          /\ room' = room /\ roomClock' = roomClock /\ edits' = edits
          /\ loaded' = loaded /\ apart' = apart /\ barred' = barred
      BY <2>11, GreetIs
    <3>2. loads' \in 0 .. MaxLoad
      BY <2>3, <3>1
    <3>3. Documents'
      BY <2>3, <3>1
    <3> QED
      BY <1>0, <2>1, <2>3, <3>1, <3>2, <3>3 DEF Typed
  <2>12. CASE Welcome(r)
    <3>1. PICK c \in Nat :
            /\ clock[r] <= c
            /\ clock' = [q \in Client |-> IF q = r THEN c ELSE clock[q]]
      BY <2>12, WelcomeIs
    <3>2. /\ inbox' = [q \in Client |-> IF q = r THEN Rest(inbox[q], snap[q].missed)
                                        ELSE inbox[q]]
          /\ loaded' = loaded \cup {r}
          /\ store' = store /\ outbox' = outbox
          /\ room' = room /\ roomClock' = roomClock /\ edits' = edits
          /\ loads' = loads /\ apart' = apart /\ barred' = barred
      BY <2>12, WelcomeIs
    <3>3. clock' \in [Client -> Nat]
      BY <2>3, <3>1
    <3>4. InClock(store[r], c)
      <4>1. clock[r] \in Nat
        BY <2>3
      <4> QED
        BY <2>3, <3>1, <4>1, InClockLater
    <3>5. \A q \in Client : Doc(store'[q]) /\ InClock(store'[q], clock'[q])
      BY <2>3, <3>1, <3>2, <3>4
    <3>6. inbox' \in [Client -> Seq(Seq(Op))]
      <4>1. /\ inbox[r] \in Seq(Seq(Op)) /\ snap[r].missed \in Nat
            /\ snap[r].missed <= Len(inbox[r])
        BY DEF Typed, Sending, Snapped
      <4>2. Rest(inbox[r], snap[r].missed) \in Seq(Seq(Op))
        BY <4>1, SplitIs
      <4> QED
        BY <2>3, <3>2, <4>2
    <3>7. loaded' \subseteq Client
      BY <2>3, <3>2
    <3>8. Documents'
      BY <2>3, <3>2, <3>5
    <3> QED
      BY <1>0, <2>1, <2>3, <3>2, <3>3, <3>6, <3>7, <3>8 DEF Typed
  <2> QED
    BY <2>2, <2>5, <2>6, <2>7, <2>8, <2>9, <2>10, <2>11, <2>12
<1> QED
  BY <1>1, <1>2

LEMMA AlwaysTyped == Spec => []Typed
<1> QED
  BY TypedInit, TypedNext, PTL DEF Spec

LEMMA TypedOK == Typed => TypeOK
<1> SUFFICES ASSUME Typed PROVE TypeOK
  OBVIOUS
<1>1. ASSUME NEW s, Doc(s) PROVE Store(s)
  BY <1>1 DEF Store, Doc, Holds, NodeRec
<1>2. ASSUME NEW op \in Op PROVE OpOK(op)
  BY OpFields DEF OpOK
<1>3. Store(room) /\ InClock(room, roomClock)
  BY <1>1 DEF Typed, Documents
<1>4. ASSUME NEW r \in Client
      PROVE  /\ Store(store[r]) /\ InClock(store[r], clock[r])
             /\ Store(snap[r].file)
             /\ \A i \in 1 .. Len(outbox[r]) : OpOK(outbox[r][i])
             /\ sent[r] \in 0 .. Len(outbox[r])
             /\ snap[r].missed \in 0 .. Len(inbox[r])
             /\ edits[r] \in 0 .. MaxEdit[r]
  <2>1. Store(store[r]) /\ InClock(store[r], clock[r])
    BY <1>1 DEF Typed, Documents
  <2>2. outbox[r] \in Seq(Op)
    BY DEF Typed
  <2>3. \A i \in 1 .. Len(outbox[r]) : OpOK(outbox[r][i])
    BY <1>2, <2>2, LengthIs
  <2>4. edits[r] \in 0 .. MaxEdit[r]
    BY DEF Typed
  <2>5. Snapped(r)
    BY DEF Typed, Sending
  <2>6. Store(snap[r].file)
    BY <1>1, <2>5 DEF Snapped
  <2>7. sent[r] \in 0 .. Len(outbox[r])
    BY SentIs
  <2>8. snap[r].missed \in 0 .. Len(inbox[r])
    BY <2>5, SentIs DEF Snapped
  <2> QED
    BY <2>1, <2>3, <2>4, <2>6, <2>7, <2>8
<1>5. {session[r] : r \in Client} \subseteq used
  BY DEF Typed, Sending
<1> QED
  BY <1>3, <1>4, <1>5 DEF TypeOK, Typed

(* Every document, clock and operation keeps its type, and no document has  *)
(* a time its clock has not passed: Document.applyRemote and                *)
(* LamportClock.observe, for any number of clients, nodes, properties and   *)
(* edits.                                                                   *)
THEOREM DocTypes == Spec => []TypeOK
<1> QED
  BY AlwaysTyped, TypedOK, PTL

(* Every document is at every moment a tree below the root, in whatever     *)
(* order creations, moves, deletions, undos and snapshots meet:             *)
(* DocumentStore.canMove asked by each replica for itself is enough.        *)
THEOREM TreesStaySound == Spec => []TreeSound
<1>1. Typed => TreeSound
  <2> SUFFICES ASSUME Typed, NEW s \in {store[r] : r \in Client}
                              \cup {snap[r].file : r \in Client} \cup {room},
                      NEW n \in DOMAIN s
               PROVE  /\ Root \in Above(s, n)
                      /\ n # Root => n \notin Above(s, s[n].parent)
    BY DEF TreeSound
  <2>1. Doc(s)
    BY DEF Typed, Documents, Sending, Snapped
  <2>2. DOMAIN s \subseteq Node /\ Tree(s)
    BY <2>1 DEF Doc, Holds
  <2> QED
    BY <2>2, RootAbove, NoCycle
<1> QED
  BY <1>1, AlwaysTyped, PTL

-----------------------------------------------------------------------------
(* The history of a client that took in nothing of others.                  *)

(* Registers, and two documents with the same.                              *)
Register == Key \cup {"place"}

Alike(s, t) == /\ DOMAIN s = DOMAIN t
               /\ \A n \in DOMAIN s, k \in Register : Now(s, n, k) = Now(t, n, k)

(* A step leads from one document to the next.                              *)
Between(s, t, step) ==
  /\ step.id \in DOMAIN s \ {Root} /\ DOMAIN s = DOMAIN t
  /\ Now(s, step.id, step.key) = step.before
  /\ Now(t, step.id, step.key) = step.after
  /\ \A n \in DOMAIN s, k \in Register :
       ~(n = step.id /\ k = step.key) => Now(s, n, k) = Now(t, n, k)

(* What the file began with, and nodes that did not exist yet, which are as *)
(* if they were deleted.                                                    *)
Untouched(s) ==
  \A n \in DOMAIN s, k \in Register :
    n \in DOMAIN File \/ k = "deleted" => Now(s, n, k) = Shown(File, n, k)

(* The history u of document s: H[j] is what its first j steps leave, with  *)
(* every node there is now.                                                 *)
Tells(s, u, H) ==
  /\ DOMAIN File \subseteq DOMAIN s
  /\ \A j \in 0 .. Len(u) : DOMAIN H[j] = DOMAIN s /\ Tree(H[j])
  /\ Untouched(H[0])
  /\ \A i \in 1 .. Len(u) : Between(H[i - 1], H[i], u[i])
  /\ Alike(H[Len(u)], s)

Told == \A r \in Client : r \notin apart => \E H : Tells(store[r], undo[r], H)

(* A history grows by a step that leads from the document to the next.      *)
LEMMA TellsMore ==
  ASSUME NEW s, NEW u \in Seq(HistoryStep), NEW H, Tells(s, u, H),
         NEW t, Tree(t), NEW step \in HistoryStep, Between(s, t, step)
  PROVE  \E G : Tells(t, Append(u, step), G)
<1>1. PICK n \in Nat : n = Len(u)
  BY LengthIs
<1>2. PICK more : more = Append(u, step)
  OBVIOUS
<1>3. /\ Len(more) = n + 1 /\ more[n + 1] = step
      /\ \A i \in 1 .. n : more[i] = u[i]
  BY <1>1, <1>2, AppendProperties
<1>4. PICK G : G = [j \in 0 .. n + 1 |-> IF j <= n THEN H[j] ELSE t]
  OBVIOUS
<1>5. (\A j \in 0 .. n : G[j] = H[j]) /\ G[n + 1] = t
  BY <1>4
<1>6. DOMAIN t = DOMAIN s
  BY DEF Between
<1>7. /\ DOMAIN File \subseteq DOMAIN s
      /\ \A j \in 0 .. n : DOMAIN H[j] = DOMAIN s /\ Tree(H[j])
      /\ Untouched(H[0])
      /\ \A i \in 1 .. n : Between(H[i - 1], H[i], u[i])
      /\ Alike(H[n], s)
  BY <1>1 DEF Tells
<1>8. ASSUME NEW j \in 0 .. n + 1 PROVE DOMAIN G[j] = DOMAIN t /\ Tree(G[j])
  <2>1. j \in 0 .. n \/ j = n + 1
    OBVIOUS
  <2> QED
    BY <1>5, <1>6, <1>7, <2>1
<1>9. Untouched(G[0])
  BY <1>5, <1>7
<1>10. ASSUME NEW i \in 1 .. n + 1 PROVE Between(G[i - 1], G[i], more[i])
  <2>1. CASE i \in 1 .. n
    <3>1. i - 1 \in 0 .. n /\ i \in 0 .. n
      BY <2>1
    <3> QED
      BY <1>3, <1>5, <1>7, <2>1, <3>1
  <2>2. CASE i = n + 1
    <3>1. i - 1 = n /\ n \in 0 .. n
      BY <2>2
    <3>2. G[i - 1] = H[n] /\ G[i] = t /\ more[i] = step
      BY <1>3, <1>5, <2>2, <3>1
    <3>3. step.key \in Register
      BY StepIs DEF Register
    <3>4. Between(H[n], t, step)
      BY <1>7, <3>3 DEF Between, Alike
    <3> QED
      BY <3>2, <3>4
  <2> QED
    BY <2>1, <2>2
<1>11. Alike(G[n + 1], t)
  BY <1>5 DEF Alike
<1>12. Tells(t, more, G)
  BY <1>3, <1>6, <1>7, <1>8, <1>9, <1>10, <1>11 DEF Tells
<1> QED
  BY <1>2, <1>12

(* A node nobody knew: before its creation it is as if it was deleted.      *)
Gone(parent) ==
  [parent |-> parent, val |-> [k \in Key |-> IF k = "deleted" THEN 1 ELSE 0]]

Widened(s, id, parent) ==
  [n \in DOMAIN s \cup {id} |-> IF n = id THEN Gone(parent) ELSE s[n]]

LEMMA GoneIs ==
  ASSUME NEW parent, NEW g, g = Gone(parent)
  PROVE  /\ g.parent = parent
         /\ \A k \in Key : g.val[k] = IF k = "deleted" THEN 1 ELSE 0
  BY DEF Gone

(* Widening a document leaves what it has, and adds a deleted node.         *)
LEMMA WidenedNow ==
  ASSUME NEW s, NEW id, id \notin DOMAIN s, NEW parent, NEW w,
         w = Widened(s, id, parent)
  PROVE  /\ \A n \in DOMAIN s, k \in Register : Now(w, n, k) = Now(s, n, k)
         /\ Now(w, id, "place") = parent
         /\ \A k \in Key : Now(w, id, k) = IF k = "deleted" THEN 1 ELSE 0
<1>1. (\A n \in DOMAIN s : w[n] = s[n]) /\ w[id] = Gone(parent)
  BY DEF Widened
<1>2. \A n \in DOMAIN s, k \in Register : Now(w, n, k) = Now(s, n, k)
  BY <1>1 DEF Now
<1>3. /\ w[id].parent = parent
      /\ \A k \in Key : w[id].val[k] = IF k = "deleted" THEN 1 ELSE 0
  BY <1>1, GoneIs
<1>4. Now(w, id, "place") = parent
  BY <1>3 DEF Now
<1>5. \A k \in Key : Now(w, id, k) = w[id].val[k]
  BY DEF Now
<1> QED
  BY <1>2, <1>3, <1>4, <1>5

(* t is s with a new node.                                                  *)
Grown(s, t, id, parent) ==
  /\ DOMAIN t = DOMAIN s \cup {id}
  /\ \A n \in DOMAIN s, k \in Register : Now(t, n, k) = Now(s, n, k)
  /\ Now(t, id, "place") = parent
  /\ \A k \in Key : Now(t, id, k) = 0

(* A history grows by a creation: in all its documents the new node is as   *)
(* if deleted, and the step undeletes it.                                   *)
LEMMA TellsNew ==
  ASSUME NEW s, NEW u \in Seq(HistoryStep), NEW H, Tells(s, u, H),
         DOMAIN s \subseteq Node,
         NEW id \in Node \ DOMAIN s, NEW parent \in DOMAIN s, id # Root,
         NEW t, Tree(t), Grown(s, t, id, parent),
         NEW step \in HistoryStep, step.id = id, step.key = "deleted",
         step.before = 1, step.after = 0
  PROVE  \E G : Tells(t, Append(u, step), G)
<1>1. PICK n \in Nat : n = Len(u)
  BY LengthIs
<1>2. PICK w : w = Widened(s, id, parent)
  OBVIOUS
<1>3. PICK G : G = [j \in 0 .. n |-> Widened(H[j], id, parent)]
  OBVIOUS
<1>4. /\ DOMAIN File \subseteq DOMAIN s
      /\ \A j \in 0 .. n : DOMAIN H[j] = DOMAIN s /\ Tree(H[j])
      /\ Untouched(H[0])
      /\ \A i \in 1 .. n : Between(H[i - 1], H[i], u[i])
      /\ Alike(H[n], s)
  BY <1>1 DEF Tells
<1>5. /\ DOMAIN w = DOMAIN s \cup {id}
      /\ \A m \in DOMAIN s, k \in Register : Now(w, m, k) = Now(s, m, k)
      /\ Now(w, id, "place") = parent
      /\ \A k \in Key : Now(w, id, k) = IF k = "deleted" THEN 1 ELSE 0
  <2>1. DOMAIN w = DOMAIN s \cup {id}
    BY <1>2 DEF Widened
  <2>2. /\ \A m \in DOMAIN s, k \in Register : Now(w, m, k) = Now(s, m, k)
        /\ Now(w, id, "place") = parent
        /\ \A k \in Key : Now(w, id, k) = IF k = "deleted" THEN 1 ELSE 0
    BY <1>2, WidenedNow
  <2> QED
    BY <2>1, <2>2
<1>6. ASSUME NEW j \in 0 .. n
      PROVE  /\ DOMAIN G[j] = DOMAIN s \cup {id}
             /\ \A m \in DOMAIN s : G[j][m] = H[j][m]
             /\ \A m \in DOMAIN s, k \in Register : Now(G[j], m, k) = Now(H[j], m, k)
             /\ G[j][id].parent = parent
             /\ Now(G[j], id, "place") = parent
             /\ \A k \in Key : Now(G[j], id, k) = IF k = "deleted" THEN 1 ELSE 0
  <2>1. G[j] = Widened(H[j], id, parent)
    BY <1>3
  <2>2. id \notin DOMAIN H[j] /\ DOMAIN H[j] = DOMAIN s
    BY <1>4
  <2>3. /\ DOMAIN G[j] = DOMAIN s \cup {id}
        /\ \A m \in DOMAIN s : G[j][m] = H[j][m]
        /\ G[j][id] = Gone(parent)
    BY <2>1, <2>2 DEF Widened
  <2>4. G[j][id].parent = parent
    BY <2>3, GoneIs
  <2>5. /\ \A m \in DOMAIN H[j], k \in Register : Now(G[j], m, k) = Now(H[j], m, k)
        /\ Now(G[j], id, "place") = parent
        /\ \A k \in Key : Now(G[j], id, k) = IF k = "deleted" THEN 1 ELSE 0
    BY <2>1, <2>2, WidenedNow
  <2> QED
    BY <2>2, <2>3, <2>5, <2>4
<1>7. ASSUME NEW j \in 0 .. n PROVE Tree(G[j])
  <2>1. /\ DOMAIN H[j] \subseteq Node /\ Tree(H[j]) /\ id \in Node \ DOMAIN H[j]
        /\ DOMAIN G[j] = DOMAIN H[j] \cup {id} /\ G[j][id].parent \in DOMAIN H[j]
        /\ \A m \in DOMAIN H[j] : G[j][m].parent = H[j][m].parent
    BY <1>4, <1>6
  <2> QED
    BY <2>1, CreateTree
<1>8. Untouched(G[0])
  <2> SUFFICES ASSUME NEW m \in DOMAIN G[0], NEW k \in Register,
                      m \in DOMAIN File \/ k = "deleted"
               PROVE  Now(G[0], m, k) = Shown(File, m, k)
    BY DEF Untouched
  <2>1. 0 \in 0 .. n
    OBVIOUS
  <2>2. CASE m \in DOMAIN s
    BY <1>4, <1>6, <2>1, <2>2 DEF Untouched
  <2>3. CASE m = id
    <3>1. m \notin DOMAIN File
      BY <1>4, <2>3
    <3>2. k = "deleted" /\ k \in Key
      BY <3>1
    <3> QED
      BY <1>6, <2>1, <2>3, <3>1, <3>2 DEF Shown
  <2> QED
    BY <1>6, <2>1, <2>2, <2>3
<1>9. ASSUME NEW i \in 1 .. n PROVE Between(G[i - 1], G[i], u[i])
  <2>1. i - 1 \in 0 .. n /\ i \in 0 .. n
    OBVIOUS
  <2>2. u[i].key \in Register
    BY <1>1, LengthIs, StepIs DEF Register
  <2>3. Between(H[i - 1], H[i], u[i])
    BY <1>4
  <2>4. u[i].id \in DOMAIN s \ {Root}
    BY <1>4, <2>1, <2>3 DEF Between
  <2>5. ASSUME NEW m \in DOMAIN G[i - 1], NEW k \in Register,
               ~(m = u[i].id /\ k = u[i].key)
        PROVE  Now(G[i - 1], m, k) = Now(G[i], m, k)
    <3>1. CASE m \in DOMAIN s
      BY <1>4, <1>6, <2>1, <2>3, <2>5, <3>1 DEF Between
    <3>2. CASE m = id
      BY <1>6, <2>1, <3>2 DEF Register
    <3> QED
      BY <1>6, <2>1, <3>1, <3>2
  <2>6. /\ Now(G[i - 1], u[i].id, u[i].key) = u[i].before
        /\ Now(G[i], u[i].id, u[i].key) = u[i].after
    BY <1>6, <2>1, <2>2, <2>3, <2>4 DEF Between
  <2>7. DOMAIN G[i - 1] = DOMAIN s \cup {id} /\ DOMAIN G[i] = DOMAIN s \cup {id}
    BY <1>6, <2>1
  <2>8. u[i].id \in DOMAIN G[i - 1] \ {Root} /\ DOMAIN G[i - 1] = DOMAIN G[i]
    BY <2>4, <2>7
  <2> QED
    BY <2>5, <2>6, <2>8 DEF Between
<1>10. Alike(G[n], w)
  <2>1. n \in 0 .. n
    OBVIOUS
  <2>2. ASSUME NEW m \in DOMAIN G[n], NEW k \in Register
        PROVE  Now(G[n], m, k) = Now(w, m, k)
    <3>1. CASE m \in DOMAIN s
      BY <1>4, <1>5, <1>6, <2>1, <3>1 DEF Alike
    <3>2. CASE m = id
      BY <1>5, <1>6, <2>1, <3>2 DEF Register
    <3> QED
      BY <1>6, <2>1, <3>1, <3>2
  <2> QED
    BY <1>5, <1>6, <2>1, <2>2 DEF Alike
<1>11. Tells(w, u, G)
  BY <1>1, <1>4, <1>5, <1>6, <1>7, <1>8, <1>9, <1>10 DEF Tells
<1>12. Between(w, t, step)
  <2>1. "deleted" \in Key /\ "place" \notin Key
    OBVIOUS
  <2>2. ASSUME NEW m \in DOMAIN w, NEW k \in Register,
               ~(m = step.id /\ k = step.key)
        PROVE  Now(w, m, k) = Now(t, m, k)
    <3>1. CASE m \in DOMAIN s
      BY <1>5, <3>1 DEF Grown
    <3>2. CASE m = id
      BY <1>5, <2>2, <3>2 DEF Register, Grown
    <3> QED
      BY <1>5, <3>1, <3>2
  <2> QED
    BY <1>5, <2>1, <2>2 DEF Between, Grown
<1> QED
  BY <1>11, <1>12, TellsMore
(* The last step can always be undone: its register is as it left it, and   *)
(* where the node was before the step there is no cycle.                    *)
LEMMA TellsTop ==
  ASSUME NEW s, Doc(s), NEW u \in Seq(HistoryStep), u # <<>>, NEW H, Tells(s, u, H)
  PROVE  Replayable(s, u[Len(u)], u[Len(u)].after, u[Len(u)].before)
<1>1. PICK n \in Nat : n = Len(u) /\ n \in 1 .. n
  <2>1. PICK n \in Nat : n = Len(u)
    BY LengthIs
  <2>2. n # 0
    BY <2>1, EmptySeq
  <2> QED
    BY <2>1, <2>2
<1>2. PICK step \in HistoryStep : step = u[n]
  BY <1>1, LengthIs
<1>3. PICK g : g = H[n - 1]
  OBVIOUS
<1>4. /\ DOMAIN g = DOMAIN s /\ Tree(g) /\ Between(g, H[n], step) /\ Alike(H[n], s)
  <2>1. n - 1 \in 0 .. n
    BY <1>1
  <2> QED
    BY <1>1, <1>2, <1>3, <2>1 DEF Tells
<1>5. /\ step.id \in DOMAIN s \ {Root} /\ step.key \in Register
      /\ Now(g, step.id, step.key) = step.before
  BY <1>4, StepIs DEF Between, Register
<1>6. Matches(s, step, step.after)
  BY <1>4, <1>5 DEF Between, Alike, Matches
<1>7. ASSUME step.key = "place" PROVE CanMove(s, step.id, step.before)
  <2>1. DOMAIN s \subseteq Node /\ Tree(s)
    BY DEF Doc, Holds
  <2>2. step.before = g[step.id].parent /\ step.before \in DOMAIN s
    <3>1. g[step.id].parent = step.before
      BY <1>5, <1>7 DEF Now
    <3> QED
      BY <1>4, <1>5, <3>1 DEF Tree
  <2>3. ASSUME NEW m \in DOMAIN s, m # step.id PROVE s[m].parent = g[m].parent
    <3>1. "place" \in Register
      BY DEF Register
    <3>2. Now(g, m, "place") = Now(H[n], m, "place")
      BY <1>4, <2>3, <3>1 DEF Between
    <3>3. Now(H[n], m, "place") = Now(s, m, "place")
      BY <1>4, <3>1 DEF Between, Alike
    <3> QED
      BY <3>2, <3>3 DEF Now
  <2>4. PICK A : A = Above(g, step.before)
    OBVIOUS
  <2>5. Parents(g) /\ Parents(s) /\ step.before \in Node \cup {NoNode}
    BY <1>4, <2>1, <2>2, TreeParents
  <2>6. step.before \in A /\ Up(g, A)
    BY <2>4, <2>5, AboveIs
  <2>7. step.id \notin A
    BY <1>4, <1>5, <2>1, <2>2, <2>4, NoCycle
  <2>8. Up(s, A)
    BY <1>4, <2>3, <2>6, <2>7 DEF Up
  <2>9. Above(s, step.before) \subseteq A
    BY <2>5, <2>6, <2>8, AboveIs
  <2> QED
    BY <1>5, <2>2, <2>7, <2>9 DEF CanMove
<1> QED
  BY <1>1, <1>2, <1>6, <1>7 DEF Replayable

(* Undoing it leaves what the history before it tells.                      *)
LEMMA TellsLess ==
  ASSUME NEW s, NEW u \in Seq(HistoryStep), u # <<>>, NEW H, Tells(s, u, H),
         NEW t, NEW step, step = u[Len(u)], DOMAIN t = DOMAIN s,
         Now(t, step.id, step.key) = step.before,
         \A n \in DOMAIN s, k \in Register :
           ~(n = step.id /\ k = step.key) => Now(t, n, k) = Now(s, n, k)
  PROVE  Tells(t, SubSeq(u, 1, Len(u) - 1), H)
<1>1. PICK n \in Nat : n = Len(u) /\ n \in 1 .. n
  <2>1. PICK n \in Nat : n = Len(u)
    BY LengthIs
  <2>2. n # 0
    BY <2>1, EmptySeq
  <2> QED
    BY <2>1, <2>2
<1>2. PICK less : less = SubSeq(u, 1, n - 1)
  OBVIOUS
<1>3. Len(less) = n - 1 /\ \A i \in 1 .. n - 1 : less[i] = u[i]
  BY <1>1, <1>2, SubSeqProperties
<1>4. /\ DOMAIN File \subseteq DOMAIN s
      /\ \A j \in 0 .. n : DOMAIN H[j] = DOMAIN s /\ Tree(H[j])
      /\ Untouched(H[0])
      /\ \A i \in 1 .. n : Between(H[i - 1], H[i], u[i])
      /\ Alike(H[n], s)
  BY <1>1 DEF Tells
<1>5. Alike(H[n - 1], t)
  <2>1. n - 1 \in 0 .. n /\ n \in 0 .. n
    BY <1>1
  <2>2. DOMAIN H[n - 1] = DOMAIN t
    BY <1>4, <2>1
  <2>3. ASSUME NEW m \in DOMAIN s, NEW k \in Register
        PROVE  Now(H[n - 1], m, k) = Now(t, m, k)
    <3>1. Between(H[n - 1], H[n], step)
      BY <1>1, <1>4
    <3>2. CASE m = step.id /\ k = step.key
      BY <3>1, <3>2 DEF Between
    <3>3. CASE ~(m = step.id /\ k = step.key)
      BY <1>4, <2>1, <3>1, <3>3 DEF Between, Alike
    <3> QED
      BY <3>2, <3>3
  <2> QED
    BY <1>4, <2>1, <2>2, <2>3 DEF Alike
<1>6. (\A j \in 0 .. n - 1 : j \in 0 .. n) /\ (\A i \in 1 .. n - 1 : i \in 1 .. n)
  OBVIOUS
<1>7. Tells(t, less, H)
  BY <1>3, <1>4, <1>5, <1>6 DEF Tells
<1> QED
  BY <1>1, <1>2, <1>7

(* From the last step on a register, or from the beginning, a register      *)
(* stays as it is.                                                          *)
LEMMA TellsSince ==
  ASSUME NEW s, NEW u \in Seq(HistoryStep), NEW H, Tells(s, u, H),
         NEW n \in DOMAIN s, NEW k \in Register, NEW a \in 0 .. Len(u),
         \A i \in a + 1 .. Len(u) : ~(u[i].id = n /\ u[i].key = k)
  PROVE  Now(H[a], n, k) = Now(s, n, k)
<1>1. PICK m \in Nat : m = Len(u)
  BY LengthIs
<1>2. PICK S : S = {j \in Nat : a + j <= m => Now(H[a + j], n, k) = Now(H[a], n, k)}
  OBVIOUS
<1>3. a \in Nat /\ a <= m
  BY <1>1
<1>4. 0 \in S
  BY <1>2, <1>3
<1>5. ASSUME NEW j \in Nat, j \in S PROVE j + 1 \in S
  <2> SUFFICES ASSUME a + (j + 1) <= m
               PROVE  Now(H[a + (j + 1)], n, k) = Now(H[a], n, k)
    BY <1>2
  <2>1. PICK i \in 1 .. m : i = a + (j + 1) /\ i - 1 = a + j
    BY <1>3
  <2>2. i \in a + 1 .. Len(u) /\ i - 1 \in 0 .. m /\ i - 1 <= m
    BY <1>1, <1>3, <2>1
  <2>3. Now(H[i - 1], n, k) = Now(H[a], n, k)
    BY <1>2, <1>5, <2>1, <2>2
  <2>4. DOMAIN H[i - 1] = DOMAIN s /\ Between(H[i - 1], H[i], u[i])
    BY <1>1, <2>1, <2>2 DEF Tells
  <2>5. Now(H[i - 1], n, k) = Now(H[i], n, k)
    BY <2>2, <2>4 DEF Between
  <2> QED
    BY <2>1, <2>3, <2>5
<1>6. Nat \subseteq S
  BY <1>4, <1>5, AllNumbers
<1>7. PICK j \in Nat : j = m - a /\ a + j = m
  BY <1>3
<1>8. Now(H[m], n, k) = Now(H[a], n, k)
  <2>1. j \in S
    BY <1>6, <1>7
  <2>2. Now(H[a + j], n, k) = Now(H[a], n, k)
    BY <1>2, <1>3, <1>7, <2>1
  <2> QED
    BY <1>7, <2>2
<1>9. Alike(H[m], s) /\ DOMAIN H[m] = DOMAIN s
  BY <1>1 DEF Tells, Alike
<1> QED
  BY <1>8, <1>9 DEF Alike

(* What a history says of a register, and that it is so.                    *)
Says(s, u, n, k) ==
  LET steps == {i \in 1 .. Len(u) : u[i].id = n /\ u[i].key = k}
  IN IF steps # {} THEN Now(s, n, k) = u[Max(steps)].after
     ELSE n \in DOMAIN File \/ k = "deleted"
            => Now(s, n, k) = Shown(File, n, k)

LEMMA TellsShows ==
  ASSUME NEW s, NEW u \in Seq(HistoryStep), NEW H, Tells(s, u, H),
         NEW n \in DOMAIN s, NEW k \in Register
  PROVE  Says(s, u, n, k)
<1> DEFINE S == {i \in 1 .. Len(u) : u[i].id = n /\ u[i].key = k}
<1>1. PICK m \in Nat : m = Len(u)
  BY LengthIs
<1>2. ASSUME S # {} PROVE Now(s, n, k) = u[Max(S)].after
  <2>1. S \in SUBSET Nat /\ \A x \in S : x <= m
    BY <1>1
  <2>2. PICK a \in Nat : a = Max(S) /\ a \in S /\ \A x \in S : x <= a
    <3>1. Max(S) \in S /\ \A x \in S : x <= Max(S)
      BY <1>2, <2>1, MaxIs
    <3> QED
      BY <2>1, <3>1
  <2>3. a \in 1 .. m /\ u[a].id = n /\ u[a].key = k
    BY <1>1, <2>2
  <2>4. \A i \in a + 1 .. Len(u) : ~(u[i].id = n /\ u[i].key = k)
    BY <1>1, <2>2, <2>3
  <2>5. Now(H[a], n, k) = Now(s, n, k)
    BY <1>1, <2>3, <2>4, TellsSince
  <2>6. Between(H[a - 1], H[a], u[a])
    BY <1>1, <2>3 DEF Tells
  <2> QED
    BY <2>2, <2>3, <2>5, <2>6 DEF Between
<1>3. ASSUME S = {}, n \in DOMAIN File \/ k = "deleted"
      PROVE  Now(s, n, k) = Shown(File, n, k)
  <2>1. 0 \in 0 .. m /\ 0 + 1 = 1
    BY <1>1
  <2>2. \A i \in 0 + 1 .. Len(u) : ~(u[i].id = n /\ u[i].key = k)
    BY <1>3, <2>1
  <2>3. Now(H[0], n, k) = Now(s, n, k)
    BY <1>1, <2>1, <2>2, TellsSince
  <2>4. DOMAIN H[0] = DOMAIN s /\ Untouched(H[0])
    BY <1>1, <2>1 DEF Tells
  <2> QED
    BY <1>3, <2>3, <2>4 DEF Untouched
<1> QED
  BY <1>2, <1>3 DEF Says

(* What an operation of a client leaves in its document.                    *)
LEMMA WriteShows ==
  ASSUME Typed, NEW r \in Client, NEW op, Own(r, op), op.kind # "create",
         NEW t, t = Apply(store[r], op)
  PROVE  /\ DOMAIN t = DOMAIN store[r] /\ op.id \in DOMAIN store[r] \ {Root}
         /\ Now(t, op.id, op.key) = op.to
         /\ \A n \in DOMAIN store[r], k \in Register :
              ~(n = op.id /\ k = op.key) => Now(t, n, k) = Now(store[r], n, k)
<1>1. PICK s : s = store[r]
  OBVIOUS
<1>2. PICK c \in Nat : c = clock[r]
  BY DEF Typed
<1>3. Holds(s) /\ InClock(s, c)
  BY <1>1, <1>2 DEF Typed, Documents, Doc
<1>4. op \in Op /\ op.id \in DOMAIN s /\ op.time[1] > c /\ op.time \in Time
  BY <1>1, <1>2, OpFields DEF Own
<1>5. op.time[1] \in Nat /\ op.id # Root
  BY <1>4, OpFields, StampCounts
<1>6. CASE op.kind = "set"
  <2>1. op.key \in Key /\ op.key # "place"
    BY <1>4, <1>6, OpFields
  <2>2. s[op.id].time[op.key][1] <= c /\ s[op.id].time[op.key] \in Time
    BY <1>3, <1>4, <2>1 DEF InClock, Holds, NodeRec
  <2>3. ~Before(op.time, s[op.id].time[op.key])
    <3>1. s[op.id].time[op.key][1] \in Nat
      BY <2>2, StampCounts
    <3> QED
      BY <1>2, <1>4, <1>5, <2>2, <3>1 DEF Before
  <2>4. t = Set(s, op)
    BY <1>1, <1>6, ApplyIs
  <2>5. /\ DOMAIN t = DOMAIN s /\ \A n \in DOMAIN s \ {op.id} : t[n] = s[n]
        /\ t[op.id].parent = s[op.id].parent
        /\ \A k \in Key : t[op.id].val[k] =
                            IF k = op.key THEN op.to ELSE s[op.id].val[k]
    BY <1>3, <1>4, <1>6, <2>3, <2>4, SetIs
  <2>6. Now(t, op.id, op.key) = op.to
    BY <2>1, <2>5 DEF Now
  <2>7. ASSUME NEW n \in DOMAIN s, NEW k \in Register, ~(n = op.id /\ k = op.key)
        PROVE  Now(t, n, k) = Now(s, n, k)
    BY <2>1, <2>5, <2>7 DEF Now, Register
  <2> QED
    BY <1>1, <1>4, <1>5, <2>5, <2>6, <2>7
<1>7. CASE op.kind = "move"
  <2>1. op.key = "place" /\ CanMove(s, op.id, op.to)
    BY <1>1, <1>4, <1>7, OpFields DEF Own
  <2>2. s[op.id].placeTime[1] <= c /\ s[op.id].placeTime \in Time
    BY <1>3, <1>4 DEF InClock, Holds, NodeRec
  <2>3. ~Late(s, op)
    <3>1. s[op.id].placeTime[1] \in Nat
      BY <2>2, StampCounts
    <3> QED
      BY <1>2, <1>4, <1>5, <2>2, <3>1 DEF Late, Before
  <2>4. t = Move(s, op)
    BY <1>1, <1>7, ApplyIs
  <2>5. /\ DOMAIN t = DOMAIN s /\ \A n \in DOMAIN s \ {op.id} : t[n] = s[n]
        /\ t[op.id].parent = op.to /\ t[op.id].val = s[op.id].val
    BY <1>3, <1>4, <1>7, <2>1, <2>3, <2>4, MoveIs
  <2>6. Now(t, op.id, op.key) = op.to
    BY <2>1, <2>5 DEF Now
  <2>7. ASSUME NEW n \in DOMAIN s, NEW k \in Register, ~(n = op.id /\ k = op.key)
        PROVE  Now(t, n, k) = Now(s, n, k)
    BY <2>1, <2>5, <2>7 DEF Now, Register
  <2> QED
    BY <1>1, <1>4, <1>5, <2>5, <2>6, <2>7
<1> QED
  BY <1>4, <1>6, <1>7, OpFields

(* A creation adds a node and leaves every other as it is.                  *)
LEMMA Grows ==
  ASSUME Typed, NEW r \in Client, NEW op, Own(r, op), op.kind = "create",
         NEW t, t = Apply(store[r], op)
  PROVE  /\ op.id \in Node \ DOMAIN store[r] /\ op.id # Root
         /\ op.to \in DOMAIN store[r] /\ Grown(store[r], t, op.id, op.to)
<1>1. PICK s : s = store[r]
  OBVIOUS
<1>2. /\ op \in Op /\ op.id \notin DOMAIN s /\ op.to \in DOMAIN s
      /\ DOMAIN s \subseteq Node
  BY <1>1 DEF Own, Fresh, Typed, Documents, Doc, Holds
<1>3. op.id \in Node \ {Root} /\ op.time \in Time
  BY <1>2, OpFields
<1>4. t = Create(s, op)
  BY <1>1, ApplyIs
<1>5. /\ DOMAIN t = DOMAIN s \cup {op.id} /\ \A n \in DOMAIN s : t[n] = s[n]
      /\ t[op.id] = Record(op.to, op.time)
  BY <1>2, <1>4, CreateIs
<1>6. op.to \in Node \cup {NoNode}
  BY <1>2
<1>7. t[op.id].parent = op.to /\ \A k \in Key : t[op.id].val[k] = 0
  BY <1>3, <1>5, <1>6, RecordIs
<1>8. \A n \in DOMAIN s, k \in Register : Now(t, n, k) = Now(s, n, k)
  BY <1>5 DEF Now
<1>9. Now(t, op.id, "place") = op.to /\ \A k \in Key : Now(t, op.id, k) = 0
  BY <1>7 DEF Now
<1>10. Grown(s, t, op.id, op.to)
  BY <1>5, <1>8, <1>9 DEF Grown
<1> QED
  BY <1>1, <1>2, <1>3, <1>10

(* A step of r changes the document and the history of r alone, and what    *)
(* took in others' work before it, is apart after it.                       *)
LEMMA OthersRemember ==
  ASSUME Typed, NEW r \in Client, Remembers(r), NEW q \in Client, q \notin apart'
  PROVE  q \notin apart /\ (q # r => store'[q] = store[q] /\ undo'[q] = undo[q])
<1>1. undo \in [Client -> Seq(HistoryStep)]
  BY DEF Typed, Histories
<1>2. CASE Created(r) \/ Wrote(r) \/ Undid(r)
  <2>1. PICK op : Own(r, op) /\ Emit(r, op)
    BY <1>2 DEF Created, Wrote, Undid
  <2>2. /\ store' = [p \in Client |-> IF p = r THEN Apply(store[p], op) ELSE store[p]]
        /\ apart' = apart
    BY <2>1, EmitStore, EmitKeeps
  <2>3. q # r => undo'[q] = undo[q]
    BY <1>1, <1>2 DEF Created, Wrote, Undid
  <2> QED
    BY <2>2, <2>3
<1>3. CASE UndoNothing(r)
  BY <1>1, <1>3 DEF UndoNothing
<1>4. CASE Read(r)
  <2>1. undo' = undo
    BY <1>4 DEF Read
  <2>2. q \notin apart /\ (q # r => store'[q] = store[q])
    BY <1>4, ReadIs
  <2> QED
    BY <2>1, <2>2
<1>5. CASE Load(r)
  <2>1. undo' = [undo EXCEPT ![r] = <<>>]
    BY <1>5 DEF Load, NewDocument
  <2>2. q \notin apart /\ (q # r => store'[q] = store[q])
    BY <1>5, LoadIs
  <2> QED
    BY <1>1, <2>1, <2>2
<1>6. CASE UNCHANGED <<store, undo, apart>>
  BY <1>6
<1> QED
  BY <1>2, <1>3, <1>4, <1>5, <1>6 DEF Remembers

(* A step of a client keeps its history true: created nodes become as if    *)
(* deleted before, a write is a step more, an undo takes back the last one. *)
LEMMA ToldOwn ==
  ASSUME Typed, Told, NEW r \in Client, Remembers(r), r \notin apart'
  PROVE  \E G : Tells(store'[r], undo'[r], G)
<1>1. PICK s : s = store[r]
  OBVIOUS
<1>2. PICK u \in Seq(HistoryStep) : u = undo[r]
  BY DEF Typed, Histories
<1>3. Doc(s) /\ DOMAIN s \subseteq Node /\ Tree(s)
  BY <1>1 DEF Typed, Documents, Doc, Holds
<1>4. r \notin apart
  BY OthersRemember
<1>5. PICK H : Tells(s, u, H)
  BY <1>1, <1>2, <1>4 DEF Told
<1>6. undo \in [Client -> Seq(HistoryStep)]
  BY DEF Typed, Histories
<1>7. CASE Created(r)
  <2>1. PICK op : /\ Own(r, op) /\ Emit(r, op) /\ op.kind = "create"
                  /\ undo' = [undo EXCEPT ![r] =
                       Append(@, [id |-> op.id, key |-> "deleted",
                                  before |-> 1, after |-> 0])]
    BY <1>7 DEF Created
  <2>2. PICK t : t = Apply(s, op)
    OBVIOUS
  <2>3. /\ op.id \in Node \ DOMAIN s /\ op.id # Root
        /\ op.to \in DOMAIN s /\ Grown(s, t, op.id, op.to)
    BY <1>1, <2>1, <2>2, Grows
  <2>4. Tree(t)
    BY <1>3, <2>1, <2>2, ApplyDoc DEF Own, Doc
  <2>5. PICK step \in HistoryStep :
          /\ step = [id |-> op.id, key |-> "deleted", before |-> 1, after |-> 0]
          /\ step.id = op.id /\ step.key = "deleted"
          /\ step.before = 1 /\ step.after = 0
    <3>1. "deleted" \in Key /\ 0 \in 0 .. 1 /\ 1 \in 0 .. 1 /\ op.id \in Node \ {Root}
      BY <2>3
    <3>2. [id |-> op.id, key |-> "deleted", before |-> 1, after |-> 0] \in HistoryStep
      BY <3>1, NewStep
    <3> QED
      BY <3>2
  <2>6. \E G : Tells(t, Append(u, step), G)
    BY <1>3, <1>5, <2>3, <2>4, <2>5, TellsNew
  <2>7. store'[r] = t
    <3>1. Own(r, op) /\ Emit(r, op)
      BY <2>1
    <3>2. store' = [q \in Client |-> IF q = r THEN Apply(store[q], op) ELSE store[q]]
      BY <3>1, EmitStore
    <3> QED
      BY <1>1, <2>2, <3>2
  <2>8. undo'[r] = Append(u, step)
    BY <1>2, <1>6, <2>1, <2>5
  <2> QED
    BY <2>6, <2>7, <2>8
<1>8. CASE Wrote(r)
  <2>1. PICK op, step :
          /\ Own(r, op) /\ Emit(r, op) /\ op.kind # "create" /\ step \in HistoryStep
          /\ op.id = step.id /\ op.key = step.key /\ op.to = step.after
          /\ Now(store[r], step.id, step.key) = step.before
          /\ undo' = [undo EXCEPT ![r] = Append(@, step)]
    BY <1>8 DEF Wrote
  <2>2. PICK t : t = Apply(s, op)
    OBVIOUS
  <2>3. /\ DOMAIN t = DOMAIN s /\ op.id \in DOMAIN s \ {Root}
        /\ Now(t, op.id, op.key) = op.to
        /\ \A n \in DOMAIN s, k \in Register :
             ~(n = op.id /\ k = op.key) => Now(t, n, k) = Now(s, n, k)
    BY <1>1, <2>1, <2>2, WriteShows
  <2>4. Tree(t)
    BY <1>3, <2>1, <2>2, ApplyDoc DEF Own, Doc
  <2>5. Between(s, t, step)
    BY <1>1, <2>1, <2>3 DEF Between
  <2>6. \E G : Tells(t, Append(u, step), G)
    BY <1>5, <2>1, <2>4, <2>5, TellsMore
  <2>7. store'[r] = t
    <3>1. Own(r, op) /\ Emit(r, op)
      BY <2>1
    <3>2. store' = [q \in Client |-> IF q = r THEN Apply(store[q], op) ELSE store[q]]
      BY <3>1, EmitStore
    <3> QED
      BY <1>1, <2>2, <3>2
  <2>8. undo'[r] = Append(u, step)
    BY <1>2, <1>6, <2>1
  <2> QED
    BY <2>6, <2>7, <2>8
<1>9. CASE Undid(r)
  <2>1. PICK op, i :
          /\ Own(r, op) /\ Emit(r, op) /\ op.kind # "create"
          /\ i \in Undoable(r) /\ \A j \in Undoable(r) : j <= i
          /\ op.id = undo[r][i].id /\ op.key = undo[r][i].key
          /\ op.to = undo[r][i].before
          /\ undo' = [undo EXCEPT ![r] = SubSeq(@, 1, i - 1)]
    BY <1>9 DEF Undid
  <2>2. PICK n \in Nat : n = Len(u)
    BY LengthIs
  <2>3. i \in 1 .. n
    BY <1>2, <2>1, <2>2 DEF Undoable
  <2>4. u # <<>>
    BY <2>2, <2>3, EmptySeq
  <2>5. i = n
    <3>1. Replayable(s, u[n], u[n].after, u[n].before)
      BY <1>3, <1>5, <2>2, <2>4, TellsTop
    <3>2. n \in Undoable(r)
      BY <1>1, <1>2, <2>2, <2>3, <3>1 DEF Undoable
    <3> QED
      BY <2>1, <2>3, <3>2
  <2>6. PICK step : step = u[Len(u)]
    OBVIOUS
  <2>7. op.id = step.id /\ op.key = step.key /\ op.to = step.before
    BY <1>2, <2>1, <2>2, <2>5, <2>6
  <2>8. PICK t : t = Apply(s, op)
    OBVIOUS
  <2>9. /\ DOMAIN t = DOMAIN s /\ Now(t, op.id, op.key) = op.to
        /\ \A m \in DOMAIN s, k \in Register :
             ~(m = op.id /\ k = op.key) => Now(t, m, k) = Now(s, m, k)
    BY <1>1, <2>1, <2>8, WriteShows
  <2>10. Tells(t, SubSeq(u, 1, Len(u) - 1), H)
    BY <1>5, <2>4, <2>6, <2>7, <2>9, TellsLess
  <2>11. store'[r] = t
    <3>1. Own(r, op) /\ Emit(r, op)
      BY <2>1
    <3>2. store' = [q \in Client |-> IF q = r THEN Apply(store[q], op) ELSE store[q]]
      BY <3>1, EmitStore
    <3> QED
      BY <1>1, <2>8, <3>2
  <2>12. undo'[r] = SubSeq(u, 1, Len(u) - 1)
    BY <1>2, <1>6, <2>1, <2>2, <2>5
  <2> QED
    BY <2>10, <2>11, <2>12
<1>10. ~UndoNothing(r)
  <2> SUFFICES ASSUME UndoNothing(r) PROVE FALSE
    OBVIOUS
  <2>1. u # <<>> /\ Undoable(r) = {}
    BY <1>2 DEF UndoNothing
  <2>2. PICK n \in Nat : n = Len(u) /\ n # 0
    BY <2>1, LengthIs, EmptySeq
  <2>3. Replayable(s, u[n], u[n].after, u[n].before)
    BY <1>3, <1>5, <2>1, <2>2, TellsTop
  <2>4. n \in Undoable(r)
    BY <1>1, <1>2, <2>2, <2>3 DEF Undoable
  <2> QED
    BY <2>1, <2>4
<1>11. ~Read(r) /\ ~Load(r)
  BY DEF Read, Load, NewDocument
<1>12. CASE UNCHANGED <<store, undo, apart>>
  BY <1>1, <1>2, <1>5, <1>12
<1> QED
  BY <1>7, <1>8, <1>9, <1>10, <1>11, <1>12 DEF Remembers

(* Told holds at first, and every step keeps it.                            *)
LEMMA ToldInit == Init => Told
<1> SUFFICES ASSUME Init, NEW r \in Client
             PROVE  \E H : Tells(store[r], undo[r], H)
  BY DEF Told
<1>1. store[r] = File /\ undo[r] = <<>>
  BY DEF Init
<1>2. PICK H : H = [j \in {0} |-> File]
  OBVIOUS
<1>3. H[0] = File /\ Len(<<>>) = 0
  BY <1>2
<1>4. Tree(File)
  BY FileDoc DEF Doc
<1>5. Untouched(File)
  BY DEF Untouched, Shown
<1>6. Alike(File, File)
  BY DEF Alike
<1>7. Tells(File, <<>>, H)
  BY <1>3, <1>4, <1>5, <1>6 DEF Tells
<1> QED
  BY <1>1, <1>7

LEMMA ToldNext == Typed /\ Told /\ [Next]_vars => Told'
<1> SUFFICES ASSUME Typed, Told, [Next]_vars PROVE Told'
  OBVIOUS
<1>1. CASE UNCHANGED vars
  BY <1>1 DEF Told, vars, clientVars, obsVars
<1>2. CASE Next
  <2>1. PICK r \in Client : Remembers(r)
    BY <1>2, Acts
  <2>2. ASSUME NEW q \in Client, q \notin apart'
        PROVE  \E G : Tells(store'[q], undo'[q], G)
    <3>1. CASE q = r
      BY <2>1, <2>2, <3>1, ToldOwn
    <3>2. CASE q # r
      <4>1. q \notin apart /\ store'[q] = store[q] /\ undo'[q] = undo[q]
        BY <2>1, <2>2, <3>2, OthersRemember
      <4> QED
        BY <4>1 DEF Told
    <3> QED
      BY <3>1, <3>2
  <2> QED
    BY <2>2 DEF Told
<1> QED
  BY <1>1, <1>2

(* What is told of the clients that are not apart is what they show.        *)
LEMMA ToldShows == Typed /\ Told => HistoryTellsTheFile
<1> SUFFICES ASSUME Typed, Told, NEW r \in Client \ apart,
                    NEW n \in DOMAIN store[r], NEW k \in Register
             PROVE  Says(store[r], undo[r], n, k)
  BY Zenon DEF HistoryTellsTheFile, Register, Says
<1>1. undo[r] \in Seq(HistoryStep)
  BY DEF Typed, Histories
<1>2. PICK H : Tells(store[r], undo[r], H)
  BY DEF Told
<1> QED
  BY <1>1, <1>2, TellsShows

(* The history of a client that nothing of others has reached is always     *)
(* told.                                                                    *)
LEMMA AlwaysTold == Spec => []Told
<1>1. Spec => []Typed
  BY AlwaysTyped
<1>2. Init => Told
  BY ToldInit
<1>3. Typed /\ Told /\ [Next]_vars => Told'
  BY ToldNext
<1> QED
  BY <1>1, <1>2, <1>3, PTL DEF Spec

(* As long as nothing of others has arrived at a client, its undo history   *)
(* tells its file: each register holds what the last step on it left, or    *)
(* what the file began with (Store.commit, undo and redo of store.ts).      *)
THEOREM HistoryTold == Spec => []HistoryTellsTheFile
<1>1. Spec => []Typed /\ []Told
  BY AlwaysTyped, AlwaysTold
<1>2. Typed /\ Told => HistoryTellsTheFile
  BY ToldShows
<1> QED
  BY <1>1, <1>2, PTL
=============================================================================
