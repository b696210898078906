-------------------------- MODULE DocMerge_proofs ---------------------------
(***************************************************************************)
(* Proofs about DocStore: replicas that got the same operations agree, in  *)
(* whatever order these arrived, and an edit made by someone who sees all  *)
(* edits of its register is not lost.                                      *)
(*                                                                         *)
(* For each register only the latest time matters, so an agreement of      *)
(* values is an agreement of times (Level) with one value for each time    *)
(* (OneValue).  Both need that operations arrive where they fit (Causal:   *)
(* nobody sets a property of a node that has not come yet) and that no     *)
(* time is given twice (Dated): the clock of a client goes back when it is *)
(* sent the file, but the new document has a session nobody had.           *)
(***************************************************************************)
EXTENDS DocStore_proofs

USE DocAssumption DEF DocAssumption

-----------------------------------------------------------------------------
(* Registers: the time of one, and what a batch writes to it.               *)
TimeAt(s, n, k) == IF n \notin DOMAIN s THEN Zero
                   ELSE IF k = "place" THEN s[n].placeTime ELSE s[n].time[k]

Writes(op, n, k) == op.id = n /\ op.key = k

(* Nothing in a document, or in a batch, is later than t on this register.  *)
Over(t, s, n, k) == ~Before(t, TimeAt(s, n, k))
Past(t, ops, m, n, k) ==
  \A i \in 1 .. m : Writes(ops[i], n, k) => ~Before(t, ops[i].time)

PastIn(t, box, n, k) ==
  \A b \in 1 .. Len(box) : Past(t, box[b], Len(box[b]), n, k)

(* The nodes a batch creates, and those the batches under way create.       *)
Made(ops, m) == {n \in Node : \E i \in 1 .. m : ops[i].kind = "create" /\ ops[i].id = n}
MadeIn(box, m) == {n \in Node : \E b \in 1 .. m : n \in Made(box[b], Len(box[b]))}

(* An operation fits in a document with the nodes D: a node it creates is   *)
(* new there and has its parent there; any other node it names is there.    *)
Fits(D, op) == IF op.kind = "create" THEN op.id \notin D /\ op.to \in D
               ELSE op.id \in D
Ready(D, ops) == \A i \in 1 .. Len(ops) : Fits(D \cup Made(ops, i - 1), ops[i])
ReadyIn(D, box) == \A b \in 1 .. Len(box) : Ready(D \cup MadeIn(box, b - 1), box[b])

(* Nodes on their way to client r, and to the room.                         *)
Coming(r) == MadeIn(inbox[r], Len(inbox[r]))
Leaving(r) == Made(outbox[r], Len(outbox[r]))

(* Every operation under way fits where it will be applied, and a client    *)
(* gets all the nodes of the room; a file is taken from the room.           *)
Causal ==
  \A r \in Client :
    /\ DOMAIN store[r] \cup Coming(r) \subseteq DOMAIN room \cup Leaving(r)
    /\ r \notin loaded =>
         DOMAIN room \cup Leaving(r) \subseteq DOMAIN store[r] \cup Coming(r)
    /\ Ready(DOMAIN room, outbox[r])
    /\ r \notin loaded => ReadyIn(DOMAIN store[r], inbox[r])
    /\ \A q \in Client \ {r} : Leaving(r) \cap Leaving(q) = {}
    /\ waits[r] # "nothing" => DOMAIN snap[r].file \subseteq DOMAIN room

(* Everything somebody wrote, as far as it can still be seen.               *)
Written(ops) == {<<ops[i].id, ops[i].key, ops[i].time, ops[i].to>> :
                   i \in 1 .. Len(ops)}
Held(s) == {<<n, k, TimeAt(s, n, k), Now(s, n, k)>> :
              n \in DOMAIN s, k \in Register}
Blank == {<<n, k, Zero, 0>> : n \in Node, k \in Key}
WrittenIn(box) == UNION {Written(box[b]) : b \in 1 .. Len(box)}
HeldBy(st, ld) == UNION {Held(st[r]) : r \in Client \ ld}
SentBy(out) == UNION {Written(out[r]) : r \in Client}
OnTheWay(box) == UNION {WrittenIn(box[r]) : r \in Client}
Seen == Blank \cup Held(room) \cup HeldBy(store, loaded) \cup SentBy(outbox)
          \cup OnTheWay(inbox)

(* The clock of a client is past every time of its session, and nobody wrote *)
(* in a session no document had.                                            *)
Dated == \A r \in Client : \A x \in Seen :
           x[3][2] = session[r] => x[3][1] <= clock[r]
Known == \A x \in Seen : x[3][2] \in used \cup {0}

(* The clock of the room is past every time on the way from it, and the     *)
(* clock a file came with past every time the client will not be sent       *)
(* because it gets the file.                                                *)
Passed ==
  \A r \in Client :
    /\ \A x \in WrittenIn(inbox[r]) : x[3][1] <= roomClock
    /\ \A b \in 1 .. snap[r].missed : \A x \in Written(inbox[r][b]) :
         x[3][1] <= snap[r].clock

(* A register has one value at a time.                                      *)
OneValue == \A x \in Seen, y \in Seen :
              x[1] = y[1] /\ x[2] = y[2] /\ x[3] = y[3] => x[4] = y[4]

(* What a client has, with what is on its way to it, is as late as what the *)
(* room has, with what the client has not sent.                             *)
Balanced(s, box, rm, ops, n, k) ==
  \A t \in Time : Over(t, s, n, k) /\ PastIn(t, box, n, k)
                  <=> Over(t, rm, n, k) /\ Past(t, ops, Len(ops), n, k)
Level ==
  \A r \in Client, n \in Node, k \in Register :
    r \notin loaded /\ (k = "place" => ~barred)
      => Balanced(store[r], inbox[r], room, outbox[r], n, k)

(* The time a property has in the room is one the clock of each client is   *)
(* past, or it is on the way to it, or the client wrote it and does not see *)
(* it; in the same way for the clock a file came with.                      *)
Has(ops, n, k, t) == \E i \in 1 .. Len(ops) : Writes(ops[i], n, k) /\ ops[i].time = t
Carries(box, m, n, k, t) == \E b \in m + 1 .. Len(box) : Has(box[b], n, k, t)

NoticedBy(c, box, m, hidden, n, k) ==
  LET t == TimeAt(room, n, k) IN
    t[1] <= c \/ Carries(box, m, n, k, t) \/ <<n, k>> \in hidden
Noticed ==
  \A r \in Client, n \in Node, k \in Key :
    /\ NoticedBy(clock[r], inbox[r], 0, unseen[r], n, k)
    /\ waits[r] # "nothing" =>
         NoticedBy(snap[r].clock, inbox[r], snap[r].missed, snap[r].later, n, k)

(* What a client keeps for the room is in its clock, or it wrote on that    *)
(* register before and does not see it.                                     *)
Kept ==
  \A r \in Client : \A i \in 1 .. Len(outbox[r]) :
    LET op == outbox[r][i] IN
      op.time[1] <= clock[r] \/ <<op.id, op.key>> \in unseen[r]

(* What a client wrote alone is not older than what the room has, or than   *)
(* what the client itself wrote before and keeps.                           *)
Leads(op, s) == op.kind = "set" /\ op.alone => Over(op.time, s, op.id, op.key)
AloneLeads ==
  \A r \in Client : \A i \in 1 .. Len(outbox[r]) :
    LET op == outbox[r][i] IN
      /\ Leads(op, room)
      /\ op.kind = "set" /\ op.alone => Past(op.time, outbox[r], i - 1, op.id, op.key)

-----------------------------------------------------------------------------
(* One operation: the nodes, and each register, before and after.           *)
LEMMA TimeIs ==
  ASSUME NEW s, Doc(s), NEW n, NEW k \in Register
  PROVE  TimeAt(s, n, k) \in Time
  BY Zeros DEF Doc, Holds, NodeRec, TimeAt, Register

(* One operation adds the node it creates, if it fits, and no other.        *)
LEMMA ApplyNodes ==
  ASSUME NEW s, Doc(s), NEW op \in Op
  PROVE  /\ DOMAIN s \subseteq DOMAIN Apply(s, op)
         /\ op.kind # "create" => DOMAIN Apply(s, op) = DOMAIN s
         /\ op.kind = "create" => DOMAIN Apply(s, op) \subseteq DOMAIN s \cup {op.id}
         /\ op.kind = "create" /\ Fits(DOMAIN s, op)
              => DOMAIN Apply(s, op) = DOMAIN s \cup {op.id}
<1>1. PICK t : t = Apply(s, op)
  OBVIOUS
<1>2. CASE op.kind = "create"
  <2>1. CASE op.id \notin DOMAIN s /\ op.to \in DOMAIN s
    <3>1. DOMAIN t = DOMAIN s \cup {op.id}
      <4>1. t = Create(s, op)
        BY <1>1, <1>2, ApplyIs
      <4> QED
        BY <2>1, <4>1, CreateIs, Zenon
    <3> QED
      BY <1>1, <1>2, <3>1
  <2>2. CASE ~(op.id \notin DOMAIN s /\ op.to \in DOMAIN s)
    <3>1. t = s
      BY <1>1, <1>2, <2>2, ApplyIs, CreateNot
    <3> QED
      BY <1>1, <1>2, <2>2, <3>1 DEF Fits
  <2> QED
    BY <2>1, <2>2
<1>3. CASE op.kind = "set"
  <2>1. DOMAIN t = DOMAIN s
    <3>1. t = Set(s, op) /\ Holds(s)
      BY <1>1, <1>3, ApplyIs DEF Doc
    <3>2. CASE op.id \in DOMAIN s /\ ~Before(op.time, s[op.id].time[op.key])
      BY <1>3, <3>1, <3>2, SetIs
    <3>3. CASE ~(op.id \in DOMAIN s /\ ~Before(op.time, s[op.id].time[op.key]))
      BY <3>1, <3>3, SetNot
    <3> QED
      BY <3>2, <3>3
  <2> QED
    BY <1>1, <1>3, <2>1
<1>4. CASE op.kind = "move"
  <2>1. DOMAIN t = DOMAIN s
    <3>1. t = Move(s, op) /\ Holds(s)
      BY <1>1, <1>4, ApplyIs DEF Doc
    <3>2. CASE op.id \in DOMAIN s /\ ~Late(s, op) /\ CanMove(s, op.id, op.to)
      BY <1>4, <3>1, <3>2, MoveIs
    <3>3. CASE ~(op.id \in DOMAIN s /\ ~Late(s, op) /\ CanMove(s, op.id, op.to))
      BY <3>1, <3>3, MoveNot
    <3> QED
      BY <3>2, <3>3
  <2> QED
    BY <1>1, <1>4, <2>1
<1> QED
  BY <1>2, <1>3, <1>4, OpFields

Barring(s, op) == /\ op.kind = "move" /\ op.id \in DOMAIN s
                  /\ ~Late(s, op) /\ ~CanMove(s, op.id, op.to)

(* The later time stays: that is what merging by time means. A move may     *)
(* also be barred.                                                          *)
LEMMA ApplyTime ==
  ASSUME NEW s, Doc(s), NEW op \in Op, Fits(DOMAIN s, op),
         NEW n \in Node, NEW k \in Register, k = "place" => ~Barring(s, op)
  PROVE  TimeAt(Apply(s, op), n, k) =
           IF Writes(op, n, k) /\ ~Before(op.time, TimeAt(s, n, k))
           THEN op.time ELSE TimeAt(s, n, k)
<1>1. Holds(s)
  BY DEF Doc
<1>2. PICK t : t = Apply(s, op)
  OBVIOUS
<1>3. CASE op.kind = "create"
  <2>1. op.id \notin DOMAIN s /\ op.to \in DOMAIN s
    BY <1>3 DEF Fits
  <2>2. /\ DOMAIN t = DOMAIN s \cup {op.id}
        /\ \A m \in DOMAIN s : t[m] = s[m]
        /\ t[op.id] = Record(op.to, op.time)
    BY <1>2, <1>3, <2>1, ApplyIs, CreateIs
  <2>3. op.to \in Node \cup {NoNode} /\ op.time \in Time /\ op.key = "place"
    BY <1>3, OpFields
  <2>4. /\ t[op.id].placeTime = op.time
        /\ \A j \in Key : t[op.id].time[j] = Zero
    BY <2>2, <2>3, RecordIs
  <2>5. ~Before(op.time, Zero)
    <3>1. op.time \in Stamp
      BY OpFields
    <3> QED
      BY <3>1 DEF Before, Zero, Stamp
  <2>6. CASE n = op.id
    <3>1. TimeAt(s, n, k) = Zero
      BY <2>1, <2>6 DEF TimeAt
    <3>2. TimeAt(t, n, k) = IF k = "place" THEN op.time ELSE Zero
      BY <2>2, <2>4, <2>6 DEF TimeAt, Register
    <3> QED
      BY <1>2, <2>3, <2>5, <2>6, <3>1, <3>2 DEF Writes
  <2>7. CASE n # op.id
    BY <1>2, <2>2, <2>7 DEF TimeAt, Writes
  <2> QED
    BY <2>6, <2>7
<1>4. CASE op.kind = "set"
  <2>1. op.id \in DOMAIN s /\ op.key \in Key /\ op.key # "place"
    BY <1>4, OpFields DEF Fits
  <2>2. CASE Before(op.time, s[op.id].time[op.key])
    <3>1. t = s
      BY <1>2, <1>4, <2>2, ApplyIs, SetNot
    <3> QED
      BY <1>2, <2>1, <2>2, <3>1 DEF TimeAt, Writes
  <2>3. CASE ~Before(op.time, s[op.id].time[op.key])
    <3>1. t = Set(s, op)
      BY <1>2, <1>4, ApplyIs
    <3>2. DOMAIN t = DOMAIN s /\ \A m \in DOMAIN s \ {op.id} : t[m] = s[m]
      BY <1>1, <1>4, <2>1, <2>3, <3>1, SetIs
    <3>3. t[op.id].placeTime = s[op.id].placeTime
      BY <1>1, <1>4, <2>1, <2>3, <3>1, SetIs
    <3>4. \A j \in Key : t[op.id].time[j] =
                           IF j = op.key THEN op.time ELSE s[op.id].time[j]
      BY <1>1, <1>4, <2>1, <2>3, <3>1, SetIs
    <3>5. CASE n = op.id
      <4>1. CASE k = "place"
        BY <1>2, <2>1, <3>2, <3>3, <3>5, <4>1 DEF TimeAt, Writes
      <4>2. CASE k \in Key
        BY <1>2, <2>1, <2>3, <3>2, <3>4, <3>5, <4>2 DEF TimeAt, Writes
      <4> QED
        BY <4>1, <4>2 DEF Register
    <3>6. CASE n # op.id
      BY <1>2, <3>2, <3>6 DEF TimeAt, Writes
    <3> QED
      BY <3>5, <3>6
  <2> QED
    BY <2>2, <2>3
<1>5. CASE op.kind = "move"
  <2>1. op.id \in DOMAIN s /\ op.key = "place"
    BY <1>5, OpFields DEF Fits
  <2>2. CASE Late(s, op)
    <3>1. t = s
      BY <1>2, <1>5, <2>2, ApplyIs, MoveNot
    <3> QED
      BY <1>2, <2>1, <2>2, <3>1 DEF TimeAt, Writes, Late
  <2>3. CASE ~Late(s, op) /\ CanMove(s, op.id, op.to)
    <3>1. t = Move(s, op)
      BY <1>2, <1>5, ApplyIs
    <3>2. DOMAIN t = DOMAIN s /\ \A m \in DOMAIN s \ {op.id} : t[m] = s[m]
      BY <1>1, <1>5, <2>1, <2>3, <3>1, MoveIs
    <3>3. t[op.id].placeTime = op.time /\ t[op.id].time = s[op.id].time
      BY <1>1, <1>5, <2>1, <2>3, <3>1, MoveIs
    <3>4. CASE n = op.id
      BY <1>2, <2>1, <2>3, <3>2, <3>3, <3>4 DEF TimeAt, Writes, Late
    <3>5. CASE n # op.id
      BY <1>2, <3>2, <3>5 DEF TimeAt, Writes
    <3> QED
      BY <3>4, <3>5
  <2>4. CASE ~Late(s, op) /\ ~CanMove(s, op.id, op.to)
    <3>1. t = s
      BY <1>2, <1>5, <2>4, ApplyIs, MoveNot
    <3>2. k # "place"
      BY <1>5, <2>1, <2>4 DEF Barring
    <3> QED
      BY <1>2, <2>1, <3>1, <3>2 DEF Writes
  <2> QED
    BY <2>2, <2>3, <2>4
<1> QED
  BY <1>3, <1>4, <1>5, OpFields

(* What a register holds was there, is blank, or is what was written.       *)
LEMMA ApplyHeld ==
  ASSUME NEW s, Doc(s), NEW op \in Op, NEW t, t = Apply(s, op),
         NEW n \in DOMAIN t, NEW k \in Register
  PROVE  \/ /\ n \in DOMAIN s /\ TimeAt(t, n, k) = TimeAt(s, n, k)
            /\ Now(t, n, k) = Now(s, n, k)
         \/ /\ n \notin DOMAIN s /\ k \in Key
            /\ TimeAt(t, n, k) = Zero /\ Now(t, n, k) = 0
         \/ /\ Writes(op, n, k)
            /\ TimeAt(t, n, k) = op.time /\ Now(t, n, k) = op.to
<1>1. Holds(s)
  BY DEF Doc
<1>2. CASE t = s
  BY <1>2
<1>3. CASE op.kind = "create" /\ op.id \notin DOMAIN s /\ op.to \in DOMAIN s
  <2>1. /\ DOMAIN t = DOMAIN s \cup {op.id}
        /\ \A m \in DOMAIN s : t[m] = s[m]
        /\ t[op.id] = Record(op.to, op.time)
    BY <1>3, ApplyIs, CreateIs
  <2>2. op.to \in Node \cup {NoNode} /\ op.time \in Time /\ op.key = "place"
    BY <1>3, OpFields
  <2>3. /\ t[op.id].placeTime = op.time /\ t[op.id].parent = op.to
        /\ \A j \in Key : t[op.id].time[j] = Zero /\ t[op.id].val[j] = 0
    BY <2>1, <2>2, RecordIs
  <2>4. CASE n = op.id
    BY <1>3, <2>2, <2>3, <2>4 DEF TimeAt, Now, Writes, Register
  <2>5. CASE n # op.id
    BY <2>1, <2>5 DEF TimeAt, Now
  <2> QED
    BY <2>4, <2>5
<1>4. CASE /\ op.kind = "set" /\ op.id \in DOMAIN s
           /\ ~Before(op.time, s[op.id].time[op.key])
  <2>1. t = Set(s, op) /\ op.key \in Key /\ op.key # "place"
    BY <1>4, ApplyIs, OpFields
  <2>2. DOMAIN t = DOMAIN s /\ \A m \in DOMAIN s \ {op.id} : t[m] = s[m]
    BY <1>1, <1>4, <2>1, SetIs
  <2>3. t[op.id].placeTime = s[op.id].placeTime /\ t[op.id].parent = s[op.id].parent
    BY <1>1, <1>4, <2>1, SetIs
  <2>4. \A j \in Key : t[op.id].time[j] =
                         IF j = op.key THEN op.time ELSE s[op.id].time[j]
    BY <1>1, <1>4, <2>1, SetIs
  <2>5. \A j \in Key : t[op.id].val[j] =
                         IF j = op.key THEN op.to ELSE s[op.id].val[j]
    BY <1>1, <1>4, <2>1, SetIs
  <2>6. CASE n # op.id
    BY <2>2, <2>6 DEF TimeAt, Now
  <2>7. CASE n = op.id /\ k = "place"
    BY <1>4, <2>2, <2>3, <2>7 DEF TimeAt, Now
  <2>8. CASE n = op.id /\ k \in Key
    BY <1>4, <2>1, <2>2, <2>4, <2>5, <2>8 DEF TimeAt, Now, Writes
  <2> QED
    BY <2>6, <2>7, <2>8 DEF Register
<1>5. CASE /\ op.kind = "move" /\ op.id \in DOMAIN s /\ ~Late(s, op)
           /\ CanMove(s, op.id, op.to)
  <2>1. t = Move(s, op) /\ op.key = "place"
    BY <1>5, ApplyIs, OpFields
  <2>2. DOMAIN t = DOMAIN s /\ \A m \in DOMAIN s \ {op.id} : t[m] = s[m]
    BY <1>1, <1>5, <2>1, MoveIs
  <2>3. t[op.id].placeTime = op.time /\ t[op.id].parent = op.to
    BY <1>1, <1>5, <2>1, MoveIs
  <2>4. t[op.id].time = s[op.id].time /\ t[op.id].val = s[op.id].val
    BY <1>1, <1>5, <2>1, MoveIs
  <2>5. CASE n # op.id
    BY <2>2, <2>5 DEF TimeAt, Now
  <2>6. CASE n = op.id /\ k = "place"
    BY <1>5, <2>1, <2>2, <2>3, <2>6 DEF TimeAt, Now, Writes
  <2>7. CASE n = op.id /\ k # "place"
    BY <1>5, <2>2, <2>4, <2>7 DEF TimeAt, Now
  <2> QED
    BY <2>5, <2>6, <2>7
<1> QED
  BY <1>2, <1>3, <1>4, <1>5, OpFields, ApplyIs, CreateNot, SetNot, MoveNot

(* A register is no later than t after an operation when it was so before   *)
(* and the operation is no later.                                           *)
LEMMA OverApply ==
  ASSUME NEW s, Doc(s), NEW op \in Op, Fits(DOMAIN s, op),
         NEW n \in Node, NEW k \in Register, k = "place" => ~Barring(s, op),
         NEW t \in Time
  PROVE  Over(t, Apply(s, op), n, k)
           <=> Over(t, s, n, k) /\ (Writes(op, n, k) => ~Before(t, op.time))
<1>1. PICK a \in Time : a = TimeAt(s, n, k)
  BY TimeIs
<1>2. PICK b \in Time : b = op.time
  BY OpFields
<1>3. TimeAt(Apply(s, op), n, k) = IF Writes(op, n, k) /\ ~Before(b, a) THEN b ELSE a
  BY <1>1, <1>2, ApplyTime
<1>4. ~Before(b, a) /\ ~Before(t, b) => ~Before(t, a)
  BY Order
<1>5. Before(b, a) /\ ~Before(t, a) => ~Before(t, b)
  <2>1. Before(b, a) => ~Before(a, b)
    BY Order
  <2>2. ~Before(a, b) /\ ~Before(t, a) => ~Before(t, b)
    BY Order
  <2> QED
    BY <2>1, <2>2
<1> QED
  BY <1>1, <1>2, <1>3, <1>4, <1>5, Zenon DEF Over

-----------------------------------------------------------------------------
(* A whole batch.                                                           *)
LEMMA FirstNumbers ==
  ASSUME NEW n \in Nat, NEW S, 0 \in S,
         \A m \in Nat : m + 1 <= n /\ m \in S => m + 1 \in S
  PROVE  0 .. n \subseteq S
<1> DEFINE T == {m \in Nat : m <= n => m \in S}
<1>1. 0 \in T
  OBVIOUS
<1>2. ASSUME NEW m \in Nat, m \in T PROVE m + 1 \in T
  <2> SUFFICES ASSUME m + 1 <= n PROVE m + 1 \in S
    OBVIOUS
  <2>1. m <= n
    OBVIOUS
  <2>2. m \in S
    BY <1>2, <2>1
  <2> QED
    BY <2>2
<1>3. Nat \subseteq T
  <2> HIDE DEF T
  <2> QED
    BY <1>1, <1>2, AllNumbers
<1> QED
  BY <1>3

(* The nodes a batch creates, one operation further.                        *)
LEMMA MadeStep ==
  ASSUME NEW ops \in Seq(Op), NEW m \in Nat, m + 1 <= Len(ops)
  PROVE  /\ Made(ops, 0) = {} /\ (m + 1) - 1 = m /\ m + 1 \in 1 .. Len(ops)
         /\ Made(ops, m) \subseteq Made(ops, m + 1)
         /\ Made(ops, m + 1) = Made(ops, m) \cup
              {n \in Node : ops[m + 1].kind = "create" /\ ops[m + 1].id = n}
<1>1. Len(ops) \in Nat
  BY LengthIs
<1>2. m + 1 \in 1 .. Len(ops) /\ (m + 1) - 1 = m
  BY <1>1
<1>3. 1 .. m + 1 = (1 .. m) \cup {m + 1} /\ 1 .. 0 = {}
  OBVIOUS
<1> QED
  BY <1>2, <1>3 DEF Made

(* The parts of a step through a batch.                                     *)
LEMMA AfterStep ==
  ASSUME NEW s, Doc(s), NEW ops \in Seq(Op), NEW m \in Nat, m + 1 <= Len(ops)
  PROVE  /\ Doc(After(s, ops)[m]) /\ ops[m + 1] \in Op
         /\ After(s, ops)[m + 1] = Apply(After(s, ops)[m], ops[m + 1])
<1>1. Len(ops) \in Nat
  BY LengthIs
<1>2. m \in 0 .. Len(ops) /\ m + 1 \in 1 .. Len(ops) /\ (m + 1) - 1 = m
  BY <1>1
<1>3. After(s, ops)[m + 1] = Apply(After(s, ops)[m], ops[m + 1])
  BY <1>1, <1>2, AfterEach
<1> QED
  BY <1>2, <1>3, AfterDoc, LengthIs

(* The nodes after a batch: with those it creates, if each of its           *)
(* operations fits.                                                         *)
LEMMA AfterNodes ==
  ASSUME NEW s, Doc(s), NEW ops \in Seq(Op), NEW i \in 0 .. Len(ops)
  PROVE  /\ DOMAIN s \subseteq DOMAIN After(s, ops)[i]
         /\ DOMAIN After(s, ops)[i] \subseteq DOMAIN s \cup Made(ops, i)
         /\ Ready(DOMAIN s, ops) =>
              DOMAIN After(s, ops)[i] = DOMAIN s \cup Made(ops, i)
<1>1. PICK n \in Nat : n = Len(ops)
  BY LengthIs
<1>2. PICK f : f = After(s, ops)
  OBVIOUS
<1> DEFINE Good == {m \in Nat :
              /\ DOMAIN s \subseteq DOMAIN f[m]
              /\ DOMAIN f[m] \subseteq DOMAIN s \cup Made(ops, m)
              /\ Ready(DOMAIN s, ops) => DOMAIN f[m] = DOMAIN s \cup Made(ops, m)}
<1>3. 0 \in Good
  <2>1. f[0] = s
    BY <1>1, <1>2, AfterEach
  <2>2. Made(ops, 0) = {}
    BY DEF Made
  <2> QED
    BY <2>1, <2>2
<1>4. ASSUME NEW m \in Nat, m + 1 <= n, m \in Good PROVE m + 1 \in Good
  <2>1. PICK op \in Op : op = ops[m + 1] /\ f[m + 1] = Apply(f[m], op) /\ Doc(f[m])
    BY <1>1, <1>2, <1>4, AfterStep
  <2>2. Made(ops, m + 1) = Made(ops, m) \cup
              {x \in Node : op.kind = "create" /\ op.id = x}
    BY <1>1, <1>4, <2>1, MadeStep
  <2>3. PICK new : new = {x \in Node : op.kind = "create" /\ op.id = x}
    OBVIOUS
  <2>4. /\ op.kind = "create" => new = {op.id}
        /\ op.kind # "create" => new = {}
    BY <2>3, OpFields
  <2>5. DOMAIN f[m] \subseteq DOMAIN f[m + 1]
    <3>1. DOMAIN f[m] \subseteq DOMAIN Apply(f[m], op)
      BY <2>1, ApplyNodes
    <3> QED
      BY <2>1, <3>1
  <2>6. op.kind # "create" => DOMAIN f[m + 1] = DOMAIN f[m]
    <3>1. op.kind # "create" => DOMAIN Apply(f[m], op) = DOMAIN f[m]
      BY <2>1, ApplyNodes, Zenon
    <3> QED
      BY <2>1, <3>1
  <2>7. op.kind = "create" => DOMAIN f[m + 1] \subseteq DOMAIN f[m] \cup {op.id}
    BY <2>1, ApplyNodes
  <2>8. op.kind = "create" /\ Fits(DOMAIN f[m], op)
           => DOMAIN f[m + 1] = DOMAIN f[m] \cup {op.id}
    <3>1. op.kind = "create" /\ Fits(DOMAIN f[m], op)
            => DOMAIN Apply(f[m], op) = DOMAIN f[m] \cup {op.id}
      BY <2>1, ApplyNodes, Zenon
    <3> QED
      BY <2>1, <3>1
  <2>9. DOMAIN f[m + 1] \subseteq DOMAIN f[m] \cup new
    BY <2>4, <2>6, <2>7
  <2>10. ASSUME Ready(DOMAIN s, ops)
        PROVE  DOMAIN f[m + 1] = DOMAIN s \cup Made(ops, m + 1)
    <3>1. DOMAIN f[m] = DOMAIN s \cup Made(ops, m)
      BY <1>4, <2>10
    <3>2. Fits(DOMAIN f[m], op)
      <4>1. m + 1 \in 1 .. Len(ops) /\ (m + 1) - 1 = m
        BY <1>1, <1>4
      <4>2. Fits(DOMAIN s \cup Made(ops, m), op)
        BY <2>1, <2>10, <4>1 DEF Ready
      <4> QED
        BY <3>1, <4>2
    <3>3. DOMAIN f[m + 1] = DOMAIN f[m] \cup new
      BY <2>4, <2>6, <2>8, <3>2
    <3> QED
      BY <2>2, <2>3, <3>1, <3>3
  <2>11. /\ DOMAIN s \subseteq DOMAIN f[m]
        /\ DOMAIN f[m] \subseteq DOMAIN s \cup Made(ops, m)
    BY <1>4
  <2> QED
    BY <2>2, <2>3, <2>5, <2>9, <2>10, <2>11
<1>5. 0 .. n \subseteq Good
  <2> HIDE DEF Good
  <2> QED
    BY <1>3, <1>4, FirstNumbers
<1> QED
  BY <1>1, <1>2, <1>5

(* In a batch that is ready each operation fits when its turn comes.        *)
LEMMA AfterFits ==
  ASSUME NEW s, Doc(s), NEW ops \in Seq(Op), Ready(DOMAIN s, ops),
         NEW m \in Nat, m + 1 <= Len(ops)
  PROVE  Fits(DOMAIN After(s, ops)[m], ops[m + 1])
<1>1. m \in 0 .. Len(ops) /\ m + 1 \in 1 .. Len(ops) /\ (m + 1) - 1 = m
  BY LengthIs
<1>2. DOMAIN After(s, ops)[m] = DOMAIN s \cup Made(ops, m)
  BY <1>1, AfterNodes
<1>3. Fits(DOMAIN s \cup Made(ops, m), ops[m + 1])
  BY <1>1 DEF Ready
<1> QED
  BY <1>2, <1>3

(* OverApply for a batch: nothing but the latest time of each register      *)
(* matters, which is why the order of arrival does not.                     *)
LEMMA AfterOver ==
  ASSUME NEW s, Doc(s), NEW ops \in Seq(Op), Ready(DOMAIN s, ops),
         NEW n \in Node, NEW k \in Register, k = "place" => ~Bars(s, ops),
         NEW t \in Time, NEW i \in 0 .. Len(ops)
  PROVE  Over(t, After(s, ops)[i], n, k) <=> Over(t, s, n, k) /\ Past(t, ops, i, n, k)
<1>1. PICK l \in Nat : l = Len(ops)
  BY LengthIs
<1>2. PICK f : f = After(s, ops)
  OBVIOUS
<1> DEFINE Good == {m \in Nat : Over(t, f[m], n, k) <=>
                                Over(t, s, n, k) /\ Past(t, ops, m, n, k)}
<1>3. 0 \in Good
  <2>1. f[0] = s
    BY <1>1, <1>2, AfterEach
  <2>2. Past(t, ops, 0, n, k)
    BY DEF Past
  <2> QED
    BY <2>1, <2>2
<1>4. ASSUME NEW m \in Nat, m + 1 <= l, m \in Good PROVE m + 1 \in Good
  <2>1. PICK op \in Op : op = ops[m + 1] /\ f[m + 1] = Apply(f[m], op) /\ Doc(f[m])
    BY <1>1, <1>2, <1>4, AfterStep
  <2>2. Fits(DOMAIN f[m], op)
    BY <1>1, <1>2, <1>4, <2>1, AfterFits
  <2>3. m + 1 \in 1 .. l /\ (m + 1) - 1 = m
    BY <1>4
  <2>4. k = "place" => ~Barring(f[m], op)
    BY <1>1, <1>2, <2>1, <2>3 DEF Bars, Barring
  <2>5. Over(t, f[m + 1], n, k)
          <=> Over(t, f[m], n, k) /\ (Writes(op, n, k) => ~Before(t, op.time))
    BY <2>1, <2>2, <2>4, OverApply
  <2>6. Past(t, ops, m + 1, n, k)
          <=> Past(t, ops, m, n, k) /\ (Writes(op, n, k) => ~Before(t, op.time))
    <3>1. 1 .. m + 1 = (1 .. m) \cup {m + 1}
      OBVIOUS
    <3> QED
      BY <2>1, <3>1 DEF Past
  <2> QED
    BY <1>4, <2>5, <2>6
<1>5. 0 .. l \subseteq Good
  <2> HIDE DEF Good
  <2> QED
    BY <1>3, <1>4, FirstNumbers
<1> QED
  BY <1>1, <1>2, <1>5

(* The time of a register was there before, or was brought by the batch.    *)
LEMMA AfterTime ==
  ASSUME NEW s, Doc(s), NEW ops \in Seq(Op), Ready(DOMAIN s, ops),
         NEW n \in Node, NEW k \in Key, NEW i \in 0 .. Len(ops)
  PROVE  \/ TimeAt(After(s, ops)[i], n, k) = TimeAt(s, n, k)
         \/ \E j \in 1 .. i : /\ Writes(ops[j], n, k)
                              /\ TimeAt(After(s, ops)[i], n, k) = ops[j].time
<1>1. PICK l \in Nat : l = Len(ops)
  BY LengthIs
<1>2. PICK f : f = After(s, ops)
  OBVIOUS
<1> DEFINE Brought(m) == \/ TimeAt(f[m], n, k) = TimeAt(s, n, k)
                         \/ \E j \in 1 .. m : /\ Writes(ops[j], n, k)
                                              /\ TimeAt(f[m], n, k) = ops[j].time
           Good == {m \in Nat : Brought(m)}
<1>3. 0 \in Good
  <2>1. f[0] = s
    BY <1>1, <1>2, AfterEach
  <2> QED
    BY <2>1
<1>4. ASSUME NEW m \in Nat, m + 1 <= l, m \in Good PROVE m + 1 \in Good
  <2>1. PICK op \in Op : op = ops[m + 1] /\ f[m + 1] = Apply(f[m], op) /\ Doc(f[m])
    BY <1>1, <1>2, <1>4, AfterStep
  <2>2. Fits(DOMAIN f[m], op)
    BY <1>1, <1>2, <1>4, <2>1, AfterFits
  <2>3. k \in Register /\ k # "place"
    BY DEF Register
  <2>4. \/ TimeAt(f[m + 1], n, k) = TimeAt(f[m], n, k)
        \/ Writes(op, n, k) /\ TimeAt(f[m + 1], n, k) = op.time
    BY <2>1, <2>2, <2>3, ApplyTime
  <2>5. m + 1 \in 1 .. m + 1 /\ 1 .. m \subseteq 1 .. m + 1
    OBVIOUS
  <2>6. Brought(m)
    BY <1>4
  <2>7. Brought(m + 1)
    BY <2>1, <2>4, <2>5, <2>6
  <2> QED
    BY <2>7
<1>5. 0 .. l \subseteq Good
  <2> HIDE DEF Good
  <2> QED
    BY <1>3, <1>4, FirstNumbers
<1> QED
  BY <1>1, <1>2, <1>5

(* A document holds nothing that was neither there nor brought.             *)
LEMMA HeldStep ==
  ASSUME NEW s, Doc(s), NEW op \in Op
  PROVE  Held(Apply(s, op)) \subseteq
           Held(s) \cup Blank \cup {<<op.id, op.key, op.time, op.to>>}
<1>1. PICK t : t = Apply(s, op)
  OBVIOUS
<1>2. Doc(t) /\ DOMAIN t \subseteq Node
  BY <1>1, ApplyDoc DEF Doc, Holds
<1>3. SUFFICES ASSUME NEW n \in DOMAIN t, NEW k \in Register
               PROVE  <<n, k, TimeAt(t, n, k), Now(t, n, k)>> \in
                        Held(s) \cup Blank \cup {<<op.id, op.key, op.time, op.to>>}
  BY <1>1 DEF Held
<1>4. CASE /\ n \in DOMAIN s /\ TimeAt(t, n, k) = TimeAt(s, n, k)
           /\ Now(t, n, k) = Now(s, n, k)
  BY <1>4 DEF Held
<1>5. CASE /\ n \notin DOMAIN s /\ k \in Key
           /\ TimeAt(t, n, k) = Zero /\ Now(t, n, k) = 0
  BY <1>2, <1>5 DEF Blank
<1>6. CASE /\ Writes(op, n, k)
           /\ TimeAt(t, n, k) = op.time /\ Now(t, n, k) = op.to
  BY <1>6 DEF Writes
<1> QED
  BY <1>1, <1>4, <1>5, <1>6, ApplyHeld

LEMMA HeldAfter ==
  ASSUME NEW s, Doc(s), NEW ops \in Seq(Op)
  PROVE  Held(ApplyAll(s, ops)) \subseteq Held(s) \cup Blank \cup Written(ops)
<1>1. PICK n \in Nat : n = Len(ops)
  BY LengthIs
<1>2. PICK f : f = After(s, ops)
  OBVIOUS
<1>3. PICK W : /\ W = Held(s) \cup Blank \cup Written(ops)
  OBVIOUS
<1> DEFINE Good == {m \in Nat : Held(f[m]) \subseteq W}
<1>4. 0 \in Good
  <2>1. f[0] = s
    BY <1>1, <1>2, AfterEach
  <2> QED
    BY <1>3, <2>1
<1>5. ASSUME NEW m \in Nat, m + 1 <= n, m \in Good PROVE m + 1 \in Good
  <2>1. PICK op \in Op : op = ops[m + 1] /\ f[m + 1] = Apply(f[m], op) /\ Doc(f[m])
    BY <1>1, <1>2, <1>5, AfterStep
  <2>2. m + 1 \in 1 .. Len(ops)
    BY <1>1, <1>5
  <2>3. <<op.id, op.key, op.time, op.to>> \in Written(ops)
    BY <2>1, <2>2 DEF Written
  <2>4. Held(f[m + 1]) \subseteq
           Held(f[m]) \cup Blank \cup {<<op.id, op.key, op.time, op.to>>}
    BY <2>1, HeldStep
  <2> QED
    BY <1>3, <1>5, <2>3, <2>4
<1>6. 0 .. n \subseteq Good
  <2> HIDE DEF Good
  <2> QED
    BY <1>4, <1>5, FirstNumbers
<1>7. ApplyAll(s, ops) = f[n]
  BY <1>1, <1>2, AfterEach
<1> QED
  BY <1>3, <1>6, <1>7

-----------------------------------------------------------------------------
(* One operation more, one batch more, one batch less.                      *)
LEMMA MoreIs ==
  ASSUME NEW S, NEW q \in Seq(S), NEW e \in S
  PROVE  /\ Len(q) \in Nat /\ Len(Append(q, e)) = Len(q) + 1
         /\ Append(q, e) \in Seq(S)
         /\ \A i \in 1 .. Len(q) : Append(q, e)[i] = q[i]
         /\ Append(q, e)[Len(q) + 1] = e
  BY AppendProperties, LenProperties

(* A batch with one operation more.                                         *)
LEMMA OpMore ==
  ASSUME NEW ops \in Seq(Op), NEW p \in Op, NEW more, more = Append(ops, p)
  PROVE  /\ more \in Seq(Op)
         /\ Made(more, Len(more)) = Made(ops, Len(ops)) \cup
              {n \in Node : p.kind = "create" /\ p.id = n}
         /\ \A D : Ready(D, ops) /\ Fits(D \cup Made(ops, Len(ops)), p)
                     => Ready(D, more)
         /\ Written(more) = Written(ops) \cup {<<p.id, p.key, p.time, p.to>>}
         /\ \A t \in Time, n \in Node, k \in Register :
              Past(t, more, Len(more), n, k)
                <=> Past(t, ops, Len(ops), n, k) /\ (Writes(p, n, k) => ~Before(t, p.time))
<1>1. PICK l \in Nat : l = Len(ops)
  BY LengthIs
<1>2. /\ more \in Seq(Op) /\ Len(more) = l + 1
      /\ \A i \in 1 .. l : more[i] = ops[i]
      /\ more[l + 1] = p
  BY <1>1, MoreIs
<1>3. 1 .. l + 1 = (1 .. l) \cup {l + 1} /\ l + 1 \in 1 .. l + 1
  OBVIOUS
<1>4. \A m \in 0 .. l : Made(more, m) = Made(ops, m)
  <2>1. TAKE m \in 0 .. l
  <2>2. 1 .. m \subseteq 1 .. l
    OBVIOUS
  <2> QED
    BY <1>2, <2>2 DEF Made
<1>5. Made(more, Len(more)) = Made(ops, l) \cup
              {n \in Node : p.kind = "create" /\ p.id = n}
  BY <1>2, <1>3 DEF Made
<1>6. ASSUME NEW D, Ready(D, ops), Fits(D \cup Made(ops, l), p)
      PROVE  Ready(D, more)
  <2>1. SUFFICES ASSUME NEW i \in 1 .. l + 1
                 PROVE  Fits(D \cup Made(more, i - 1), more[i])
    BY <1>2 DEF Ready
  <2>2. i - 1 \in 0 .. l /\ Made(more, i - 1) = Made(ops, i - 1)
    BY <1>4
  <2>3. CASE i = l + 1
    <3>1. i - 1 = l
      BY <2>3
    <3> QED
      BY <1>2, <1>6, <2>2, <2>3, <3>1
  <2>4. CASE i # l + 1
    <3>1. i \in 1 .. l
      BY <2>4
    <3> QED
      BY <1>1, <1>2, <1>6, <2>2, <3>1 DEF Ready
  <2> QED
    BY <2>3, <2>4
<1>7. Written(more) = Written(ops) \cup {<<p.id, p.key, p.time, p.to>>}
  <2>1. \A x \in Written(ops) : x \in Written(more)
    <3>1. TAKE x \in Written(ops)
    <3>2. PICK i \in 1 .. l : x = <<ops[i].id, ops[i].key, ops[i].time, ops[i].to>>
      BY <1>1 DEF Written
    <3>3. i \in 1 .. Len(more) /\ more[i] = ops[i]
      BY <1>2, <1>3, <3>2
    <3> QED
      BY <3>2, <3>3 DEF Written
  <2>2. <<p.id, p.key, p.time, p.to>> \in Written(more)
    BY <1>2, <1>3 DEF Written
  <2>3. \A x \in Written(more) :
          x \in Written(ops) \cup {<<p.id, p.key, p.time, p.to>>}
    <3>1. TAKE x \in Written(more)
    <3>2. PICK i \in 1 .. l + 1 :
            x = <<more[i].id, more[i].key, more[i].time, more[i].to>>
      BY <1>2 DEF Written
    <3>3. CASE i \in 1 .. l
      BY <1>1, <1>2, <3>2, <3>3 DEF Written
    <3>4. CASE i = l + 1
      BY <1>2, <3>2, <3>4
    <3> QED
      BY <1>3, <3>3, <3>4
  <2> QED
    BY <2>1, <2>2, <2>3
<1>8. ASSUME NEW t \in Time, NEW n \in Node, NEW k \in Register
      PROVE  Past(t, more, l + 1, n, k)
                <=> Past(t, ops, l, n, k) /\ (Writes(p, n, k) => ~Before(t, p.time))
  BY <1>2, <1>3 DEF Past
<1> QED
  BY <1>1, <1>2, <1>5, <1>6, <1>7, <1>8

(* A queue of batches with one more.                                        *)
LEMMA BoxMore ==
  ASSUME NEW box \in Seq(Seq(Op)), NEW ops \in Seq(Op), NEW more,
         more = Append(box, ops)
  PROVE  /\ MadeIn(more, Len(more)) = MadeIn(box, Len(box)) \cup Made(ops, Len(ops))
         /\ \A D : ReadyIn(D, box) /\ Ready(D \cup MadeIn(box, Len(box)), ops)
                     => ReadyIn(D, more)
         /\ WrittenIn(more) = WrittenIn(box) \cup Written(ops)
<1>1. PICK l \in Nat : l = Len(box)
  BY LengthIs
<1>2. /\ Len(more) = l + 1
      /\ \A i \in 1 .. l : more[i] = box[i]
      /\ more[l + 1] = ops
  BY <1>1, MoreIs
<1>3. 1 .. l + 1 = (1 .. l) \cup {l + 1} /\ l + 1 \in 1 .. l + 1
  OBVIOUS
<1>4. \A m \in 0 .. l : MadeIn(more, m) = MadeIn(box, m)
  <2>1. TAKE m \in 0 .. l
  <2>2. 1 .. m \subseteq 1 .. l
    OBVIOUS
  <2> QED
    BY <1>2, <2>2 DEF MadeIn
<1>5. MadeIn(more, Len(more)) = MadeIn(box, l) \cup Made(ops, Len(ops))
  <2>1. Made(ops, Len(ops)) \subseteq Node
    BY DEF Made
  <2>2. MadeIn(more, l + 1) = MadeIn(more, l) \cup Made(more[l + 1], Len(more[l + 1]))
    BY <1>2, <1>3, <2>1 DEF MadeIn
  <2>3. l \in 0 .. l
    OBVIOUS
  <2> QED
    BY <1>2, <1>4, <2>2, <2>3
<1>6. ASSUME NEW D, ReadyIn(D, box), Ready(D \cup MadeIn(box, l), ops)
      PROVE  ReadyIn(D, more)
  <2>1. SUFFICES ASSUME NEW i \in 1 .. l + 1
                 PROVE  Ready(D \cup MadeIn(more, i - 1), more[i])
    BY <1>2 DEF ReadyIn
  <2>2. i - 1 \in 0 .. l /\ MadeIn(more, i - 1) = MadeIn(box, i - 1)
    BY <1>4
  <2>3. CASE i = l + 1
    <3>1. i - 1 = l
      BY <2>3
    <3> QED
      BY <1>2, <1>6, <2>2, <2>3, <3>1
  <2>4. CASE i # l + 1
    <3>1. i \in 1 .. l
      BY <2>4
    <3> QED
      BY <1>1, <1>2, <1>6, <2>2, <3>1 DEF ReadyIn
  <2> QED
    BY <2>3, <2>4
<1>7. WrittenIn(more) = WrittenIn(box) \cup Written(ops)
  <2>1. \A x : x \in WrittenIn(more) <=> \E b \in 1 .. l + 1 : x \in Written(more[b])
    BY <1>2 DEF WrittenIn
  <2>2. \A x : x \in WrittenIn(box) <=> \E b \in 1 .. l : x \in Written(box[b])
    BY <1>1 DEF WrittenIn
  <2>3. \A x : x \in WrittenIn(more) <=> x \in WrittenIn(box) \/ x \in Written(ops)
    BY <1>2, <1>3, <2>1, <2>2
  <2> QED
    BY <2>3
<1> QED
  BY <1>1, <1>5, <1>6, <1>7

(* A queue of batches without its first.                                    *)
LEMMA BoxLess ==
  ASSUME NEW box \in Seq(Seq(Op)), box # <<>>, NEW ops, ops = Head(box),
         NEW less, less = Tail(box)
  PROVE  /\ MadeIn(box, Len(box)) = Made(ops, Len(ops)) \cup MadeIn(less, Len(less))
         /\ \A D : ReadyIn(D, box)
                     => Ready(D, ops) /\ ReadyIn(D \cup Made(ops, Len(ops)), less)
         /\ WrittenIn(box) = Written(ops) \cup WrittenIn(less)
<1>1. PICK l \in Nat : Len(box) = l + 1
  <2>1. Len(box) \in Nat /\ Len(box) # 0
    BY LengthIs, EmptySeq
  <2>2. Len(box) - 1 \in Nat /\ Len(box) = (Len(box) - 1) + 1
    BY <2>1
  <2> QED
    BY <2>2
<1>2. ops = box[1] /\ Len(less) = l /\ \A i \in 1 .. l : less[i] = box[i + 1]
  <2>1. Len(box) - 1 = l
    BY <1>1
  <2> QED
    BY <1>1, <2>1, HeadTailProperties
<1>3. \A i \in 1 .. l + 1 : i = 1 \/ (i - 1 \in 1 .. l /\ (i - 1) + 1 = i)
  OBVIOUS
<1>4. 1 \in 1 .. l + 1 /\ \A i \in 1 .. l : i + 1 \in 1 .. l + 1
  OBVIOUS
<1>5. \A m \in 0 .. l : MadeIn(box, m + 1) = Made(ops, Len(ops)) \cup MadeIn(less, m)
  <2>1. TAKE m \in 0 .. l
  <2>2. \A i \in 1 .. m + 1 : i = 1 \/ (i - 1 \in 1 .. m /\ (i - 1) + 1 = i)
    OBVIOUS
  <2>3. 1 \in 1 .. m + 1 /\ \A i \in 1 .. m : i + 1 \in 1 .. m + 1 /\ i \in 1 .. l
    OBVIOUS
  <2>4. Made(ops, Len(ops)) \subseteq Node
    BY DEF Made
  <2>5. ASSUME NEW n \in Node, NEW b \in 1 .. m + 1, n \in Made(box[b], Len(box[b]))
        PROVE  n \in Made(ops, Len(ops)) \cup MadeIn(less, m)
    <3>1. CASE b = 1
      BY <1>2, <2>5, <3>1
    <3>2. CASE b # 1
      <4>1. PICK c \in 1 .. m : b = c + 1 /\ c \in 1 .. l
        BY <2>2, <2>3, <3>2
      <4>2. less[c] = box[b]
        BY <1>2, <4>1
      <4> QED
        BY <2>5, <4>1, <4>2 DEF MadeIn
    <3> QED
      BY <3>1, <3>2
  <2>6. ASSUME NEW n \in Node, NEW c \in 1 .. m, n \in Made(less[c], Len(less[c]))
        PROVE  n \in MadeIn(box, m + 1)
    <3>1. less[c] = box[c + 1] /\ c + 1 \in 1 .. m + 1
      BY <1>2, <2>3
    <3> QED
      BY <2>6, <3>1 DEF MadeIn
  <2>7. Made(ops, Len(ops)) \subseteq MadeIn(box, m + 1)
    BY <1>2, <2>3, <2>4 DEF MadeIn
  <2>8. MadeIn(box, m + 1) \subseteq Made(ops, Len(ops)) \cup MadeIn(less, m)
    BY <2>5 DEF MadeIn
  <2>9. MadeIn(less, m) \subseteq MadeIn(box, m + 1)
    BY <2>6 DEF MadeIn
  <2> QED
    BY <2>7, <2>8, <2>9
<1>6. MadeIn(box, Len(box)) = Made(ops, Len(ops)) \cup MadeIn(less, Len(less))
  <2>1. l \in 0 .. l
    OBVIOUS
  <2> QED
    BY <1>1, <1>2, <1>5, <2>1
<1>7. ASSUME NEW D, ReadyIn(D, box)
      PROVE  Ready(D, ops) /\ ReadyIn(D \cup Made(ops, Len(ops)), less)
  <2>1. \A i \in 1 .. l + 1 : Ready(D \cup MadeIn(box, i - 1), box[i])
    BY <1>1, <1>7 DEF ReadyIn
  <2>2. Ready(D, ops)
    <3>1. 1 - 1 = 0 /\ MadeIn(box, 0) = {} /\ D \cup {} = D
      BY DEF MadeIn
    <3>2. Ready(D \cup MadeIn(box, 1 - 1), box[1])
      BY <1>4, <2>1
    <3> QED
      BY <1>2, <3>1, <3>2
  <2>3. ASSUME NEW i \in 1 .. l
        PROVE  Ready((D \cup Made(ops, Len(ops))) \cup MadeIn(less, i - 1), less[i])
    <3>1. i + 1 \in 1 .. l + 1 /\ (i + 1) - 1 = (i - 1) + 1 /\ i - 1 \in 0 .. l
      OBVIOUS
    <3>2. Ready(D \cup MadeIn(box, (i - 1) + 1), box[i + 1])
      BY <2>1, <3>1
    <3>3. D \cup MadeIn(box, (i - 1) + 1) =
            (D \cup Made(ops, Len(ops))) \cup MadeIn(less, i - 1)
      BY <1>5, <3>1
    <3> QED
      BY <1>2, <3>2, <3>3
  <2> QED
    BY <1>2, <2>2, <2>3 DEF ReadyIn
<1>8. WrittenIn(box) = Written(ops) \cup WrittenIn(less)
  <2>1. \A x : x \in WrittenIn(box) <=> \E b \in 1 .. l + 1 : x \in Written(box[b])
    BY <1>1 DEF WrittenIn
  <2>2. \A x : x \in WrittenIn(less) <=> \E b \in 1 .. l : x \in Written(less[b])
    BY <1>2 DEF WrittenIn
  <2>3. ASSUME NEW x, NEW b \in 1 .. l + 1, x \in Written(box[b])
        PROVE  x \in Written(ops) \/ x \in WrittenIn(less)
    <3>1. CASE b = 1
      BY <1>2, <2>3, <3>1
    <3>2. CASE b # 1
      <4>1. PICK c \in 1 .. l : b = c + 1
        BY <1>3, <3>2
      <4>2. less[c] = box[b]
        BY <1>2, <4>1
      <4> QED
        BY <2>2, <2>3, <4>2
    <3> QED
      BY <3>1, <3>2
  <2>4. ASSUME NEW x, NEW c \in 1 .. l, x \in Written(less[c])
        PROVE  x \in WrittenIn(box)
    <3>1. less[c] = box[c + 1] /\ c + 1 \in 1 .. l + 1
      BY <1>2
    <3> QED
      BY <2>1, <2>4, <3>1
  <2>5. ASSUME NEW x, x \in Written(ops) PROVE x \in WrittenIn(box)
    BY <1>2, <1>4, <2>1, <2>5
  <2> QED
    BY <2>1, <2>2, <2>3, <2>4, <2>5
<1> QED
  BY <1>6, <1>7, <1>8

(* A document that knows more: its batches still fit.                       *)
LEMMA ReadyMore ==
  ASSUME NEW D, NEW E, D \subseteq E, NEW ops \in Seq(Op), Ready(D, ops),
         (E \ D) \cap Made(ops, Len(ops)) = {}
  PROVE  Ready(E, ops)
<1>1. PICK l \in Nat : l = Len(ops)
  BY LengthIs
<1>2. SUFFICES ASSUME NEW i \in 1 .. l
               PROVE  Fits(E \cup Made(ops, i - 1), ops[i])
  BY <1>1 DEF Ready
<1>3. Fits(D \cup Made(ops, i - 1), ops[i])
  BY <1>1 DEF Ready
<1>4. ops[i].id \in Node
  BY <1>1, LengthIs, OpFields
<1>5. ops[i].kind = "create" => ops[i].id \in Made(ops, l)
  BY <1>4 DEF Made
<1> QED
  BY <1>1, <1>3, <1>5 DEF Fits

LEMMA ReadyInMore ==
  ASSUME NEW D, NEW E, D \subseteq E, NEW box \in Seq(Seq(Op)), ReadyIn(D, box),
         (E \ D) \cap MadeIn(box, Len(box)) = {}
  PROVE  ReadyIn(E, box)
<1>1. PICK l \in Nat : l = Len(box)
  BY LengthIs
<1>2. SUFFICES ASSUME NEW b \in 1 .. l
               PROVE  Ready(E \cup MadeIn(box, b - 1), box[b])
  BY <1>1 DEF ReadyIn
<1>3. PICK ops \in Seq(Op) : ops = box[b]
  BY <1>1, LengthIs
<1>4. PICK M : /\ M = MadeIn(box, b - 1)
  OBVIOUS
<1>5. Ready(D \cup M, ops)
  BY <1>1, <1>3, <1>4 DEF ReadyIn
<1>6. Made(ops, Len(ops)) \subseteq MadeIn(box, l)
  BY <1>3 DEF MadeIn, Made
<1>7. D \cup M \subseteq E \cup M
  OBVIOUS
<1>8. ((E \cup M) \ (D \cup M)) \cap Made(ops, Len(ops)) = {}
  BY <1>1, <1>6
<1>9. Ready(E \cup M, ops)
  BY <1>5, <1>7, <1>8, ReadyMore
<1> QED
  BY <1>3, <1>4, <1>9

(* What a batch creates is new.                                             *)
LEMMA ReadyNew ==
  ASSUME NEW D, NEW ops \in Seq(Op), Ready(D, ops)
  PROVE  D \cap Made(ops, Len(ops)) = {}
  BY DEF Ready, Fits, Made

(* Watching whether operations were alone changes none of this.             *)
LEMMA SameBatch ==
  ASSUME NEW a \in Seq(Op), NEW other, NEW c, c = Contested(a, other)
  PROVE  /\ Made(c, Len(c)) = Made(a, Len(a))
         /\ \A D : Ready(D, a) => Ready(D, c)
         /\ Written(c) = Written(a)
         /\ \A t, n, k : Past(t, c, Len(c), n, k) <=> Past(t, a, Len(a), n, k)
<1>1. PICK l \in Nat : l = Len(a)
  BY LengthIs
<1>2. /\ Len(c) = l
      /\ \A i \in 1 .. l :
           /\ c[i].kind = a[i].kind /\ c[i].id = a[i].id /\ c[i].key = a[i].key
           /\ c[i].to = a[i].to /\ c[i].time = a[i].time
  BY <1>1, ContestedIs
<1>3. \A m \in 0 .. l : Made(c, m) = Made(a, m)
  <2>1. TAKE m \in 0 .. l
  <2>2. 1 .. m \subseteq 1 .. l
    OBVIOUS
  <2> QED
    BY <1>2, <2>2 DEF Made
<1>4. l \in 0 .. l /\ \A i \in 1 .. l : i - 1 \in 0 .. l
  OBVIOUS
<1>5. ASSUME NEW D, Ready(D, a) PROVE Ready(D, c)
  <2>1. SUFFICES ASSUME NEW i \in 1 .. l
                 PROVE  Fits(D \cup Made(c, i - 1), c[i])
    BY <1>2 DEF Ready
  <2>2. Fits(D \cup Made(a, i - 1), a[i])
    BY <1>1, <1>5 DEF Ready
  <2>3. Made(c, i - 1) = Made(a, i - 1)
    BY <1>3, <1>4
  <2>4. c[i].kind = a[i].kind /\ c[i].id = a[i].id /\ c[i].to = a[i].to
    BY <1>2
  <2> QED
    BY <2>2, <2>3, <2>4 DEF Fits
<1>6. Written(c) = Written(a)
  BY <1>1, <1>2 DEF Written
<1>7. \A t, n, k : Past(t, c, l, n, k) <=> Past(t, a, l, n, k)
  BY <1>2 DEF Past, Writes
<1> QED
  BY <1>1, <1>2, <1>3, <1>4, <1>5, <1>6, <1>7

(* The empty batch and the empty queue.                                     *)
LEMMA NothingSent ==
  /\ Made(<<>>, Len(<<>>)) = {} /\ MadeIn(<<>>, Len(<<>>)) = {}
  /\ \A D : Ready(D, <<>>) /\ ReadyIn(D, <<>>)
  /\ Written(<<>>) = {} /\ WrittenIn(<<>>) = {}
  /\ \A t, n, k : Past(t, <<>>, Len(<<>>), n, k)
<1>1. Len(<<>>) = 0 /\ 1 .. 0 = {}
  OBVIOUS
<1> QED
  BY <1>1 DEF Made, MadeIn, Ready, ReadyIn, Written, WrittenIn, Past


(* A batch of which the first k operations leave.                           *)
Parts(ops, b, c) ==
  /\ b \in Seq(Op) /\ c \in Seq(Op)
  /\ Made(ops, Len(ops)) = Made(b, Len(b)) \cup Made(c, Len(c))
  /\ \A D : Ready(D, ops) => Ready(D, b) /\ Ready(D \cup Made(b, Len(b)), c)
  /\ Written(ops) = Written(b) \cup Written(c)
  /\ \A t \in Time, n \in Node, key \in Register :
       Past(t, ops, Len(ops), n, key)
         <=> Past(t, b, Len(b), n, key) /\ Past(t, c, Len(c), n, key)

LEMMA SplitBatch ==
  ASSUME NEW ops \in Seq(Op), NEW k \in Nat, k <= Len(ops)
  PROVE  Parts(ops, SubSeq(ops, 1, k), Rest(ops, k))
<1> SUFFICES ASSUME NEW b, b = SubSeq(ops, 1, k), NEW c, c = Rest(ops, k)
             PROVE  Parts(ops, b, c)
  OBVIOUS
<1>1. PICK l \in Nat : l = Len(ops) - k /\ Len(ops) = k + l
  <2>1. Len(ops) \in Nat
    BY LengthIs
  <2>2. Len(ops) - k \in Nat /\ Len(ops) = k + (Len(ops) - k)
    BY <2>1
  <2> QED
    BY <2>2
<1>2. /\ b \in Seq(Op) /\ Len(b) = k /\ \A i \in 1 .. k : b[i] = ops[i]
      /\ c \in Seq(Op) /\ Len(c) = l /\ \A i \in 1 .. l : c[i] = ops[i + k]
  <2>1. /\ SubSeq(ops, 1, k) \in Seq(Op) /\ Len(SubSeq(ops, 1, k)) = k
        /\ \A i \in 1 .. k : SubSeq(ops, 1, k)[i] = ops[i]
        /\ Rest(ops, k) \in Seq(Op) /\ Len(Rest(ops, k)) = Len(ops) - k
        /\ \A i \in 1 .. Len(ops) - k : Rest(ops, k)[i] = ops[i + k]
    BY SplitIs
  <2> QED
    BY <1>1, <2>1
<1>3. \A i \in 1 .. k + l : i \in 1 .. k \/ (i - k \in 1 .. l /\ (i - k) + k = i)
  OBVIOUS
<1>4. /\ \A i \in 1 .. k : i \in 1 .. k + l
      /\ \A i \in 1 .. l : i + k \in 1 .. k + l
  OBVIOUS
<1>5. \A m \in 0 .. k : Made(b, m) = Made(ops, m)
  <2>1. TAKE m \in 0 .. k
  <2>2. 1 .. m \subseteq 1 .. k
    OBVIOUS
  <2> QED
    BY <1>2, <2>2 DEF Made
<1>6. \A m \in 0 .. l : Made(ops, k + m) = Made(b, k) \cup Made(c, m)
  <2>1. TAKE m \in 0 .. l
  <2>2. /\ \A i \in 1 .. k + m : i \in 1 .. k \/ (i - k \in 1 .. m /\ (i - k) + k = i)
        /\ \A i \in 1 .. k : i \in 1 .. k + m
        /\ \A i \in 1 .. m : i + k \in 1 .. k + m /\ i \in 1 .. l
    OBVIOUS
  <2>3. ASSUME NEW n \in Node, NEW i \in 1 .. k + m,
               ops[i].kind = "create", ops[i].id = n
        PROVE  n \in Made(b, k) \cup Made(c, m)
    <3>1. CASE i \in 1 .. k
      <4>1. b[i] = ops[i]
        BY <1>2, <3>1
      <4> QED
        BY <2>3, <3>1, <4>1 DEF Made
    <3>2. CASE i \notin 1 .. k
      <4>1. PICK j \in 1 .. m : i = j + k /\ j \in 1 .. l
        BY <2>2, <3>2
      <4>2. c[j] = ops[i]
        BY <1>2, <4>1
      <4> QED
        BY <2>3, <4>2 DEF Made
    <3> QED
      BY <3>1, <3>2
  <2>4. ASSUME NEW n \in Node, NEW i \in 1 .. k, b[i].kind = "create", b[i].id = n
        PROVE  n \in Made(ops, k + m)
    <3>1. b[i] = ops[i] /\ i \in 1 .. k + m
      BY <1>2, <2>2
    <3> QED
      BY <2>4, <3>1 DEF Made
  <2>5. ASSUME NEW n \in Node, NEW i \in 1 .. m, c[i].kind = "create", c[i].id = n
        PROVE  n \in Made(ops, k + m)
    <3>1. c[i] = ops[i + k] /\ i + k \in 1 .. k + m
      BY <1>2, <2>2
    <3> QED
      BY <2>5, <3>1 DEF Made
  <2>6. Made(ops, k + m) \subseteq Made(b, k) \cup Made(c, m)
    BY <2>3 DEF Made
  <2>7. Made(b, k) \subseteq Made(ops, k + m) /\ Made(c, m) \subseteq Made(ops, k + m)
    BY <2>4, <2>5 DEF Made
  <2> QED
    BY <2>6, <2>7
<1>7. Made(ops, Len(ops)) = Made(b, Len(b)) \cup Made(c, Len(c))
  <2>1. l \in 0 .. l
    OBVIOUS
  <2> QED
    BY <1>1, <1>2, <1>6, <2>1
<1>8. ASSUME NEW D, Ready(D, ops)
      PROVE  Ready(D, b) /\ Ready(D \cup Made(b, Len(b)), c)
  <2>1. \A i \in 1 .. k + l : Fits(D \cup Made(ops, i - 1), ops[i])
    BY <1>1, <1>8 DEF Ready
  <2>2. ASSUME NEW i \in 1 .. k PROVE Fits(D \cup Made(b, i - 1), b[i])
    <3>1. i - 1 \in 0 .. k /\ b[i] = ops[i]
      BY <1>2
    <3>2. Made(b, i - 1) = Made(ops, i - 1)
      BY <1>5, <3>1
    <3> QED
      BY <1>4, <2>1, <3>1, <3>2
  <2>3. ASSUME NEW i \in 1 .. l
        PROVE  Fits((D \cup Made(b, k)) \cup Made(c, i - 1), c[i])
    <3>1. PICK j \in 0 .. l : j = i - 1 /\ (i + k) - 1 = k + j /\ i + k \in 1 .. k + l
      <4>1. i - 1 \in 0 .. l /\ (i + k) - 1 = k + (i - 1) /\ i + k \in 1 .. k + l
        OBVIOUS
      <4> QED
        BY <4>1
    <3>2. c[i] = ops[i + k]
      BY <1>2
    <3>3. Made(ops, k + j) = Made(b, k) \cup Made(c, j)
      BY <1>6
    <3>4. Fits(D \cup Made(ops, k + j), ops[i + k])
      BY <2>1, <3>1
    <3>5. D \cup Made(ops, k + j) = (D \cup Made(b, k)) \cup Made(c, i - 1)
      BY <3>1, <3>3
    <3> QED
      BY <3>2, <3>4, <3>5
  <2> QED
    BY <1>2, <2>2, <2>3 DEF Ready
<1>9. Written(ops) = Written(b) \cup Written(c)
  <2>1. ASSUME NEW x \in Written(ops) PROVE x \in Written(b) \cup Written(c)
    <3>1. PICK i \in 1 .. k + l : x = <<ops[i].id, ops[i].key, ops[i].time, ops[i].to>>
      BY <1>1 DEF Written
    <3>2. CASE i \in 1 .. k
      <4>1. b[i] = ops[i]
        BY <1>2, <3>2
      <4> QED
        BY <1>2, <3>1, <3>2, <4>1 DEF Written
    <3>3. CASE i \notin 1 .. k
      <4>1. PICK j \in 1 .. l : i = j + k
        BY <1>3, <3>3
      <4>2. c[j] = ops[i]
        BY <1>2, <4>1
      <4> QED
        BY <1>2, <3>1, <4>2 DEF Written
    <3> QED
      BY <3>2, <3>3
  <2>2. ASSUME NEW x \in Written(b) PROVE x \in Written(ops)
    <3>1. PICK i \in 1 .. k : x = <<b[i].id, b[i].key, b[i].time, b[i].to>>
      BY <1>2 DEF Written
    <3>2. b[i] = ops[i] /\ i \in 1 .. Len(ops)
      BY <1>1, <1>2, <1>4
    <3> QED
      BY <3>1, <3>2 DEF Written
  <2>3. ASSUME NEW x \in Written(c) PROVE x \in Written(ops)
    <3>1. PICK i \in 1 .. l : x = <<c[i].id, c[i].key, c[i].time, c[i].to>>
      BY <1>2 DEF Written
    <3>2. c[i] = ops[i + k] /\ i + k \in 1 .. Len(ops)
      BY <1>1, <1>2, <1>4
    <3> QED
      BY <3>1, <3>2 DEF Written
  <2> QED
    BY <2>1, <2>2, <2>3
<1>10. ASSUME NEW t \in Time, NEW n \in Node, NEW key \in Register
       PROVE  Past(t, ops, k + l, n, key)
                <=> Past(t, b, k, n, key) /\ Past(t, c, l, n, key)
  <2>1. ASSUME Past(t, ops, k + l, n, key)
        PROVE  Past(t, b, k, n, key) /\ Past(t, c, l, n, key)
    BY <1>2, <1>4, <2>1 DEF Past
  <2>2. ASSUME Past(t, b, k, n, key), Past(t, c, l, n, key),
               NEW i \in 1 .. k + l, Writes(ops[i], n, key)
        PROVE  ~Before(t, ops[i].time)
    <3>1. CASE i \in 1 .. k
      <4>1. b[i] = ops[i]
        BY <1>2, <3>1
      <4> QED
        BY <2>2, <3>1, <4>1 DEF Past
    <3>2. CASE i \notin 1 .. k
      <4>1. PICK j \in 1 .. l : i = j + k
        BY <1>3, <3>2
      <4>2. c[j] = ops[i]
        BY <1>2, <4>1
      <4> QED
        BY <2>2, <4>2 DEF Past
    <3> QED
      BY <3>1, <3>2
  <2> QED
    BY <2>1, <2>2 DEF Past
<1>11. \A t \in Time, n \in Node, key \in Register :
         Past(t, ops, Len(ops), n, key)
           <=> Past(t, b, Len(b), n, key) /\ Past(t, c, Len(c), n, key)
  BY <1>1, <1>2, <1>10
<1> QED
  BY <1>2, <1>7, <1>8, <1>9, <1>11 DEF Parts

(* A queue without its first batches.                                       *)
LEMMA BoxRest ==
  ASSUME NEW box \in Seq(Seq(Op)), NEW m \in Nat, m <= Len(box),
         NEW less, less = Rest(box, m)
  PROVE  /\ less \in Seq(Seq(Op))
         /\ MadeIn(less, Len(less)) \subseteq MadeIn(box, Len(box))
         /\ WrittenIn(less) \subseteq WrittenIn(box)
         /\ \A n, k, t : Carries(box, m, n, k, t) <=> Carries(less, 0, n, k, t)
<1>1. PICK l \in Nat : l = Len(box) - m /\ Len(box) = m + l
  <2>1. Len(box) \in Nat
    BY LengthIs
  <2>2. Len(box) - m \in Nat /\ Len(box) = m + (Len(box) - m)
    BY <2>1
  <2> QED
    BY <2>2
<1>2. /\ less \in Seq(Seq(Op)) /\ Len(less) = l
      /\ \A i \in 1 .. l : less[i] = box[i + m]
  <2>1. /\ Rest(box, m) \in Seq(Seq(Op)) /\ Len(Rest(box, m)) = Len(box) - m
        /\ \A i \in 1 .. Len(box) - m : Rest(box, m)[i] = box[i + m]
    <3>1. Rest(box, m) \in Seq(Seq(Op))
      BY SplitIs
    <3>2. Len(Rest(box, m)) = Len(box) - m
      BY SplitIs
    <3>3. ASSUME NEW S, NEW q \in Seq(S), m <= Len(q)
          PROVE  \A i \in 1 .. Len(q) - m : Rest(q, m)[i] = q[i + m]
      BY <3>3, SplitIs
    <3>4. \A i \in 1 .. Len(box) - m : Rest(box, m)[i] = box[i + m]
      BY <3>3, Zenon
    <3> QED
      BY <3>1, <3>2, <3>4
  <2> QED
    BY <1>1, <2>1
<1>3. /\ \A i \in 1 .. l : i + m \in 1 .. m + l /\ i + m \in m + 1 .. m + l
      /\ \A i \in m + 1 .. m + l : i - m \in 1 .. l /\ (i - m) + m = i
      /\ 0 + 1 = 1
  OBVIOUS
<1>4. MadeIn(less, l) \subseteq MadeIn(box, m + l)
  <2>1. ASSUME NEW n \in Node, NEW i \in 1 .. l, n \in Made(less[i], Len(less[i]))
        PROVE  n \in MadeIn(box, m + l)
    <3>1. less[i] = box[i + m] /\ i + m \in 1 .. m + l
      BY <1>2, <1>3
    <3> QED
      BY <2>1, <3>1 DEF MadeIn
  <2> QED
    BY <2>1 DEF MadeIn
<1>5. WrittenIn(less) \subseteq WrittenIn(box)
  <2>1. ASSUME NEW x, NEW i \in 1 .. l, x \in Written(less[i])
        PROVE  x \in WrittenIn(box)
    <3>1. less[i] = box[i + m] /\ i + m \in 1 .. Len(box)
      BY <1>1, <1>2, <1>3
    <3> QED
      BY <2>1, <3>1 DEF WrittenIn
  <2> QED
    BY <1>2, <2>1 DEF WrittenIn
<1>6. ASSUME NEW n, NEW k, NEW t
      PROVE  Carries(box, m, n, k, t) <=> Carries(less, 0, n, k, t)
  <2>1. ASSUME NEW b \in m + 1 .. m + l, Has(box[b], n, k, t)
        PROVE  \E i \in 1 .. l : Has(less[i], n, k, t)
    <3>1. PICK i \in 1 .. l : i + m = b
      BY <1>3
    <3> QED
      BY <1>2, <2>1, <3>1
  <2>2. ASSUME NEW i \in 1 .. l, Has(less[i], n, k, t)
        PROVE  \E b \in m + 1 .. m + l : Has(box[b], n, k, t)
    BY <1>2, <1>3, <2>2
  <2> QED
    BY <1>1, <1>2, <1>3, <2>1, <2>2 DEF Carries
<1> QED
  BY <1>1, <1>2, <1>4, <1>5, <1>6

-----------------------------------------------------------------------------
(* Every operation fits where it arrives.                                   *)
LEMMA BatchNodes ==
  ASSUME NEW s, Doc(s), NEW ops \in Seq(Op)
  PROVE  /\ DOMAIN s \subseteq DOMAIN ApplyAll(s, ops)
         /\ DOMAIN ApplyAll(s, ops) \subseteq DOMAIN s \cup Made(ops, Len(ops))
         /\ Ready(DOMAIN s, ops) =>
              DOMAIN ApplyAll(s, ops) = DOMAIN s \cup Made(ops, Len(ops))
<1>1. PICK i \in 0 .. Len(ops) : i = Len(ops) /\ Len(ops) \in Nat
  BY LengthIs
<1>2. ApplyAll(s, ops) = After(s, ops)[i]
  BY <1>1, AfterEach
<1>3. /\ DOMAIN s \subseteq DOMAIN After(s, ops)[i]
      /\ DOMAIN After(s, ops)[i] \subseteq DOMAIN s \cup Made(ops, i)
  BY AfterNodes
<1>4. Ready(DOMAIN s, ops) => DOMAIN After(s, ops)[i] = DOMAIN s \cup Made(ops, i)
  BY AfterNodes, Zenon
<1> QED
  BY <1>1, <1>2, <1>3, <1>4

(* Causal at first, and after every step. An edit fits behind what its      *)
(* client keeps for the room; Receive hands it to the room and, behind what *)
(* is on its way to them, to all others; the file is a part of the room,    *)
(* with what the client has not sent on top.                                *)
LEMMA CausalInit == Init => Causal
<1> SUFFICES ASSUME Init PROVE Causal
  OBVIOUS
<1>1. ASSUME NEW r \in Client
      PROVE  store[r] = room /\ outbox[r] = <<>> /\ inbox[r] = <<>>
  BY DEF Init
<1>2. ASSUME NEW r \in Client PROVE Coming(r) = {} /\ Leaving(r) = {}
  BY <1>1, NothingSent DEF Coming, Leaving
<1>3. ASSUME NEW r \in Client
      PROVE  Ready(DOMAIN room, outbox[r]) /\ ReadyIn(DOMAIN store[r], inbox[r])
  BY <1>1, NothingSent
<1>4. \A r \in Client : waits[r] = "nothing"
  BY DEF Init
<1> QED
  BY <1>1, <1>2, <1>3, <1>4 DEF Causal

(* A file on its way stays a part of the room, which only grows.            *)
LEMMA FilesKept ==
  ASSUME Causal, NEW q \in Client, DOMAIN room \subseteq DOMAIN room',
         waits'[q] = waits[q], snap'[q].file = snap[q].file
  PROVE  waits'[q] # "nothing" => DOMAIN snap'[q].file \subseteq DOMAIN room'
  BY DEF Causal

(* What an edit puts behind what its client keeps.                          *)
LEMMA EmitQueue ==
  ASSUME Typed, NEW r \in Client, NEW op, Own(r, op), Emit(r, op)
  PROVE  \E p \in Op :
           /\ p.kind = op.kind /\ p.id = op.id /\ p.key = op.key
           /\ p.to = op.to /\ p.time = op.time
           /\ outbox' = [q \in Client |-> IF q = r THEN Append(outbox[q], p)
                                          ELSE outbox[q]]
<1>1. PICK p \in Op :
        /\ p.kind = op.kind /\ p.id = op.id /\ p.key = op.key
        /\ p.to = op.to /\ p.time = op.time
        /\ p.alone <=> /\ <<op.id, op.key>> \notin unseen[r]
                       /\ ~\E b \in 1 .. Len(inbox[r]) : Touched(op, inbox[r][b])
        /\ outbox' = [q \in Client |-> IF q = r THEN Append(outbox[q], p)
                                       ELSE outbox[q]]
  BY EmitOut, Zenon
<1> QED
  BY <1>1, Zenon

LEMMA CausalEmit ==
  ASSUME Typed, Causal, NEW r \in Client, Emits(r)
  PROVE  Causal'
<1>1. PICK op : Own(r, op) /\ Emit(r, op)
  BY DEF Emits
<1>2. /\ store' = [q \in Client |-> IF q = r THEN Apply(store[q], op) ELSE store[q]]
      /\ inbox' = inbox /\ room' = room /\ loaded' = loaded
      /\ waits' = waits /\ snap' = snap
  BY <1>1, EmitStore, EmitKeeps
<1>3. PICK p \in Op :
        /\ p.kind = op.kind /\ p.id = op.id /\ p.key = op.key
        /\ p.to = op.to /\ p.time = op.time
        /\ outbox' = [q \in Client |-> IF q = r THEN Append(outbox[q], p)
                                       ELSE outbox[q]]
  BY <1>1, EmitQueue
<1>4. /\ Doc(store[r]) /\ op \in Op /\ outbox[r] \in Seq(Op)
      /\ inbox[r] \in Seq(Seq(Op))
  BY <1>1 DEF Own, Typed, Documents
<1>5. PICK D, R, M, C : /\ /\ D = DOMAIN store[r] /\ R = DOMAIN room
                        /\ M = Leaving(r) /\ C = Coming(r)
  OBVIOUS
<1>6. PICK new : new = {n \in Node : p.kind = "create" /\ p.id = n}
  OBVIOUS
<1>7. /\ D \cup C \subseteq R \cup M /\ Ready(R, outbox[r])
      /\ r \notin loaded => R \cup M \subseteq D \cup C /\ ReadyIn(D, inbox[r])
      /\ \A q \in Client \ {r} : M \cap Leaving(q) = {}
  BY <1>5 DEF Causal
<1>8. /\ p.kind = "create" => new = {p.id} /\ Fresh(p.id) /\ p.to \in D
      /\ p.kind # "create" => new = {} /\ p.id \in D
  <2>1. p.id \in Node
    BY OpFields
  <2> QED
    BY <1>1, <1>3, <1>5, <1>6, <2>1 DEF Own
<1>9. /\ new \cap D = {} /\ new \cap R = {}
      /\ \A q \in Client : new \cap Leaving(q) = {}
  <2>1. CASE p.kind = "create"
    <3>1. /\ p.id \notin R
          /\ \A q \in Client : /\ p.id \notin DOMAIN store[q]
                               /\ \A i \in 1 .. Len(outbox[q]) : outbox[q][i].id # p.id
      BY <1>5, <1>8, <2>1 DEF Fresh
    <3>2. \A q \in Client : p.id \notin Leaving(q)
      BY <3>1 DEF Leaving, Made
    <3> QED
      BY <1>5, <1>8, <2>1, <3>1, <3>2
  <2>2. CASE p.kind # "create"
    BY <1>8, <2>2
  <2> QED
    BY <2>1, <2>2
<1>10. DOMAIN store'[r] = D \cup new
  <2>1. store'[r] = Apply(store[r], op)
    BY <1>2
  <2>2. CASE op.kind = "create"
    <3>1. Fits(D, op) /\ new = {op.id}
      BY <1>3, <1>8, <1>9, <2>2 DEF Fits
    <3>2. DOMAIN Apply(store[r], op) = D \cup {op.id}
      BY <1>4, <1>5, <2>2, <3>1, ApplyNodes
    <3> QED
      BY <2>1, <3>1, <3>2
  <2>3. CASE op.kind # "create"
    <3>1. DOMAIN Apply(store[r], op) = D
      BY <1>4, <1>5, <2>3, ApplyNodes
    <3> QED
      BY <1>3, <1>8, <2>1, <2>3, <3>1
  <2> QED
    BY <2>2, <2>3
<1>11. /\ Leaving(r)' = M \cup new /\ Ready(R, outbox'[r])
  <2>1. outbox'[r] = Append(outbox[r], p)
    BY <1>3
  <2>2. Leaving(r)' = M \cup new
    BY <1>4, <1>5, <1>6, <2>1, OpMore DEF Leaving
  <2>3. Fits(R \cup M, p)
    BY <1>7, <1>8, <1>9, <1>5 DEF Fits
  <2>4. Ready(R, outbox'[r])
    <3>1. Fits(R \cup Made(outbox[r], Len(outbox[r])), p)
      BY <1>5, <2>3 DEF Leaving
    <3> QED
      BY <1>4, <1>7, <2>1, <3>1, OpMore
  <2> QED
    BY <2>2, <2>4
<1>12. Coming(r)' = C
  BY <1>2, <1>5 DEF Coming
<1>13. r \notin loaded => ReadyIn(DOMAIN store'[r], inbox'[r])
  <2>1. SUFFICES ASSUME r \notin loaded PROVE ReadyIn(D \cup new, inbox[r])
    BY <1>2, <1>10
  <2>2. ((D \cup new) \ D) \cap MadeIn(inbox[r], Len(inbox[r])) = {}
    <3>1. MadeIn(inbox[r], Len(inbox[r])) = C
      BY <1>5 DEF Coming
    <3> QED
      BY <1>5, <1>7, <1>9, <3>1
  <2> QED
    BY <1>4, <1>7, <2>1, <2>2, ReadyInMore
<1>14. ASSUME NEW q \in Client, q # r
       PROVE  /\ store'[q] = store[q] /\ outbox'[q] = outbox[q] /\ inbox'[q] = inbox[q]
              /\ Leaving(q)' = Leaving(q) /\ Coming(q)' = Coming(q)
  BY <1>2, <1>3, <1>14 DEF Leaving, Coming
<1>15. ASSUME NEW q \in Client
       PROVE  /\ DOMAIN store'[q] \cup Coming(q)' \subseteq DOMAIN room' \cup Leaving(q)'
              /\ q \notin loaded' => DOMAIN room' \cup Leaving(q)'
                                       \subseteq DOMAIN store'[q] \cup Coming(q)'
              /\ Ready(DOMAIN room', outbox'[q])
              /\ q \notin loaded' => ReadyIn(DOMAIN store'[q], inbox'[q])
  <2>1. CASE q = r
    BY <1>2, <1>5, <1>7, <1>10, <1>11, <1>12, <1>13, <2>1
  <2>2. CASE q # r
    BY <1>2, <1>14, <2>2 DEF Causal
  <2> QED
    BY <2>1, <2>2
<1>16. ASSUME NEW q \in Client, NEW x \in Client \ {q}
       PROVE  Leaving(q)' \cap Leaving(x)' = {}
  <2>1. Leaving(q) \cap Leaving(x) = {}
    BY DEF Causal
  <2> QED
    BY <1>5, <1>9, <1>11, <1>14, <2>1
<1>17. ASSUME NEW q \in Client
       PROVE  waits'[q] # "nothing" => DOMAIN snap'[q].file \subseteq DOMAIN room'
  BY <1>2, FilesKept
<1> QED
  BY <1>15, <1>16, <1>17 DEF Causal

LEMMA CausalReceive ==
  ASSUME Typed, Causal, NEW r \in Client, NEW k \in 1 .. sent[r], Receive(r, k)
  PROVE  Causal'
<1>1. PICK ops \in Seq(Op) : ops = Batch(r, k)
  BY ReceiveIs
<1>2. /\ room' = ApplyAll(room, ops)
      /\ inbox' = [q \in Client |-> IF q = r THEN inbox[q] ELSE Append(inbox[q], ops)]
      /\ outbox' = [q \in Client |-> IF q = r THEN Rest(outbox[q], k)
                                     ELSE Contested(outbox[q], ops)]
      /\ store' = store /\ loaded' = loaded /\ waits' = waits
  BY <1>1, ReceiveIs
<1>3. PICK R, M : /\ R = DOMAIN room /\ M = Made(ops, Len(ops))
  OBVIOUS
<1>4. PICK all \in Seq(Op), rest \in Seq(Op) :
        /\ all = outbox[r] /\ rest = Rest(all, k) /\ ops = SubSeq(all, 1, k)
        /\ k \in Nat /\ k <= Len(all)
  <2>1. outbox[r] \in Seq(Op) /\ k \in Nat /\ k <= Len(outbox[r])
    BY ReceiveIs
  <2>2. Rest(outbox[r], k) \in Seq(Op)
    BY <2>1, SplitIs
  <2> QED
    BY <1>1, <2>1, <2>2 DEF Batch
<1>5. /\ Leaving(r) = M \cup Leaving(r)' /\ Coming(r)' = Coming(r)
      /\ Ready(R, ops) /\ Ready(R \cup M, outbox'[r])
  <2>1. outbox'[r] = rest /\ inbox'[r] = inbox[r]
    BY <1>2, <1>4
  <2>2. Parts(all, ops, rest)
    BY <1>4, SplitBatch
  <2>3. Ready(R, all)
    BY <1>3, <1>4 DEF Causal
  <2>4. Ready(R, ops) /\ Ready(R \cup M, rest)
    <3>1. Ready(R, ops) /\ Ready(R \cup Made(ops, Len(ops)), rest)
      BY <2>2, <2>3 DEF Parts
    <3> QED
      BY <1>3, <3>1
  <2> QED
    BY <1>3, <1>4, <2>1, <2>2, <2>4 DEF Leaving, Coming, Parts
<1>6. DOMAIN room' = R \cup M
  <2>1. Doc(room) /\ Ready(DOMAIN room, ops)
    BY <1>3, <1>5 DEF Typed, Documents
  <2> QED
    BY <1>2, <1>3, <2>1, BatchNodes
<1>7. ASSUME NEW q \in Client, q # r
      PROVE  /\ Leaving(q)' = Leaving(q) /\ Coming(q)' = Coming(q) \cup M
             /\ Ready(R \cup M, outbox'[q])
             /\ q \notin loaded => ReadyIn(DOMAIN store[q], inbox'[q])
  <2>1. /\ outbox[q] \in Seq(Op) /\ inbox[q] \in Seq(Seq(Op))
        /\ outbox'[q] = Contested(outbox[q], ops) /\ inbox'[q] = Append(inbox[q], ops)
    BY <1>2, <1>7 DEF Typed
  <2>2. Leaving(q)' = Leaving(q)
    BY <2>1, SameBatch DEF Leaving
  <2>3. Coming(q)' = Coming(q) \cup M
    <3>1. MadeIn(inbox'[q], Len(inbox'[q])) =
            MadeIn(inbox[q], Len(inbox[q])) \cup Made(ops, Len(ops))
      BY <2>1, BoxMore, Zenon
    <3> QED
      BY <1>3, <3>1 DEF Coming
  <2>4. M \cap Leaving(q) = {}
    <3>1. Leaving(r) \cap Leaving(q) = {}
      BY <1>7 DEF Causal
    <3> QED
      BY <1>5, <3>1
  <2>5. Ready(R \cup M, outbox'[q])
    <3>1. Ready(R, outbox[q])
      BY <1>3 DEF Causal
    <3>2. ((R \cup M) \ R) \cap Made(outbox[q], Len(outbox[q])) = {}
      BY <2>4 DEF Leaving
    <3>3. Ready(R \cup M, outbox[q])
      BY <2>1, <3>1, <3>2, ReadyMore
    <3> QED
      BY <2>1, <3>3, SameBatch
  <2>6. ASSUME q \notin loaded PROVE ReadyIn(DOMAIN store[q], inbox'[q])
    <3>1. DOMAIN store[q] \cup Coming(q) = R \cup Leaving(q)
      BY <1>3, <2>6 DEF Causal
    <3>2. Ready(R, ops) /\ ReadyIn(DOMAIN store[q], inbox[q])
      BY <1>5, <2>6 DEF Causal
    <3>3. ((R \cup Leaving(q)) \ R) \cap Made(ops, Len(ops)) = {}
      BY <1>3, <2>4
    <3>4. Ready(R \cup Leaving(q), ops)
      BY <3>2, <3>3, ReadyMore
    <3>5. Ready(DOMAIN store[q] \cup MadeIn(inbox[q], Len(inbox[q])), ops)
      BY <3>1, <3>4 DEF Coming
    <3> QED
      BY <2>1, <3>2, <3>5, BoxMore
  <2> QED
    BY <2>2, <2>3, <2>5, <2>6
<1>8. ASSUME NEW q \in Client
      PROVE  /\ DOMAIN store'[q] \cup Coming(q)' \subseteq DOMAIN room' \cup Leaving(q)'
             /\ q \notin loaded' => DOMAIN room' \cup Leaving(q)'
                                      \subseteq DOMAIN store'[q] \cup Coming(q)'
             /\ Ready(DOMAIN room', outbox'[q])
             /\ q \notin loaded' => ReadyIn(DOMAIN store'[q], inbox'[q])
  <2>1. /\ DOMAIN store[q] \cup Coming(q) \subseteq R \cup Leaving(q)
        /\ q \notin loaded => /\ R \cup Leaving(q) \subseteq DOMAIN store[q] \cup Coming(q)
                              /\ ReadyIn(DOMAIN store[q], inbox[q])
    BY <1>3 DEF Causal
  <2>2. CASE q = r
    <3>1. inbox'[q] = inbox[q]
      BY <1>2, <2>2
    <3> QED
      BY <1>2, <1>3, <1>5, <1>6, <2>1, <2>2, <3>1
  <2>3. CASE q # r
    <3>1. /\ Leaving(q)' = Leaving(q) /\ Coming(q)' = Coming(q) \cup M
          /\ Ready(R \cup M, outbox'[q])
          /\ q \notin loaded => ReadyIn(DOMAIN store[q], inbox'[q])
      BY <1>7, <2>3
    <3>2. store'[q] = store[q] /\ loaded' = loaded
      BY <1>2
    <3>3. /\ DOMAIN store[q] \cup Coming(q)' \subseteq (R \cup M) \cup Leaving(q)'
          /\ q \notin loaded => (R \cup M) \cup Leaving(q)'
                                   \subseteq DOMAIN store[q] \cup Coming(q)'
      BY <2>1, <3>1
    <3> QED
      BY <1>6, <3>1, <3>2, <3>3
  <2> QED
    BY <2>2, <2>3
<1>9. ASSUME NEW q \in Client, NEW x \in Client \ {q}
      PROVE  Leaving(q)' \cap Leaving(x)' = {}
  <2>1. Leaving(q) \cap Leaving(x) = {}
    BY DEF Causal
  <2> QED
    BY <1>5, <1>7, <2>1
<1>10. ASSUME NEW q \in Client
       PROVE  waits'[q] # "nothing" => DOMAIN snap'[q].file \subseteq DOMAIN room'
  <2>1. snap'[q].file = snap[q].file
    <3>1. PICK l : snap'[q] = [file |-> snap[q].file, clock |-> snap[q].clock,
                               missed |-> snap[q].missed, later |-> l]
      BY ReceiveSends
    <3> QED
      BY <3>1
  <2> QED
    BY <1>2, <1>3, <1>6, <2>1, FilesKept
<1> QED
  BY <1>8, <1>9, <1>10 DEF Causal

LEMMA CausalRead ==
  ASSUME Typed, Causal, NEW r \in Client, Read(r)
  PROVE  Causal'
<1>1. PICK ops \in Seq(Op) : ops = Head(inbox[r])
  BY ReadIs
<1>2. /\ inbox[r] \in Seq(Seq(Op)) /\ inbox[r] # <<>>
      /\ inbox' = [q \in Client |-> IF q = r THEN Tail(inbox[q]) ELSE inbox[q]]
      /\ outbox' = outbox /\ room' = room /\ loaded' = loaded
      /\ waits' = waits /\ snap' = snap
  BY ReadIs
<1>3. store' = [q \in Client |-> IF q = r THEN ApplyAll(store[q], Head(inbox[q]))
                                 ELSE store[q]]
  BY ReadIs
<1>4. PICK D, M : /\ D = DOMAIN store[r] /\ M = Made(ops, Len(ops))
  OBVIOUS
<1>5. Doc(store[r])
  BY DEF Typed, Documents
<1>6. store'[r] = ApplyAll(store[r], ops) /\ inbox'[r] = Tail(inbox[r])
  BY <1>1, <1>2, <1>3
<1>7. Coming(r) = M \cup Coming(r)'
  <2>1. PICK box \in Seq(Seq(Op)) : box = inbox[r] /\ box # <<>>
    BY <1>2
  <2>2. PICK less : less = Tail(box) /\ less = inbox'[r]
    BY <1>6, <2>1
  <2>3. MadeIn(box, Len(box)) =
          Made(Head(box), Len(Head(box))) \cup MadeIn(Tail(box), Len(Tail(box)))
    <3>1. box # <<>>
      BY <2>1
    <3> QED
      BY <3>1, BoxLess, Zenon
  <2>4. ops = Head(box)
    BY <1>1, <2>1
  <2> QED
    BY <1>4, <2>1, <2>2, <2>3, <2>4 DEF Coming
<1>8. D \subseteq DOMAIN store'[r] /\ DOMAIN store'[r] \subseteq D \cup M
  BY <1>4, <1>5, <1>6, BatchNodes
<1>9. ASSUME r \notin loaded
      PROVE  DOMAIN store'[r] = D \cup M /\ ReadyIn(D \cup M, inbox'[r])
  <2>1. ReadyIn(D, inbox[r])
    BY <1>4, <1>9 DEF Causal
  <2>2. Ready(D, ops) /\ ReadyIn(D \cup M, inbox'[r])
    BY <1>1, <1>2, <1>4, <1>6, <2>1, BoxLess
  <2> QED
    BY <1>4, <1>5, <1>6, <2>2, BatchNodes
<1>10. \A q \in Client : Leaving(q)' = Leaving(q)
  BY <1>2 DEF Leaving
<1>11. ASSUME NEW q \in Client, q # r
       PROVE  /\ store'[q] = store[q] /\ inbox'[q] = inbox[q]
              /\ Coming(q)' = Coming(q)
  BY <1>2, <1>3, <1>11 DEF Coming
<1>12. ASSUME NEW q \in Client
       PROVE  /\ DOMAIN store'[q] \cup Coming(q)' \subseteq DOMAIN room' \cup Leaving(q)'
              /\ q \notin loaded' => DOMAIN room' \cup Leaving(q)'
                                       \subseteq DOMAIN store'[q] \cup Coming(q)'
              /\ Ready(DOMAIN room', outbox'[q])
              /\ q \notin loaded' => ReadyIn(DOMAIN store'[q], inbox'[q])
  <2>1. /\ DOMAIN store[q] \cup Coming(q) \subseteq DOMAIN room \cup Leaving(q)
        /\ Ready(DOMAIN room, outbox[q])
        /\ q \notin loaded => /\ DOMAIN room \cup Leaving(q)
                                   \subseteq DOMAIN store[q] \cup Coming(q)
                              /\ ReadyIn(DOMAIN store[q], inbox[q])
    BY DEF Causal
  <2>2. CASE q = r
    BY <1>2, <1>4, <1>7, <1>8, <1>9, <1>10, <2>1, <2>2
  <2>3. CASE q # r
    BY <1>2, <1>10, <1>11, <2>1, <2>3
  <2> QED
    BY <2>2, <2>3
<1>13. ASSUME NEW q \in Client, NEW x \in Client \ {q}
       PROVE  Leaving(q)' \cap Leaving(x)' = {}
  BY <1>10 DEF Causal
<1>14. ASSUME NEW q \in Client
       PROVE  waits'[q] # "nothing" => DOMAIN snap'[q].file \subseteq DOMAIN room'
  BY <1>2, FilesKept
<1> QED
  BY <1>12, <1>13, <1>14 DEF Causal

LEMMA CausalGreet ==
  ASSUME Typed, Causal, NEW r \in Client, Greet(r)
  PROVE  Causal'
<1>1. /\ store' = store /\ outbox' = outbox /\ inbox' = inbox /\ room' = room
      /\ loaded' = loaded
  BY GreetIs
<1>2. ASSUME NEW q \in Client
      PROVE  waits'[q] # "nothing" => DOMAIN snap'[q].file \subseteq DOMAIN room'
  <2>1. CASE q = r
    <3>1. PICK s : /\ s = Snapshot(room)
      OBVIOUS
    <3>2. snap'[q].file = s
      BY <2>1, <3>1, GreetIs
    <3>3. DOMAIN s \subseteq DOMAIN room
      BY <3>1, SnapshotIs
    <3> QED
      BY <1>1, <3>2, <3>3
  <2>2. CASE q # r
    <3>1. waits'[q] = waits[q] /\ snap'[q] = snap[q]
      BY <2>2, GreetIs
    <3> QED
      BY <1>1, <3>1, FilesKept
  <2> QED
    BY <2>1, <2>2
<1>3. \A q \in Client : Leaving(q)' = Leaving(q) /\ Coming(q)' = Coming(q)
  BY <1>1 DEF Leaving, Coming
<1> QED
  BY <1>1, <1>2, <1>3 DEF Causal

LEMMA CausalWelcome ==
  ASSUME Typed, Causal, NEW r \in Client, Welcome(r)
  PROVE  Causal'
<1>1. /\ store' = store /\ outbox' = outbox /\ room' = room
      /\ loaded' = loaded \cup {r} /\ waits[r] = "welcome"
  BY WelcomeIs
<1>2. ASSUME NEW q \in Client, q # r
      PROVE  /\ inbox'[q] = inbox[q] /\ waits'[q] = waits[q] /\ snap'[q] = snap[q]
             /\ Coming(q)' = Coming(q) /\ (q \in loaded' <=> q \in loaded)
  BY <1>2, WelcomeIs DEF Coming
<1>3. Coming(r)' \subseteq Coming(r)
  <2>1. PICK box \in Seq(Seq(Op)), m \in Nat :
          /\ box = inbox[r] /\ m = snap[r].missed /\ m <= Len(box)
    BY DEF Typed, Sending, Snapped
  <2>2. PICK less : less = Rest(box, m) /\ less = inbox'[r]
    BY <2>1, WelcomeIs
  <2>3. MadeIn(less, Len(less)) \subseteq MadeIn(box, Len(box))
    BY <2>1, <2>2, BoxRest
  <2> QED
    BY <2>1, <2>2, <2>3 DEF Coming
<1>4. \A q \in Client : Leaving(q)' = Leaving(q)
  BY <1>1 DEF Leaving
<1>5. ASSUME NEW q \in Client
      PROVE  /\ DOMAIN store'[q] \cup Coming(q)' \subseteq DOMAIN room' \cup Leaving(q)'
             /\ q \notin loaded' => DOMAIN room' \cup Leaving(q)'
                                      \subseteq DOMAIN store'[q] \cup Coming(q)'
             /\ Ready(DOMAIN room', outbox'[q])
             /\ q \notin loaded' => ReadyIn(DOMAIN store'[q], inbox'[q])
             /\ waits'[q] # "nothing" => DOMAIN snap'[q].file \subseteq DOMAIN room'
  <2>1. /\ DOMAIN store[q] \cup Coming(q) \subseteq DOMAIN room \cup Leaving(q)
        /\ Ready(DOMAIN room, outbox[q])
        /\ q \notin loaded => /\ DOMAIN room \cup Leaving(q)
                                   \subseteq DOMAIN store[q] \cup Coming(q)
                              /\ ReadyIn(DOMAIN store[q], inbox[q])
        /\ waits[q] # "nothing" => DOMAIN snap[q].file \subseteq DOMAIN room
    BY DEF Causal
  <2>2. CASE q = r
    <3>1. q \in loaded' /\ snap'[q].file = snap[q].file /\ waits[q] # "nothing"
      BY <1>1, <2>2, WelcomeIs
    <3> QED
      BY <1>1, <1>3, <1>4, <2>1, <2>2, <3>1
  <2>3. CASE q # r
    BY <1>1, <1>2, <1>4, <2>1, <2>3
  <2> QED
    BY <2>2, <2>3
<1>6. ASSUME NEW q \in Client, NEW x \in Client \ {q}
      PROVE  Leaving(q)' \cap Leaving(x)' = {}
  BY <1>4 DEF Causal
<1> QED
  BY <1>5, <1>6 DEF Causal

LEMMA CausalLoad ==
  ASSUME Typed, Causal, NEW r \in Client, Load(r)
  PROVE  Causal'
<1>1. PICK unsent, s :
        /\ unsent \in Seq(Op) /\ unsent = Rest(outbox[r], sent[r])
        /\ s = snap[r].file
  BY SentIs
<1>2. /\ store'[r] = ApplyAll(s, unsent) /\ waits[r] = "file" /\ waits'[r] = "nothing"
      /\ outbox' = outbox /\ inbox' = inbox /\ room' = room /\ loaded' = loaded
  BY <1>1, LoadIs
<1>3. \A q \in Client \ {r} : /\ store'[q] = store[q] /\ waits'[q] = waits[q]
                              /\ snap'[q] = snap[q]
  BY <1>1, LoadIs
<1>4. /\ Doc(s) /\ DOMAIN s \subseteq DOMAIN room /\ r \in loaded
  BY <1>1, <1>2 DEF Typed, Sending, Snapped, Causal
<1>5. Made(unsent, Len(unsent)) \subseteq Leaving(r)
  <2>1. PICK all \in Seq(Op), k \in Nat : all = outbox[r] /\ k = sent[r] /\ k <= Len(all)
    BY SentIs
  <2>2. unsent = Rest(all, k)
    BY <1>1, <2>1
  <2>3. Parts(all, SubSeq(all, 1, k), unsent)
    BY <2>1, <2>2, SplitBatch
  <2> QED
    BY <2>1, <2>3 DEF Leaving, Parts
<1>6. DOMAIN store'[r] \subseteq DOMAIN room \cup Leaving(r)
  <2>1. DOMAIN ApplyAll(s, unsent) \subseteq DOMAIN s \cup Made(unsent, Len(unsent))
    BY <1>1, <1>4, BatchNodes
  <2> QED
    BY <1>2, <1>4, <1>5, <2>1
<1>7. \A q \in Client : Leaving(q)' = Leaving(q) /\ Coming(q)' = Coming(q)
  BY <1>2 DEF Leaving, Coming
<1>8. ASSUME NEW q \in Client
      PROVE  /\ DOMAIN store'[q] \cup Coming(q)' \subseteq DOMAIN room' \cup Leaving(q)'
             /\ q \notin loaded' => DOMAIN room' \cup Leaving(q)'
                                      \subseteq DOMAIN store'[q] \cup Coming(q)'
             /\ Ready(DOMAIN room', outbox'[q])
             /\ q \notin loaded' => ReadyIn(DOMAIN store'[q], inbox'[q])
             /\ waits'[q] # "nothing" => DOMAIN snap'[q].file \subseteq DOMAIN room'
  <2>1. /\ DOMAIN store[q] \cup Coming(q) \subseteq DOMAIN room \cup Leaving(q)
        /\ Ready(DOMAIN room, outbox[q])
        /\ q \notin loaded => /\ DOMAIN room \cup Leaving(q)
                                   \subseteq DOMAIN store[q] \cup Coming(q)
                              /\ ReadyIn(DOMAIN store[q], inbox[q])
        /\ waits[q] # "nothing" => DOMAIN snap[q].file \subseteq DOMAIN room
    BY DEF Causal
  <2>2. CASE q = r
    BY <1>2, <1>4, <1>6, <1>7, <2>1, <2>2
  <2>3. CASE q # r
    BY <1>2, <1>3, <1>7, <2>1, <2>3
  <2> QED
    BY <2>2, <2>3
<1>9. ASSUME NEW q \in Client, NEW x \in Client \ {q}
      PROVE  Leaving(q)' \cap Leaving(x)' = {}
  BY <1>7 DEF Causal
<1> QED
  BY <1>8, <1>9 DEF Causal

LEMMA CausalNext == Typed /\ Causal /\ [Next]_vars => Causal'
<1> SUFFICES ASSUME Typed, Causal, [Next]_vars PROVE Causal'
  OBVIOUS
<1>1. ASSUME store' = store, outbox' = outbox, inbox' = inbox, room' = room,
             loaded' = loaded, waits' = waits, snap' = snap
      PROVE  Causal'
  BY <1>1 DEF Causal, Coming, Leaving
<1>2. CASE UNCHANGED vars
  BY <1>1, <1>2 DEF vars, clientVars, roomVars, obsVars
<1>3. CASE Next
  <2>1. PICK r \in Client : \/ Emits(r) \/ Ticks(r) \/ Flush(r) \/ Takes(r)
                            \/ Read(r) \/ Greet(r) \/ Welcome(r) \/ Load(r)
    BY <1>3, Acts
  <2>2. CASE Ticks(r)
    BY <1>1, <2>2, TicksIs
  <2>3. CASE Flush(r)
    BY <1>1, <2>3, FlushIs
  <2>4. CASE Takes(r)
    BY <2>4, CausalReceive DEF Takes
  <2> QED
    BY <2>1, <2>2, <2>3, <2>4, CausalEmit, CausalRead, CausalGreet, CausalWelcome,
       CausalLoad
<1> QED
  BY <1>2, <1>3

-----------------------------------------------------------------------------
(* Times and values that can still be seen.                                 *)
LEMMA HeldIs ==
  ASSUME NEW s, Doc(s), NEW x \in Held(s)
  PROVE  /\ x[3] \in Time /\ x[3][1] \in Nat
         /\ \A c \in Nat : InClock(s, c) => x[3][1] <= c
<1>1. PICK n \in DOMAIN s, k \in Register : x = <<n, k, TimeAt(s, n, k), Now(s, n, k)>>
  BY DEF Held
<1>2. x[3] = TimeAt(s, n, k)
  BY <1>1
<1>3. x[3] \in Time
  BY <1>2, TimeIs
<1>4. ASSUME NEW c \in Nat, InClock(s, c) PROVE x[3][1] <= c
  BY <1>2, <1>4 DEF InClock, TimeAt, Register
<1> QED
  BY <1>3, <1>4, StampCounts

LEMMA WrittenIs ==
  ASSUME NEW ops \in Seq(Op)
  PROVE  /\ \A x \in Written(ops) : \E i \in 1 .. Len(ops) :
              /\ ops[i] \in Op /\ x[1] = ops[i].id /\ x[2] = ops[i].key
              /\ x[3] = ops[i].time /\ x[4] = ops[i].to
              /\ x[3] \in Time /\ x[3][1] \in Nat
         /\ \A i \in 1 .. Len(ops) :
              <<ops[i].id, ops[i].key, ops[i].time, ops[i].to>> \in Written(ops)
<1>1. ASSUME NEW x \in Written(ops)
      PROVE  \E i \in 1 .. Len(ops) :
              /\ ops[i] \in Op /\ x[1] = ops[i].id /\ x[2] = ops[i].key
              /\ x[3] = ops[i].time /\ x[4] = ops[i].to
              /\ x[3] \in Time /\ x[3][1] \in Nat
  <2>1. PICK i \in 1 .. Len(ops) : x = <<ops[i].id, ops[i].key, ops[i].time, ops[i].to>>
    BY DEF Written
  <2>2. ops[i] \in Op
    BY LengthIs
  <2>3. ops[i].time \in Time /\ ops[i].time[1] \in Nat
    BY <2>2, OpFields, StampCounts
  <2> QED
    BY <2>1, <2>2, <2>3
<1>2. \A i \in 1 .. Len(ops) :
        <<ops[i].id, ops[i].key, ops[i].time, ops[i].to>> \in Written(ops)
  BY DEF Written
<1> QED
  BY <1>1, <1>2

(* Who has what can be seen.                                                *)
LEMMA UnionsAre ==
  /\ \A st, ld, x : x \in HeldBy(st, ld)
                       <=> \E r \in Client : r \notin ld /\ x \in Held(st[r])
  /\ \A out, x : x \in SentBy(out) <=> \E r \in Client : x \in Written(out[r])
  /\ \A box, x : x \in OnTheWay(box) <=> \E r \in Client : x \in WrittenIn(box[r])
<1>1. \A st, ld, x : x \in HeldBy(st, ld)
                       <=> \E r \in Client : r \notin ld /\ x \in Held(st[r])
  BY DEF HeldBy
<1>2. \A out, x : x \in SentBy(out) <=> \E r \in Client : x \in Written(out[r])
  BY DEF SentBy
<1>3. \A box, x : x \in OnTheWay(box) <=> \E r \in Client : x \in WrittenIn(box[r])
  BY DEF OnTheWay
<1> QED
  BY <1>1, <1>2, <1>3

LEMMA SeenIs ==
  \A x : x \in Seen <=>
           \/ x \in Blank \/ x \in Held(room)
           \/ \E r \in Client : r \notin loaded /\ x \in Held(store[r])
           \/ \E r \in Client : x \in Written(outbox[r])
           \/ \E r \in Client : x \in WrittenIn(inbox[r])
  BY UnionsAre DEF Seen

LEMMA SeenHas ==
  /\ Blank \subseteq Seen /\ Held(room) \subseteq Seen
  /\ \A r \in Client : r \notin loaded => Held(store[r]) \subseteq Seen
  /\ \A r \in Client : Written(outbox[r]) \subseteq Seen
  /\ \A r \in Client : WrittenIn(inbox[r]) \subseteq Seen
  BY SeenIs

LEMMA SeenNext ==
  \A x : x \in Seen' <=>
           \/ x \in Blank \/ x \in Held(room')
           \/ \E r \in Client : r \notin loaded' /\ x \in Held(store'[r])
           \/ \E r \in Client : x \in Written(outbox'[r])
           \/ \E r \in Client : x \in WrittenIn(inbox'[r])
  BY UnionsAre DEF Seen

(* Only an edit brings something new.                                       *)
LEMMA SeenEmit ==
  ASSUME Typed, NEW r \in Client, NEW op, Own(r, op), Emit(r, op)
  PROVE  Seen' \subseteq Seen \cup {<<op.id, op.key, op.time, op.to>>}
<1>1. /\ store' = [q \in Client |-> IF q = r THEN Apply(store[q], op) ELSE store[q]]
      /\ inbox' = inbox /\ room' = room /\ loaded' = loaded
  BY EmitStore, EmitKeeps
<1>2. PICK p \in Op :
        /\ p.id = op.id /\ p.key = op.key /\ p.to = op.to /\ p.time = op.time
        /\ outbox' = [q \in Client |-> IF q = r THEN Append(outbox[q], p)
                                       ELSE outbox[q]]
  BY EmitQueue
<1>3. PICK new : new = <<op.id, op.key, op.time, op.to>>
  OBVIOUS
<1>4. SUFFICES ASSUME NEW x \in Seen' PROVE x \in Seen \cup {new}
  BY <1>3
<1>5. \/ x \in Blank \/ x \in Held(room')
      \/ \E q \in Client : q \notin loaded' /\ x \in Held(store'[q])
      \/ \E q \in Client : x \in Written(outbox'[q])
      \/ \E q \in Client : x \in WrittenIn(inbox'[q])
  BY SeenNext
<1>6. ASSUME NEW q \in Client, q \notin loaded, x \in Held(store'[q])
      PROVE  x \in Seen \cup {new}
  <2>1. CASE q = r
    <3>1. Held(store'[q]) \subseteq Held(store[r]) \cup Blank \cup {new}
      <4>1. store'[q] = Apply(store[r], op)
        BY <1>1, <2>1
      <4>2. Doc(store[r]) /\ op \in Op
        BY DEF Typed, Documents, Own
      <4> QED
        BY <1>3, <4>1, <4>2, HeldStep
    <3> QED
      BY <1>6, <2>1, <3>1, SeenHas
  <2>2. CASE q # r
    <3>1. store'[q] = store[q]
      BY <1>1, <2>2
    <3> QED
      BY <1>6, <3>1, SeenHas
  <2> QED
    BY <2>1, <2>2
<1>7. ASSUME NEW q \in Client, x \in Written(outbox'[q])
      PROVE  x \in Seen \cup {new}
  <2>1. CASE q = r
    <3>1. Written(outbox'[q]) = Written(outbox[q]) \cup {<<p.id, p.key, p.time, p.to>>}
      <4>1. PICK ops, more : ops \in Seq(Op) /\ ops = outbox[q] /\ more = outbox'[q]
                                         /\ more = Append(ops, p)
        BY <1>2, <2>1 DEF Typed
      <4>2. Written(more) = Written(ops) \cup {<<p.id, p.key, p.time, p.to>>}
        BY <4>1, OpMore
      <4> QED
        BY <4>1, <4>2
    <3> QED
      BY <1>2, <1>3, <1>7, <3>1, SeenHas
  <2>2. CASE q # r
    <3>1. outbox'[q] = outbox[q]
      BY <1>2, <2>2
    <3> QED
      BY <1>7, <3>1, SeenHas
  <2> QED
    BY <2>1, <2>2
<1> QED
  BY <1>1, <1>5, <1>6, <1>7, SeenHas

(* What is delivered was to be seen before, and a client that is sent the   *)
(* file is not looked at any more.                                          *)
LEMMA SeenReceive ==
  ASSUME Typed, NEW r \in Client, NEW k \in 1 .. sent[r], Receive(r, k)
  PROVE  Seen' \subseteq Seen
<1>1. PICK ops \in Seq(Op) : ops = Batch(r, k)
  BY ReceiveIs
<1>2. /\ room' = ApplyAll(room, ops)
      /\ inbox' = [q \in Client |-> IF q = r THEN inbox[q] ELSE Append(inbox[q], ops)]
      /\ outbox' = [q \in Client |-> IF q = r THEN Rest(outbox[q], k)
                                     ELSE Contested(outbox[q], ops)]
      /\ store' = store /\ loaded' = loaded
  BY <1>1, ReceiveIs
<1>3. SUFFICES ASSUME NEW x \in Seen' PROVE x \in Seen
  OBVIOUS
<1>4. \/ x \in Blank \/ x \in Held(room')
      \/ \E q \in Client : q \notin loaded' /\ x \in Held(store'[q])
      \/ \E q \in Client : x \in Written(outbox'[q])
      \/ \E q \in Client : x \in WrittenIn(inbox'[q])
  BY SeenNext
<1>5. /\ Written(ops) \subseteq Seen
      /\ Written(outbox'[r]) \subseteq Written(outbox[r])
  <2>1. PICK all, rest :
          /\ all = outbox[r] /\ rest = Rest(all, k) /\ ops = SubSeq(all, 1, k)
          /\ all \in Seq(Op) /\ k \in Nat /\ k <= Len(all)
    BY <1>1, ReceiveIs DEF Batch
  <2>2. Parts(all, ops, rest)
    BY <2>1, SplitBatch
  <2>3. outbox'[r] = rest
    BY <1>2, <2>1
  <2> QED
    BY <2>1, <2>2, <2>3, SeenHas DEF Parts
<1>6. CASE x \in Held(room')
  <2>1. Held(room') \subseteq Held(room) \cup Blank \cup Written(ops)
    BY <1>2, HeldAfter DEF Typed, Documents
  <2> QED
    BY <1>6, <1>5, <2>1, SeenHas
<1>7. ASSUME NEW q \in Client, x \in Written(outbox'[q]) PROVE x \in Seen
  <2>1. CASE q = r
    BY <1>7, <1>5, <2>1, SeenHas
  <2>2. CASE q # r
    <3>1. outbox'[q] = Contested(outbox[q], ops) /\ outbox[q] \in Seq(Op)
      BY <1>2, <2>2 DEF Typed
    <3>2. Written(outbox'[q]) = Written(outbox[q])
      BY <3>1, SameBatch
    <3> QED
      BY <1>7, <3>2, SeenHas
  <2> QED
    BY <2>1, <2>2
<1>8. ASSUME NEW q \in Client, x \in WrittenIn(inbox'[q]) PROVE x \in Seen
  <2>1. CASE q = r
    <3>1. inbox'[q] = inbox[q]
      BY <1>2, <2>1
    <3> QED
      BY <1>8, <3>1, SeenHas
  <2>2. CASE q # r
    <3>1. PICK box, more : box \in Seq(Seq(Op)) /\ box = inbox[q] /\ more = inbox'[q]
                                            /\ more = Append(box, ops)
      BY <1>2, <2>2 DEF Typed
    <3>2. WrittenIn(more) = WrittenIn(box) \cup Written(ops)
      BY <3>1, BoxMore
    <3> QED
      BY <1>8, <1>5, <3>1, <3>2, SeenHas
  <2> QED
    BY <2>1, <2>2
<1> QED
  BY <1>2, <1>4, <1>6, <1>7, <1>8, SeenHas

LEMMA SeenRead ==
  ASSUME Typed, NEW r \in Client, Read(r)
  PROVE  /\ Written(Head(inbox[r])) \subseteq WrittenIn(inbox[r])
         /\ WrittenIn(inbox'[r]) \subseteq WrittenIn(inbox[r])
         /\ Held(store'[r]) \subseteq
              Held(store[r]) \cup Blank \cup Written(Head(inbox[r]))
         /\ Seen' \subseteq Seen
<1>1. PICK ops \in Seq(Op) : ops = Head(inbox[r])
  BY ReadIs
<1>2. /\ inbox[r] \in Seq(Seq(Op)) /\ inbox[r] # <<>>
      /\ inbox' = [q \in Client |-> IF q = r THEN Tail(inbox[q]) ELSE inbox[q]]
      /\ outbox' = outbox /\ room' = room /\ loaded' = loaded
  BY ReadIs
<1>3. store' = [q \in Client |-> IF q = r THEN ApplyAll(store[q], Head(inbox[q]))
                                 ELSE store[q]]
  BY ReadIs
<1>4. WrittenIn(inbox[r]) = Written(ops) \cup WrittenIn(inbox'[r])
  <2>1. PICK box \in Seq(Seq(Op)) : box = inbox[r] /\ box # <<>>
    BY <1>2
  <2>2. WrittenIn(box) = Written(Head(box)) \cup WrittenIn(Tail(box))
    <3>1. box # <<>>
      BY <2>1
    <3> QED
      BY <3>1, BoxLess
  <2>3. Tail(box) = inbox'[r] /\ Head(box) = ops
    BY <1>1, <1>2, <2>1
  <2> QED
    BY <2>1, <2>2, <2>3
<1>5. Held(store'[r]) \subseteq Held(store[r]) \cup Blank \cup Written(ops)
  <2>1. store'[r] = ApplyAll(store[r], ops) /\ Doc(store[r])
    BY <1>1, <1>3 DEF Typed, Documents
  <2> QED
    BY <2>1, HeldAfter
<1>6. ASSUME NEW x \in Seen' PROVE x \in Seen
  <2>1. \/ x \in Blank \/ x \in Held(room')
        \/ \E q \in Client : q \notin loaded' /\ x \in Held(store'[q])
        \/ \E q \in Client : x \in Written(outbox'[q])
        \/ \E q \in Client : x \in WrittenIn(inbox'[q])
    BY SeenNext
  <2>2. ASSUME NEW q \in Client, q \notin loaded, x \in Held(store'[q]) PROVE x \in Seen
    <3>1. CASE q = r
      BY <1>4, <1>5, <2>2, <3>1, SeenHas
    <3>2. CASE q # r
      <4>1. store'[q] = store[q]
        BY <1>3, <3>2
      <4> QED
        BY <2>2, <4>1, SeenHas
    <3> QED
      BY <3>1, <3>2
  <2>3. ASSUME NEW q \in Client, x \in WrittenIn(inbox'[q]) PROVE x \in Seen
    <3>1. CASE q = r
      BY <1>4, <2>3, <3>1, SeenHas
    <3>2. CASE q # r
      <4>1. inbox'[q] = inbox[q]
        BY <1>2, <3>2
      <4> QED
        BY <2>3, <4>1, SeenHas
    <3> QED
      BY <3>1, <3>2
  <2> QED
    BY <1>2, <2>1, <2>2, <2>3, SeenHas
<1> QED
  BY <1>1, <1>4, <1>5, <1>6

LEMMA SeenWelcome ==
  ASSUME Typed, NEW r \in Client, Welcome(r)
  PROVE  /\ WrittenIn(inbox'[r]) \subseteq WrittenIn(inbox[r])
         /\ Seen' \subseteq Seen
<1>1. /\ inbox' = [q \in Client |-> IF q = r THEN Rest(inbox[q], snap[q].missed)
                                    ELSE inbox[q]]
      /\ store' = store /\ outbox' = outbox /\ room' = room
      /\ loaded' = loaded \cup {r}
  BY WelcomeIs
<1>2. WrittenIn(inbox'[r]) \subseteq WrittenIn(inbox[r])
  <2>1. PICK box \in Seq(Seq(Op)), m \in Nat :
          /\ box = inbox[r] /\ m = snap[r].missed /\ m <= Len(box)
    BY DEF Typed, Sending, Snapped
  <2>2. PICK less : less = Rest(box, m) /\ less = inbox'[r]
    BY <1>1, <2>1
  <2>3. WrittenIn(less) \subseteq WrittenIn(box)
    BY <2>1, <2>2, BoxRest
  <2> QED
    BY <2>1, <2>2, <2>3
<1>3. ASSUME NEW x \in Seen' PROVE x \in Seen
  <2>1. \/ x \in Blank \/ x \in Held(room')
        \/ \E q \in Client : q \notin loaded' /\ x \in Held(store'[q])
        \/ \E q \in Client : x \in Written(outbox'[q])
        \/ \E q \in Client : x \in WrittenIn(inbox'[q])
    BY SeenNext
  <2>2. ASSUME NEW q \in Client, q \notin loaded', x \in Held(store'[q])
        PROVE  x \in Seen
    BY <1>1, <2>2, SeenHas
  <2>3. ASSUME NEW q \in Client, x \in WrittenIn(inbox'[q]) PROVE x \in Seen
    <3>1. CASE q = r
      BY <1>2, <2>3, <3>1, SeenHas
    <3>2. CASE q # r
      <4>1. inbox'[q] = inbox[q]
        BY <1>1, <3>2
      <4> QED
        BY <2>3, <4>1, SeenHas
    <3> QED
      BY <3>1, <3>2
  <2> QED
    BY <1>1, <2>1, <2>2, <2>3, SeenHas
<1> QED
  BY <1>2, <1>3

LEMMA SeenLoad ==
  ASSUME Typed, NEW r \in Client, Load(r)
  PROVE  Seen' \subseteq Seen
<1>1. PICK unsent : unsent = Rest(outbox[r], sent[r])
  OBVIOUS
<1>2. /\ outbox' = outbox /\ inbox' = inbox /\ room' = room /\ loaded' = loaded
      /\ waits[r] = "file" /\ \A q \in Client \ {r} : store'[q] = store[q]
  BY <1>1, LoadIs
<1>3. r \in loaded
  BY <1>2 DEF Typed, Sending, Snapped
<1>4. ASSUME NEW x \in Seen' PROVE x \in Seen
  <2>1. \/ x \in Blank \/ x \in Held(room')
        \/ \E q \in Client : q \notin loaded' /\ x \in Held(store'[q])
        \/ \E q \in Client : x \in Written(outbox'[q])
        \/ \E q \in Client : x \in WrittenIn(inbox'[q])
    BY SeenNext
  <2>2. ASSUME NEW q \in Client, q \notin loaded', x \in Held(store'[q])
        PROVE  x \in Seen
    <3>1. store'[q] = store[q] /\ q \notin loaded
      BY <1>2, <1>3, <2>2
    <3> QED
      BY <2>2, <3>1, SeenHas
  <2> QED
    BY <1>2, <2>1, <2>2, SeenHas
<1> QED
  BY <1>4

LEMMA SeenStays ==
  ASSUME store' = store, outbox' = outbox, inbox' = inbox, room' = room,
         loaded' = loaded
  PROVE  Seen' = Seen
  BY DEF Seen

-----------------------------------------------------------------------------
(* Times: none is used twice.                                               *)
LEMMA SeenTimes ==
  ASSUME Typed, NEW x \in Seen
  PROVE  x[3] \in Time /\ x[3][1] \in Nat
<1>1. CASE x \in Blank
  <2>1. x[3] = Zero
    BY <1>1 DEF Blank
  <2> QED
    BY <2>1, Zeros, StampCounts
<1>2. CASE x \in Held(room)
  BY <1>2, HeldIs DEF Typed, Documents
<1>3. ASSUME NEW r \in Client, x \in Held(store[r])
      PROVE  x[3] \in Time /\ x[3][1] \in Nat
  BY <1>3, HeldIs DEF Typed, Documents
<1>4. ASSUME NEW ops \in Seq(Op), x \in Written(ops)
      PROVE  x[3] \in Time /\ x[3][1] \in Nat
  BY <1>4, WrittenIs
<1>5. ASSUME NEW r \in Client, x \in WrittenIn(inbox[r])
      PROVE  x[3] \in Time /\ x[3][1] \in Nat
  <2>1. PICK box \in Seq(Seq(Op)) : box = inbox[r]
    BY DEF Typed
  <2>2. PICK b \in 1 .. Len(box) : x \in Written(box[b])
    BY <1>5, <2>1 DEF WrittenIn
  <2>3. box[b] \in Seq(Op)
    BY LengthIs
  <2> QED
    BY <1>4, <2>2, <2>3
<1>6. \A r \in Client : outbox[r] \in Seq(Op)
  BY DEF Typed
<1> QED
  BY <1>1, <1>2, <1>3, <1>4, <1>5, <1>6, SeenIs

(* Dated, Known and Passed at first, and after every step.                  *)
LEMMA DatedInit == Init => Dated /\ Known /\ Passed
<1> SUFFICES ASSUME Init PROVE Dated /\ Known /\ Passed
  OBVIOUS
<1>1. /\ room = File
      /\ \A r \in Client : /\ store[r] = File /\ clock[r] = 0 /\ snap[r].missed = 0
                           /\ outbox[r] = <<>> /\ inbox[r] = <<>>
  BY DEF Init, NoSnap
<1>2. ASSUME NEW x \in Seen PROVE x[3] = Zero
  <2>1. CASE x \in Blank
    BY <2>1 DEF Blank
  <2>2. CASE x \in Held(File)
    <3>1. PICK n \in DOMAIN File, k \in Register :
            x = <<n, k, TimeAt(File, n, k), Now(File, n, k)>>
      BY <2>2 DEF Held
    <3>2. PICK p \in Node \cup {NoNode} : p = IF n = Root THEN NoNode ELSE Root
      OBVIOUS
    <3>3. File[n] = Record(p, Zero)
      BY <3>2 DEF File
    <3> QED
      BY <3>1, <3>3, RecordIs, Zeros DEF TimeAt, Register
  <2>3. x \in Blank \/ x \in Held(File)
    BY <1>1, SeenIs, NothingSent
  <2> QED
    BY <2>1, <2>2, <2>3
<1>3. Zero[1] = 0 /\ Zero[2] = 0 /\ 1 .. 0 = {}
  BY DEF Zero
<1> QED
  BY <1>1, <1>2, <1>3, NothingSent DEF Dated, Known, Passed

(* A step that shows nothing new and turns no clock back.                   *)
LEMMA DatedLater ==
  ASSUME Typed, Typed', Dated, Known, Seen' \subseteq Seen, session' = session,
         used' = used, \A q \in Client : clock[q] <= clock'[q]
  PROVE  Dated' /\ Known'
<1>1. Known'
  BY DEF Known
<1>2. ASSUME NEW q \in Client, NEW x \in Seen', x[3][2] = session'[q]
      PROVE  x[3][1] <= clock'[q]
  <2>1. x \in Seen /\ x[3][2] = session[q]
    BY <1>2
  <2>2. x[3][1] \in Nat /\ x[3][1] <= clock[q]
    BY <2>1, SeenTimes DEF Dated
  <2>3. clock[q] \in Nat /\ clock'[q] \in Nat /\ clock[q] <= clock'[q]
    BY DEF Typed
  <2> QED
    BY <2>2, <2>3
<1> QED
  BY <1>1, <1>2 DEF Dated

(* An edit takes a time past the clock of its client.                       *)
LEMMA DatedEmit ==
  ASSUME Typed, Dated, Known, NEW r \in Client, Emits(r)
  PROVE  Dated' /\ Known'
<1>1. PICK op : Own(r, op) /\ Emit(r, op)
  BY DEF Emits
<1>2. /\ clock' = [q \in Client |-> IF q = r THEN op.time[1] ELSE clock[q]]
      /\ session' = session /\ used' = used
  BY <1>1, EmitClock, EmitKeeps
<1>3. PICK new : new = <<op.id, op.key, op.time, op.to>>
  OBVIOUS
<1>4. /\ new[3] = op.time /\ Seen' \subseteq Seen \cup {new}
  BY <1>1, <1>3, SeenEmit
<1>5. /\ op.time[1] > clock[r] /\ op.time[2] = session[r]
      /\ op.time[1] \in Nat /\ \A q \in Client : clock[q] \in Nat
  BY <1>1, OpFields, StampCounts DEF Own, Typed
<1>6. ASSUME NEW q \in Client, NEW x \in Seen', x[3][2] = session[q]
      PROVE  x[3][1] <= clock'[q]
  <2>1. CASE x = new
    <3>1. session[q] = session[r]
      BY <1>4, <1>5, <1>6, <2>1
    <3>2. q = r
      BY <3>1 DEF Typed, Sending
    <3> QED
      BY <1>2, <1>4, <1>5, <2>1, <3>2
  <2>2. CASE x \in Seen
    <3>1. x[3][1] \in Nat /\ x[3][1] <= clock[q]
      BY <1>6, <2>2, SeenTimes DEF Dated
    <3> QED
      BY <1>2, <1>5, <3>1
  <2> QED
    BY <1>4, <1>6, <2>1, <2>2
<1>7. ASSUME NEW x \in Seen' PROVE x[3][2] \in used \cup {0}
  <2>1. session[r] \in used
    BY DEF Typed, Sending
  <2> QED
    BY <1>4, <1>5, <1>7, <2>1 DEF Known
<1> QED
  BY <1>2, <1>6, <1>7 DEF Dated, Known

(* The clock of a new document may be behind the old one's, but nobody      *)
(* wrote in its session yet.                                                *)
LEMMA DatedLoad ==
  ASSUME Typed, Dated, Known, NEW r \in Client, Load(r)
  PROVE  Dated' /\ Known'
<1>1. PICK unsent : unsent = Rest(outbox[r], sent[r])
  OBVIOUS
<1>2. PICK s \in Session \ used :
        /\ session' = [q \in Client |-> IF q = r THEN s ELSE session[q]]
        /\ used' = used \cup {s}
  BY <1>1, LoadIs
<1>3. /\ \A q \in Client \ {r} : clock'[q] = clock[q]
      /\ Seen' \subseteq Seen
  BY <1>1, LoadIs, SeenLoad
<1>4. ASSUME NEW q \in Client, NEW x \in Seen', x[3][2] = session'[q]
      PROVE  x[3][1] <= clock'[q]
  <2>1. q # r
    <3>1. x[3][2] \in used \cup {0}
      BY <1>3 DEF Known
    <3>2. s # 0 /\ s \notin used
      OBVIOUS
    <3> QED
      BY <1>2, <1>4, <3>1, <3>2
  <2>2. x[3][2] = session[q] /\ x \in Seen
    BY <1>2, <1>3, <1>4, <2>1
  <2> QED
    BY <1>3, <2>1, <2>2 DEF Dated
<1> QED
  BY <1>2, <1>3, <1>4 DEF Dated, Known

LEMMA DatedNext == Typed /\ Dated /\ Known /\ [Next]_vars => Dated' /\ Known'
<1> SUFFICES ASSUME Typed, Dated, Known, [Next]_vars PROVE Dated' /\ Known'
  OBVIOUS
<1>1. Typed'
  BY TypedNext
<1>2. \A q \in Client : clock[q] \in Nat
  BY DEF Typed
<1>3. CASE UNCHANGED vars
  BY <1>3, SeenStays DEF vars, clientVars, roomVars, obsVars, Dated, Known
<1>4. CASE Next
  <2>1. PICK r \in Client : \/ Emits(r) \/ Ticks(r) \/ Flush(r) \/ Takes(r)
                            \/ Read(r) \/ Greet(r) \/ Welcome(r) \/ Load(r)
    BY <1>4, Acts
  <2>2. CASE Ticks(r)
    <3>1. PICK c \in Nat : /\ c >= clock[r]
                           /\ clock' = [q \in Client |-> IF q = r THEN c ELSE clock[q]]
      BY <2>2, TicksIs
    <3>2. \A q \in Client : clock[q] <= clock'[q]
      BY <1>2, <3>1
    <3>3. Seen' = Seen /\ session' = session /\ used' = used
      BY <2>2, TicksIs, SeenStays
    <3> QED
      BY <1>1, <3>2, <3>3, DatedLater
  <2>3. CASE Flush(r) \/ Greet(r)
    <3>1. Seen' = Seen /\ session' = session /\ used' = used /\ clock' = clock
      BY <2>3, FlushIs, GreetIs, SeenStays
    <3> QED
      BY <1>1, <1>2, <3>1, DatedLater
  <2>4. CASE Takes(r)
    <3>1. PICK k \in 1 .. sent[r] : Receive(r, k)
      BY <2>4 DEF Takes
    <3>2. Seen' \subseteq Seen
      BY <3>1, SeenReceive
    <3>3. session' = session /\ used' = used /\ clock' = clock
      BY <3>1, ReceiveIs
    <3> QED
      BY <1>1, <1>2, <3>2, <3>3, DatedLater
  <2>5. CASE Read(r)
    <3>1. PICK ops \in Seq(Op) : ops = Head(inbox[r])
      BY <2>5, ReadIs
    <3>2. /\ clock' = [q \in Client |-> IF q = r THEN Observed(clock[q], Head(inbox[q]))
                                       ELSE clock[q]]
          /\ session' = session /\ used' = used
      BY <2>5, ReadIs
    <3>3. clock[r] <= Observed(clock[r], ops)
      BY <1>2, ObservedIs
    <3>4. \A q \in Client : clock[q] <= clock'[q]
      BY <1>2, <3>1, <3>2, <3>3
    <3>5. Seen' \subseteq Seen
      BY <2>5, SeenRead
    <3> QED
      BY <1>1, <3>2, <3>4, <3>5, DatedLater
  <2>6. CASE Welcome(r)
    <3>1. PICK c \in Nat : /\ clock[r] <= c
                           /\ clock' = [q \in Client |-> IF q = r THEN c ELSE clock[q]]
      BY <2>6, WelcomeIs
    <3>2. \A q \in Client : clock[q] <= clock'[q]
      BY <1>2, <3>1
    <3>3. Seen' \subseteq Seen /\ session' = session /\ used' = used
      BY <2>6, WelcomeIs, SeenWelcome
    <3> QED
      BY <1>1, <3>2, <3>3, DatedLater
  <2> QED
    BY <2>1, <2>2, <2>3, <2>4, <2>5, <2>6, DatedEmit, DatedLoad
<1> QED
  BY <1>3, <1>4

(* Only the room sends something new, and what it sends its clock passes.   *)
LEMMA PassedReceive ==
  ASSUME Typed, Passed, NEW r \in Client, NEW k \in 1 .. sent[r], Receive(r, k)
  PROVE  Passed'
<1>1. PICK ops \in Seq(Op) : ops = Batch(r, k)
  BY ReceiveIs
<1>2. /\ roomClock' = Observed(roomClock, ops)
      /\ inbox' = [q \in Client |-> IF q = r THEN inbox[q] ELSE Append(inbox[q], ops)]
  BY <1>1, ReceiveIs
<1>3. /\ roomClock \in Nat /\ roomClock' \in Nat /\ roomClock <= roomClock'
      /\ \A i \in 1 .. Len(ops) : ops[i].time[1] <= roomClock'
  BY <1>2, ObservedIs DEF Typed
<1>4. ASSUME NEW q \in Client
      PROVE  /\ snap'[q].missed = snap[q].missed /\ snap'[q].clock = snap[q].clock
             /\ snap[q].missed \in Nat /\ snap[q].missed <= Len(inbox[q])
  <2>1. PICK l : snap'[q] = [file |-> snap[q].file, clock |-> snap[q].clock,
                             missed |-> snap[q].missed, later |-> l]
    BY ReceiveSends
  <2>2. snap[q].missed \in Nat /\ snap[q].missed <= Len(inbox[q])
    BY DEF Typed, Sending, Snapped
  <2> QED
    BY <2>1, <2>2
<1>5. ASSUME NEW q \in Client, NEW x \in WrittenIn(inbox[q])
      PROVE  x[3][1] <= roomClock'
  <2>1. x[3][1] \in Nat /\ x[3][1] <= roomClock
    BY <1>5, SeenHas, SeenTimes DEF Passed
  <2> QED
    BY <1>3, <2>1
<1>6. ASSUME NEW x \in Written(ops) PROVE x[3][1] <= roomClock'
  BY <1>3, WrittenIs
<1>7. ASSUME NEW q \in Client
      PROVE  /\ \A x \in WrittenIn(inbox'[q]) : x[3][1] <= roomClock'
             /\ \A b \in 1 .. snap'[q].missed : \A x \in Written(inbox'[q][b]) :
                  x[3][1] <= snap'[q].clock
  <2>1. CASE q = r
    <3>1. inbox'[q] = inbox[q]
      BY <1>2, <2>1
    <3> QED
      BY <1>4, <1>5, <3>1 DEF Passed
  <2>2. CASE q # r
    <3>1. PICK box, more : box \in Seq(Seq(Op)) /\ box = inbox[q] /\ more = inbox'[q]
                                            /\ more = Append(box, ops)
      BY <1>2, <2>2 DEF Typed
    <3>2. WrittenIn(more) = WrittenIn(box) \cup Written(ops)
      BY <3>1, BoxMore
    <3>3. Len(box) \in Nat /\ \A b \in 1 .. Len(box) : more[b] = box[b]
      BY <3>1, MoreIs
    <3>4. \A b \in 1 .. snap[q].missed : more[b] = box[b]
      BY <1>4, <3>1, <3>3
    <3> QED
      BY <1>4, <1>5, <1>6, <3>1, <3>2, <3>4 DEF Passed
  <2> QED
    BY <2>1, <2>2
<1> QED
  BY <1>7 DEF Passed

LEMMA PassedOthers ==
  ASSUME Typed, Passed, NEW r \in Client, Read(r) \/ Greet(r) \/ Welcome(r) \/ Load(r)
  PROVE  Passed'
<1>1. PICK unsent : unsent = Rest(outbox[r], sent[r])
  OBVIOUS
<1>2. /\ roomClock' = roomClock
      /\ \A q \in Client \ {r} : inbox'[q] = inbox[q] /\ snap'[q] = snap[q]
  <2>1. CASE Read(r)
    BY <2>1, ReadIs
  <2>2. CASE Greet(r)
    BY <2>2, GreetIs
  <2>3. CASE Welcome(r)
    BY <2>3, WelcomeIs
  <2>4. CASE Load(r)
    BY <1>1, <2>4, LoadIs
  <2> QED
    BY <2>1, <2>2, <2>3, <2>4
<1>3. WrittenIn(inbox'[r]) \subseteq WrittenIn(inbox[r])
  <2>1. CASE Greet(r)
    BY <2>1, GreetIs
  <2>2. CASE Load(r)
    BY <1>1, <2>2, LoadIs
  <2> QED
    BY <2>1, <2>2, SeenRead, SeenWelcome
<1>4. \A b \in 1 .. snap'[r].missed : \A x \in Written(inbox'[r][b]) :
        x[3][1] <= snap'[r].clock
  <2>1. CASE Greet(r)
    <3>1. /\ snap'[r].missed = Len(inbox[r]) /\ snap'[r].clock = roomClock
          /\ inbox'[r] = inbox[r]
      BY <2>1, GreetIs
    <3>2. \A b \in 1 .. Len(inbox[r]) : Written(inbox[r][b]) \subseteq WrittenIn(inbox[r])
      BY DEF WrittenIn
    <3>3. \A x \in WrittenIn(inbox[r]) : x[3][1] <= roomClock
      BY DEF Passed
    <3> QED
      BY <3>1, <3>2, <3>3
  <2>2. CASE Read(r) \/ Welcome(r) \/ Load(r)
    <3>1. snap'[r].missed = 0
      <4>1. CASE Read(r)
        <5>1. waits[r] = "nothing" /\ snap' = snap
          BY <4>1, ReadIs
        <5> QED
          BY <5>1 DEF Typed, Sending, Snapped
      <4>2. CASE Welcome(r)
        BY <4>2, WelcomeIs
      <4>3. CASE Load(r)
        BY <1>1, <4>3, LoadIs DEF NoSnap
      <4> QED
        BY <2>2, <4>1, <4>2, <4>3
    <3>2. 1 .. 0 = {}
      OBVIOUS
    <3> QED
      BY <3>1, <3>2
  <2> QED
    BY <2>1, <2>2
<1> QED
  BY <1>2, <1>3, <1>4 DEF Passed

LEMMA PassedNext == Typed /\ Passed /\ [Next]_vars => Passed'
<1> SUFFICES ASSUME Typed, Passed, [Next]_vars PROVE Passed'
  OBVIOUS
<1>1. ASSUME inbox' = inbox, snap' = snap, roomClock' = roomClock PROVE Passed'
  BY <1>1 DEF Passed
<1>2. CASE UNCHANGED vars
  BY <1>1, <1>2 DEF vars, clientVars, roomVars, obsVars
<1>3. CASE Next
  <2>1. PICK r \in Client : \/ Emits(r) \/ Ticks(r) \/ Flush(r) \/ Takes(r)
                            \/ Read(r) \/ Greet(r) \/ Welcome(r) \/ Load(r)
    BY <1>3, Acts
  <2>2. CASE Ticks(r)
    BY <1>1, <2>2, TicksIs
  <2>3. CASE Flush(r)
    BY <1>1, <2>3, FlushIs
  <2>4. CASE Emits(r)
    <3>1. PICK op : Own(r, op) /\ Emit(r, op)
      BY <2>4 DEF Emits
    <3> QED
      BY <1>1, <3>1, EmitKeeps
  <2>5. CASE Takes(r)
    BY <2>5, PassedReceive DEF Takes
  <2> QED
    BY <2>1, <2>2, <2>3, <2>4, <2>5, PassedOthers
<1> QED
  BY <1>2, <1>3

-----------------------------------------------------------------------------
(* One value at a time.                                                     *)
LEMMA OneValueInit == Init => OneValue
<1> SUFFICES ASSUME Init PROVE OneValue
  OBVIOUS
<1>1. room = File /\ \A r \in Client : /\ store[r] = File
                                       /\ outbox[r] = <<>> /\ inbox[r] = <<>>
  BY DEF Init
<1>2. ASSUME NEW x \in Seen PROVE x \in Blank \/ x \in Held(File)
  BY <1>1, SeenIs, NothingSent
<1>3. ASSUME NEW x \in Held(File)
      PROVE  x[4] = Now(File, x[1], x[2]) /\ (x[2] \in Key => x[4] = 0) /\ x[2] \in Register
  <2>1. PICK n \in DOMAIN File, k \in Register :
          x = <<n, k, TimeAt(File, n, k), Now(File, n, k)>>
    BY DEF Held
  <2>2. x[1] = n /\ x[2] = k /\ x[4] = Now(File, n, k)
    BY <2>1
  <2>3. k \in Key => Now(File, n, k) = 0
    <3>1. PICK p \in Node \cup {NoNode} : p = IF n = Root THEN NoNode ELSE Root
      OBVIOUS
    <3>2. File[n] = Record(p, Zero)
      BY <3>1 DEF File
    <3> QED
      BY <3>2, RecordIs, Zeros DEF Now
  <2> QED
    BY <2>2, <2>3
<1>4. ASSUME NEW x \in Blank PROVE x[4] = 0 /\ x[2] \in Key
  BY DEF Blank
<1> QED
  BY <1>2, <1>3, <1>4 DEF OneValue

LEMMA OneValueNext == Typed /\ Dated /\ OneValue /\ [Next]_vars => OneValue'
<1> SUFFICES ASSUME Typed, Dated, OneValue, [Next]_vars PROVE OneValue'
  OBVIOUS
<1>1. ASSUME Seen' \subseteq Seen PROVE OneValue'
  BY <1>1 DEF OneValue
<1>2. CASE UNCHANGED vars
  BY <1>1, <1>2, SeenStays DEF vars, clientVars, roomVars, obsVars
<1>3. ASSUME NEW r \in Client, Emits(r) PROVE OneValue'
  <2>1. PICK op : Own(r, op) /\ Emit(r, op)
    BY <1>3 DEF Emits
  <2>2. PICK new : new = <<op.id, op.key, op.time, op.to>>
    OBVIOUS
  <2>3. Seen' \subseteq Seen \cup {new} /\ new[3] = op.time
    BY <2>1, <2>2, SeenEmit
  <2>4. /\ op.time[1] > clock[r] /\ op.time[2] = session[r]
        /\ op.time[1] \in Nat /\ clock[r] \in Nat
    BY <2>1, OpFields, StampCounts DEF Own, Typed
  <2>5. ASSUME NEW x \in Seen PROVE x[3] # op.time
    <3>1. x[3][2] = session[r] => x[3][1] <= clock[r]
      BY DEF Dated
    <3> QED
      BY <2>4, <3>1
  <2> QED
    BY <2>3, <2>5 DEF OneValue
<1>4. CASE Next
  <2>1. PICK r \in Client : \/ Emits(r) \/ Ticks(r) \/ Flush(r) \/ Takes(r)
                            \/ Read(r) \/ Greet(r) \/ Welcome(r) \/ Load(r)
    BY <1>4, Acts
  <2>2. CASE Ticks(r)
    BY <1>1, <2>2, TicksIs, SeenStays
  <2>3. CASE Flush(r)
    BY <1>1, <2>3, FlushIs, SeenStays
  <2>4. CASE Greet(r)
    BY <1>1, <2>4, GreetIs, SeenStays
  <2>5. CASE Takes(r)
    BY <1>1, <2>5, SeenReceive DEF Takes
  <2> QED
    BY <1>1, <1>3, <2>1, <2>2, <2>3, <2>4, <2>5, SeenRead, SeenWelcome, SeenLoad
<1> QED
  BY <1>2, <1>4

-----------------------------------------------------------------------------
(* What a client and the room have, with what is under way, is level.       *)
LEMMA PastInMore ==
  ASSUME NEW box \in Seq(Seq(Op)), NEW ops \in Seq(Op), NEW more,
         more = Append(box, ops), NEW t, NEW n, NEW k
  PROVE  PastIn(t, more, n, k)
           <=> PastIn(t, box, n, k) /\ Past(t, ops, Len(ops), n, k)
<1>1. /\ Len(box) \in Nat /\ Len(more) = Len(box) + 1
      /\ \A b \in 1 .. Len(box) : more[b] = box[b]
      /\ more[Len(box) + 1] = ops
  BY MoreIs
<1>2. PICK P : P = [b \in 1 .. Len(more) |-> Past(t, more[b], Len(more[b]), n, k)]
  OBVIOUS
<1>3. PastIn(t, more, n, k) <=> \A b \in 1 .. Len(more) : P[b]
  BY <1>2 DEF PastIn
<1>4. \A b \in 1 .. Len(box) : b \in 1 .. Len(more)
  BY <1>1
<1>5. PastIn(t, box, n, k) <=> \A b \in 1 .. Len(box) : P[b]
  BY <1>1, <1>2, <1>4 DEF PastIn
<1>6. Len(box) + 1 \in 1 .. Len(more)
  BY <1>1
<1>7. Past(t, ops, Len(ops), n, k) <=> P[Len(box) + 1]
  BY <1>1, <1>2, <1>6
<1>8. \A b \in 1 .. Len(more) : b \in 1 .. Len(box) \/ b = Len(box) + 1
  BY <1>1
<1> QED
  BY <1>3, <1>4, <1>5, <1>6, <1>7, <1>8

LEMMA PastInLess ==
  ASSUME NEW box \in Seq(Seq(Op)), box # <<>>, NEW ops, ops = Head(box),
         NEW less, less = Tail(box), NEW t, NEW n, NEW k
  PROVE  PastIn(t, box, n, k)
           <=> Past(t, ops, Len(ops), n, k) /\ PastIn(t, less, n, k)
<1>1. /\ Len(box) \in Nat /\ Len(box) >= 1 /\ Len(less) = Len(box) - 1
      /\ ops = box[1] /\ \A b \in 1 .. Len(less) : less[b] = box[b + 1]
  OBVIOUS
<1>2. \A b \in 1 .. Len(less) : b + 1 \in 1 .. Len(box)
  BY <1>1
<1>3. \A b \in 1 .. Len(box) : b = 1 \/ (b - 1 \in 1 .. Len(less) /\ (b - 1) + 1 = b)
  BY <1>1
<1>4. 1 \in 1 .. Len(box)
  BY <1>1
<1>5. ASSUME PastIn(t, box, n, k)
      PROVE  Past(t, ops, Len(ops), n, k) /\ PastIn(t, less, n, k)
  BY <1>1, <1>2, <1>4, <1>5 DEF PastIn
<1>6. ASSUME Past(t, ops, Len(ops), n, k), PastIn(t, less, n, k)
      PROVE  PastIn(t, box, n, k)
  <2>1. SUFFICES ASSUME NEW b \in 1 .. Len(box)
                 PROVE  Past(t, box[b], Len(box[b]), n, k)
    BY DEF PastIn
  <2>2. CASE b = 1
    BY <1>1, <1>6, <2>2
  <2>3. CASE b # 1
    <3>1. PICK c \in 1 .. Len(less) : less[c] = box[b]
      BY <1>1, <1>3, <2>3
    <3>2. Past(t, less[c], Len(less[c]), n, k)
      BY <1>6 DEF PastIn
    <3> QED
      BY <3>1, <3>2
  <2> QED
    BY <2>2, <2>3
<1> QED
  BY <1>5, <1>6

(* AfterOver for the whole batch.                                           *)
LEMMA BatchOver ==
  ASSUME NEW s, Doc(s), NEW ops \in Seq(Op), Ready(DOMAIN s, ops),
         NEW n \in Node, NEW k \in Register, k = "place" => ~Bars(s, ops),
         NEW t \in Time
  PROVE  Over(t, ApplyAll(s, ops), n, k)
           <=> Over(t, s, n, k) /\ Past(t, ops, Len(ops), n, k)
<1>1. PICK i \in 0 .. Len(ops) : i = Len(ops)
  BY LengthIs
<1>2. ApplyAll(s, ops) = After(s, ops)[i]
  BY <1>1, LengthIs, AfterEach
<1> QED
  BY <1>1, <1>2, AfterOver

(* No move of a batch was barred where none is noted.                       *)
LEMMA BarredReceive ==
  ASSUME Typed, NEW r \in Client, NEW k \in 1 .. sent[r], Receive(r, k), ~barred'
  PROVE  ~barred /\ ~Bars(room, Batch(r, k))
<1>1. barred' = (barred \/ Bars(room, Batch(r, k)))
  BY ReceiveIs
<1> QED
  BY <1>1, Zenon DEF Typed

LEMMA BarredRead ==
  ASSUME Typed, NEW r \in Client, Read(r), ~barred'
  PROVE  ~barred /\ ~Bars(store[r], Head(inbox[r]))
  BY ReadIs, Zenon DEF Typed

LEMMA BarredLoad ==
  ASSUME Typed, NEW r \in Client, Load(r), ~barred'
  PROVE  ~barred
<1>1. PICK unsent : unsent = Rest(outbox[r], sent[r])
  OBVIOUS
<1>2. barred' = (barred \/ Bars(snap[r].file, unsent))
  BY <1>1, LoadIs
<1> QED
  BY <1>2, Zenon DEF Typed

(* Level at first, and after every step: what moves from one place to the   *)
(* next stays on its side of the balance.                                   *)
LEMMA LevelInit == Init => Level
<1> SUFFICES ASSUME Init PROVE Level
  OBVIOUS
<1>1. room = File /\ \A r \in Client : /\ store[r] = File
                                       /\ outbox[r] = <<>> /\ inbox[r] = <<>>
  BY DEF Init
<1>2. \A t, n, k : PastIn(t, <<>>, n, k) /\ Past(t, <<>>, Len(<<>>), n, k)
  BY NothingSent DEF PastIn
<1>3. ASSUME NEW r \in Client, NEW n, NEW k
      PROVE  Balanced(store[r], inbox[r], room, outbox[r], n, k)
  <2>1. Balanced(File, <<>>, File, <<>>, n, k)
    BY <1>2 DEF Balanced
  <2> QED
    BY <1>1, <2>1
<1> QED
  BY <1>3 DEF Level

(* What a client emits fits in its own document.                            *)
LEMMA OwnFits ==
  ASSUME Typed, NEW r \in Client, NEW op, Own(r, op)
  PROVE  /\ op \in Op /\ Fits(DOMAIN store[r], op) /\ ~Barring(store[r], op)
  BY DEF Own, Fresh, Fits, Barring

LEMMA LevelEmit ==
  ASSUME Typed, Level, NEW r \in Client, Emits(r)
  PROVE  Level'
<1>1. PICK op : Own(r, op) /\ Emit(r, op)
  BY DEF Emits
<1>2. store' = [q \in Client |-> IF q = r THEN Apply(store[q], op) ELSE store[q]]
  BY <1>1, EmitStore
<1>3. inbox' = inbox /\ room' = room /\ loaded' = loaded /\ barred' = barred
  BY <1>1, EmitKeeps
<1>4. PICK p \in Op :
        /\ p.id = op.id /\ p.key = op.key /\ p.to = op.to /\ p.time = op.time
        /\ outbox' = [q \in Client |-> IF q = r THEN Append(outbox[q], p)
                                       ELSE outbox[q]]
  BY <1>1, EmitQueue
<1>5. SUFFICES ASSUME NEW q \in Client, NEW n \in Node, NEW k \in Register,
                      q \notin loaded, k = "place" => ~barred, NEW t \in Time
               PROVE  Over(t, store'[q], n, k) /\ PastIn(t, inbox[q], n, k)
                      <=> /\ Over(t, room, n, k)
                          /\ Past(t, outbox'[q], Len(outbox'[q]), n, k)
  BY <1>3 DEF Level, Balanced
<1>6. Over(t, store[q], n, k) /\ PastIn(t, inbox[q], n, k)
      <=> Over(t, room, n, k) /\ Past(t, outbox[q], Len(outbox[q]), n, k)
  BY <1>5 DEF Level, Balanced
<1>7. CASE q # r
  BY <1>2, <1>4, <1>6, <1>7
<1>8. CASE q = r
  <2>1. PICK s : s = store[r] /\ Doc(s)
    BY DEF Typed, Documents
  <2>2. PICK ops, more : ops \in Seq(Op) /\ ops = outbox[r] /\ more = outbox'[q]
                                     /\ more = Append(ops, p)
    BY <1>4, <1>8 DEF Typed
  <2>3. op \in Op /\ Fits(DOMAIN s, op) /\ ~Barring(s, op)
    BY <1>1, <2>1, OwnFits
  <2>4. Over(t, Apply(s, op), n, k)
          <=> Over(t, s, n, k) /\ (Writes(op, n, k) => ~Before(t, op.time))
    BY <2>1, <2>3, OverApply
  <2>5. Past(t, more, Len(more), n, k)
          <=> Past(t, ops, Len(ops), n, k) /\ (Writes(p, n, k) => ~Before(t, p.time))
    BY <2>2, OpMore
  <2>6. Writes(p, n, k) <=> Writes(op, n, k)
    BY <1>4 DEF Writes
  <2>7. store'[q] = Apply(s, op)
    BY <1>2, <1>8, <2>1
  <2> QED
    BY <1>4, <1>6, <1>8, <2>1, <2>2, <2>4, <2>5, <2>6, <2>7
<1> QED
  BY <1>7, <1>8

LEMMA LevelReceive ==
  ASSUME Typed, Causal, Level, NEW r \in Client, NEW m \in 1 .. sent[r], Receive(r, m)
  PROVE  Level'
<1>1. PICK ops \in Seq(Op) : ops = Batch(r, m)
  BY ReceiveIs
<1>2. /\ room' = ApplyAll(room, ops)
      /\ inbox' = [q \in Client |-> IF q = r THEN inbox[q] ELSE Append(inbox[q], ops)]
      /\ outbox' = [q \in Client |-> IF q = r THEN Rest(outbox[q], m)
                                     ELSE Contested(outbox[q], ops)]
      /\ store' = store /\ loaded' = loaded
  BY <1>1, ReceiveIs
<1>9. PICK all, rest :
        /\ all = outbox[r] /\ rest = Rest(all, m) /\ ops = SubSeq(all, 1, m)
        /\ all \in Seq(Op) /\ m \in Nat /\ m <= Len(all)
  BY <1>1, ReceiveIs DEF Batch
<1>10. Parts(all, ops, rest)
  BY <1>9, SplitBatch
<1>3. SUFFICES ASSUME NEW q \in Client, NEW n \in Node, NEW k \in Register,
                      q \notin loaded, k = "place" => ~barred', NEW t \in Time
               PROVE  Over(t, store[q], n, k) /\ PastIn(t, inbox'[q], n, k)
                      <=> /\ Over(t, room', n, k)
                          /\ Past(t, outbox'[q], Len(outbox'[q]), n, k)
  BY <1>2 DEF Level, Balanced
<1>4. k = "place" => ~barred /\ ~Bars(room, ops)
  BY <1>1, <1>3, BarredReceive
<1>5. Over(t, store[q], n, k) /\ PastIn(t, inbox[q], n, k)
      <=> Over(t, room, n, k) /\ Past(t, outbox[q], Len(outbox[q]), n, k)
  BY <1>3, <1>4 DEF Level, Balanced
<1>6. Over(t, room', n, k) <=> Over(t, room, n, k) /\ Past(t, ops, Len(ops), n, k)
  <2>1. PICK s : s = room /\ Doc(s) /\ Ready(DOMAIN s, ops)
    <3>1. Ready(DOMAIN room, all)
      BY <1>9 DEF Causal
    <3> QED
      BY <1>10, <3>1 DEF Typed, Documents, Parts
  <2>2. Over(t, ApplyAll(s, ops), n, k)
          <=> Over(t, s, n, k) /\ Past(t, ops, Len(ops), n, k)
    BY <1>4, <2>1, BatchOver
  <2> QED
    BY <1>2, <2>1, <2>2
<1>7. CASE q = r
  <2>1. outbox'[q] = rest /\ inbox'[q] = inbox[q] /\ outbox[q] = all
    BY <1>2, <1>7, <1>9
  <2>2. Past(t, all, Len(all), n, k)
        <=> Past(t, ops, Len(ops), n, k) /\ Past(t, rest, Len(rest), n, k)
    BY <1>3, <1>10 DEF Parts
  <2> QED
    BY <1>5, <1>6, <2>1, <2>2
<1>8. CASE q # r
  <2>1. PICK box, more : box \in Seq(Seq(Op)) /\ box = inbox[q] /\ more = inbox'[q]
                                          /\ more = Append(box, ops)
    BY <1>2, <1>8 DEF Typed
  <2>2. PastIn(t, more, n, k) <=> PastIn(t, box, n, k) /\ Past(t, ops, Len(ops), n, k)
    BY <2>1, PastInMore
  <2>3. PICK a, c : a \in Seq(Op) /\ a = outbox[q] /\ c = outbox'[q]
                                /\ c = Contested(a, ops)
    BY <1>2, <1>8 DEF Typed
  <2>4. Past(t, c, Len(c), n, k) <=> Past(t, a, Len(a), n, k)
    BY <2>3, SameBatch
  <2> QED
    BY <1>5, <1>6, <2>1, <2>2, <2>3, <2>4
<1> QED
  BY <1>7, <1>8

LEMMA LevelRead ==
  ASSUME Typed, Causal, Level, NEW r \in Client, Read(r)
  PROVE  Level'
<1>1. PICK box, ops, less : box \in Seq(Seq(Op)) /\ ops \in Seq(Op)
        /\ box = inbox[r] /\ box # <<>> /\ ops = Head(box) /\ less = Tail(box)
  BY ReadIs
<1>2. /\ inbox' = [q \in Client |-> IF q = r THEN Tail(inbox[q]) ELSE inbox[q]]
      /\ store' = [q \in Client |-> IF q = r THEN ApplyAll(store[q], Head(inbox[q]))
                                    ELSE store[q]]
      /\ outbox' = outbox /\ room' = room /\ loaded' = loaded
  BY ReadIs
<1>3. SUFFICES ASSUME NEW q \in Client, NEW n \in Node, NEW k \in Register,
                      q \notin loaded, k = "place" => ~barred', NEW t \in Time
               PROVE  Over(t, store'[q], n, k) /\ PastIn(t, inbox'[q], n, k)
                      <=> /\ Over(t, room, n, k)
                          /\ Past(t, outbox[q], Len(outbox[q]), n, k)
  BY <1>2 DEF Level, Balanced
<1>4. k = "place" => ~barred /\ ~Bars(store[r], ops)
  BY <1>1, <1>3, BarredRead
<1>5. Over(t, store[q], n, k) /\ PastIn(t, inbox[q], n, k)
      <=> Over(t, room, n, k) /\ Past(t, outbox[q], Len(outbox[q]), n, k)
  BY <1>3, <1>4 DEF Level, Balanced
<1>6. CASE q # r
  BY <1>2, <1>5, <1>6
<1>7. CASE q = r
  <2>1. PICK s : s = store[r] /\ Doc(s) /\ ReadyIn(DOMAIN s, box)
    BY <1>1, <1>3, <1>7 DEF Typed, Documents, Causal
  <2>2. Ready(DOMAIN s, ops)
    BY <1>1, <2>1, BoxLess
  <2>3. Over(t, ApplyAll(s, ops), n, k)
          <=> Over(t, s, n, k) /\ Past(t, ops, Len(ops), n, k)
    <3>1. k = "place" => ~Bars(s, ops)
      BY <1>4, <2>1
    <3> QED
      BY <1>1, <2>1, <2>2, <3>1, BatchOver
  <2>4. PastIn(t, box, n, k) <=> Past(t, ops, Len(ops), n, k) /\ PastIn(t, less, n, k)
    BY <1>1, PastInLess
  <2>5. store'[q] = ApplyAll(s, ops) /\ inbox'[q] = less
    BY <1>1, <1>2, <1>7, <2>1
  <2> QED
    BY <1>1, <1>5, <1>7, <2>1, <2>3, <2>4, <2>5
<1> QED
  BY <1>6, <1>7

(* Whoever is sent the file no longer has the times.                        *)
LEMMA LevelFile ==
  ASSUME Typed, Level, NEW r \in Client, Welcome(r) \/ Load(r)
  PROVE  Level'
<1>1. PICK unsent : unsent = Rest(outbox[r], sent[r])
  OBVIOUS
<1>2. /\ outbox' = outbox /\ room' = room /\ loaded' = loaded \cup {r}
      /\ \A q \in Client \ {r} : store'[q] = store[q] /\ inbox'[q] = inbox[q]
  <2>1. CASE Welcome(r)
    BY <2>1, WelcomeIs
  <2>2. CASE Load(r)
    <3>1. loaded' = loaded /\ waits[r] = "file"
      BY <1>1, <2>2, LoadIs
    <3>2. r \in loaded
      BY <3>1 DEF Typed, Sending, Snapped
    <3>3. loaded' = loaded \cup {r}
      BY <3>1, <3>2
    <3> QED
      BY <1>1, <2>2, <3>3, LoadIs
  <2> QED
    BY <2>1, <2>2
<1>3. ~barred' => ~barred
  <2>1. Welcome(r) => barred' = barred
    BY WelcomeIs
  <2> QED
    BY <2>1, BarredLoad
<1>4. SUFFICES ASSUME NEW q \in Client, NEW n \in Node, NEW k \in Register,
                      q \notin loaded', k = "place" => ~barred'
               PROVE  Balanced(store'[q], inbox'[q], room', outbox'[q], n, k)
  BY DEF Level
<1>5. q # r /\ q \notin loaded /\ (k = "place" => ~barred)
  BY <1>2, <1>3, <1>4
<1> QED
  BY <1>2, <1>5 DEF Level

LEMMA LevelNext == Typed /\ Causal /\ Level /\ [Next]_vars => Level'
<1> SUFFICES ASSUME Typed, Causal, Level, [Next]_vars PROVE Level'
  OBVIOUS
<1>1. ASSUME store' = store, outbox' = outbox, inbox' = inbox, room' = room,
             loaded' = loaded, barred' = barred
      PROVE  Level'
  BY <1>1 DEF Level
<1>2. CASE UNCHANGED vars
  BY <1>1, <1>2 DEF vars, clientVars, roomVars, obsVars
<1>3. CASE Next
  <2>1. PICK r \in Client : \/ Emits(r) \/ Ticks(r) \/ Flush(r) \/ Takes(r)
                            \/ Read(r) \/ Greet(r) \/ Welcome(r) \/ Load(r)
    BY <1>3, Acts
  <2>2. CASE Ticks(r)
    BY <1>1, <2>2, TicksIs
  <2>3. CASE Flush(r)
    BY <1>1, <2>3, FlushIs
  <2>4. CASE Greet(r)
    BY <1>1, <2>4, GreetIs
  <2>5. CASE Takes(r)
    BY <2>5, LevelReceive DEF Takes
  <2> QED
    BY <2>1, <2>2, <2>3, <2>4, <2>5, LevelEmit, LevelRead, LevelFile
<1> QED
  BY <1>2, <1>3

-----------------------------------------------------------------------------
(* What a client has not been shown.                                        *)
LEMMA CarriesMore ==
  ASSUME NEW box \in Seq(Seq(Op)), NEW ops \in Seq(Op), NEW more,
         more = Append(box, ops), NEW m \in Nat, m <= Len(box), NEW n, NEW k, NEW t,
         Carries(box, m, n, k, t) \/ Has(ops, n, k, t)
  PROVE  Carries(more, m, n, k, t)
<1>1. /\ Len(box) \in Nat /\ Len(more) = Len(box) + 1
      /\ \A b \in 1 .. Len(box) : more[b] = box[b]
      /\ more[Len(box) + 1] = ops
  BY MoreIs
<1>2. CASE Has(ops, n, k, t)
  <2>1. Len(box) + 1 \in m + 1 .. Len(more)
    BY <1>1
  <2> QED
    BY <1>1, <1>2, <2>1 DEF Carries
<1>3. CASE Carries(box, m, n, k, t)
  <2>1. PICK b \in m + 1 .. Len(box) : Has(box[b], n, k, t)
    BY <1>3 DEF Carries
  <2>2. b \in m + 1 .. Len(more) /\ more[b] = box[b]
    BY <1>1
  <2> QED
    BY <2>1, <2>2 DEF Carries
<1> QED
  BY <1>2, <1>3

LEMMA CarriesLess ==
  ASSUME NEW box \in Seq(Seq(Op)), box # <<>>, NEW ops, ops = Head(box),
         NEW less, less = Tail(box), NEW n, NEW k, NEW t, Carries(box, 0, n, k, t)
  PROVE  Has(ops, n, k, t) \/ Carries(less, 0, n, k, t)
<1>1. /\ Len(box) \in Nat /\ Len(box) >= 1 /\ Len(less) = Len(box) - 1
      /\ ops = box[1] /\ \A b \in 1 .. Len(less) : less[b] = box[b + 1]
  OBVIOUS
<1>2. PICK b \in 0 + 1 .. Len(box) : Has(box[b], n, k, t)
  BY DEF Carries
<1>3. CASE b = 1
  BY <1>1, <1>2, <1>3
<1>4. CASE b # 1
  <2>1. PICK c \in 1 .. Len(less) : c + 1 = b
    BY <1>1, <1>2, <1>4
  <2>2. Has(less[c], n, k, t)
    BY <1>1, <1>2, <2>1
  <2>3. c \in 0 + 1 .. Len(less)
    BY <1>1, <2>1
  <2> QED
    BY <2>2, <2>3 DEF Carries
<1> QED
  BY <1>3, <1>4

(* A batch a client will not be sent is in the clock of its file.           *)
LEMMA CarriesRest ==
  ASSUME Typed, Passed, NEW r \in Client, NEW n, NEW k, NEW t,
         Carries(inbox[r], 0, n, k, t)
  PROVE  t[1] <= snap[r].clock \/ Carries(inbox[r], snap[r].missed, n, k, t)
<1>1. PICK box, m : /\ box \in Seq(Seq(Op)) /\ box = inbox[r]
                    /\ m \in Nat /\ m = snap[r].missed
  BY DEF Typed, Sending, Snapped
<1>2. PICK b \in 0 + 1 .. Len(box) : Has(box[b], n, k, t)
  BY <1>1 DEF Carries
<1>3. b \in 1 .. Len(box) /\ Len(box) \in Nat /\ box[b] \in Seq(Op)
  BY <1>1, <1>2
<1>4. CASE b <= m
  <2>1. b \in 1 .. m
    BY <1>1, <1>3, <1>4
  <2>2. PICK i \in 1 .. Len(box[b]) : box[b][i].time = t
    BY <1>2 DEF Has
  <2>3. PICK x \in Written(box[b]) : x[3] = t
    BY <1>3, <2>2, WrittenIs
  <2>4. x[3][1] <= snap[r].clock
    BY <1>1, <2>1, <2>3 DEF Passed
  <2> QED
    BY <2>3, <2>4
<1>5. CASE ~(b <= m)
  <2>1. b \in m + 1 .. Len(box)
    BY <1>1, <1>3, <1>5
  <2> QED
    BY <1>1, <1>2, <2>1 DEF Carries
<1> QED
  BY <1>4, <1>5

(* AfterTime for the whole batch.                                           *)
LEMMA BatchTime ==
  ASSUME NEW s, Doc(s), NEW ops \in Seq(Op), Ready(DOMAIN s, ops),
         NEW n \in Node, NEW k \in Key
  PROVE  \/ TimeAt(ApplyAll(s, ops), n, k) = TimeAt(s, n, k)
         \/ Has(ops, n, k, TimeAt(ApplyAll(s, ops), n, k))
<1>1. PICK i \in 0 .. Len(ops) : i = Len(ops)
  BY LengthIs
<1>2. ApplyAll(s, ops) = After(s, ops)[i]
  BY <1>1, LengthIs, AfterEach
<1> QED
  BY <1>1, <1>2, AfterTime DEF Has

(* The clock of the room is past the times of the room.                     *)
LEMMA RoomTime ==
  ASSUME Typed, NEW n \in Node, NEW k \in Key
  PROVE  /\ TimeAt(room, n, k) \in Time /\ TimeAt(room, n, k)[1] \in Nat
         /\ TimeAt(room, n, k)[1] <= roomClock
<1>1. TimeAt(room, n, k) \in Time
  BY TimeIs DEF Typed, Documents, Register
<1>2. TimeAt(room, n, k)[1] <= roomClock
  <2>1. CASE n \in DOMAIN room
    BY <2>1 DEF Typed, Documents, InClock, TimeAt, Register
  <2>2. CASE n \notin DOMAIN room
    BY <2>2 DEF Typed, TimeAt, Zero
  <2> QED
    BY <2>1, <2>2
<1> QED
  BY <1>1, <1>2, StampCounts

(* Noticed at first, and after every step: the room passes on what it       *)
(* applies, and whoever is sent the file is told its clock.                 *)
LEMMA NoticedInit == Init => Noticed
<1> SUFFICES ASSUME Init, NEW r \in Client, NEW n \in Node, NEW k \in Key
             PROVE  TimeAt(room, n, k)[1] <= clock[r] /\ waits[r] = "nothing"
  BY DEF Noticed, NoticedBy
<1>1. Typed /\ roomClock = 0 /\ clock[r] = 0 /\ waits[r] = "nothing"
  BY TypedInit DEF Init
<1> QED
  BY <1>1, RoomTime

(* What Noticed says of one client.                                         *)
NoticedAll(r) ==
  \A n \in Node, k \in Key :
    /\ NoticedBy(clock[r], inbox[r], 0, unseen[r], n, k)
    /\ waits[r] # "nothing" =>
         NoticedBy(snap[r].clock, inbox[r], snap[r].missed, snap[r].later, n, k)

(* The room is as before, and what a client was shown is not less.          *)
LEMMA NoticedSame ==
  ASSUME Typed, Noticed, room' = room, NEW r \in Client,
         inbox'[r] = inbox[r], unseen'[r] = unseen[r], waits'[r] = waits[r],
         snap'[r] = snap[r], clock'[r] \in Nat, clock[r] <= clock'[r]
  PROVE  NoticedAll(r)'
<1> SUFFICES ASSUME NEW n \in Node, NEW k \in Key
             PROVE  /\ NoticedBy(clock'[r], inbox[r], 0, unseen[r], n, k)
                    /\ waits[r] # "nothing" =>
                         NoticedBy(snap[r].clock, inbox[r], snap[r].missed,
                                   snap[r].later, n, k)
  BY DEF NoticedAll, NoticedBy
<1>1. PICK t : t = TimeAt(room, n, k)
  OBVIOUS
<1>2. t[1] \in Nat /\ clock[r] \in Nat
  BY <1>1, RoomTime DEF Typed
<1>3. t[1] <= clock[r] \/ Carries(inbox[r], 0, n, k, t) \/ <<n, k>> \in unseen[r]
  BY <1>1 DEF Noticed, NoticedBy
<1>4. NoticedBy(clock'[r], inbox[r], 0, unseen[r], n, k)
  BY <1>1, <1>2, <1>3 DEF NoticedBy
<1> QED
  BY <1>4 DEF Noticed

LEMMA NoticedEmit ==
  ASSUME Typed, Noticed, NEW r \in Client, Emits(r), NEW q \in Client
  PROVE  NoticedAll(q)'
<1>1. PICK op : Own(r, op) /\ Emit(r, op)
  BY DEF Emits
<1>2. clock'[q] = IF q = r THEN op.time[1] ELSE clock[q]
  BY <1>1, EmitClock
<1>3. /\ inbox' = inbox /\ room' = room /\ unseen' = unseen /\ waits' = waits
      /\ snap' = snap
  BY <1>1, EmitKeeps
<1>4. op.time[1] > clock[r] /\ op.time[1] \in Nat /\ clock[q] \in Nat
  BY <1>1, OpFields, StampCounts DEF Own, Typed
<1>5. clock'[q] \in Nat /\ clock[q] <= clock'[q]
  BY <1>2, <1>4
<1> QED
  BY <1>3, <1>5, NoticedSame

LEMMA NoticedReceive ==
  ASSUME Typed, Causal, Noticed, Kept, NEW r \in Client, NEW m \in 1 .. sent[r],
         Receive(r, m), NEW q \in Client
  PROVE  NoticedAll(q)'
<1>1. PICK ops \in Seq(Op) : ops = Batch(r, m)
  BY ReceiveIs
<1>2. /\ room' = ApplyAll(room, ops)
      /\ inbox' = [p \in Client |-> IF p = r THEN inbox[p] ELSE Append(inbox[p], ops)]
      /\ clock' = clock /\ unseen' = unseen /\ waits' = waits
  BY <1>1, ReceiveIs
<1>3. PICK file, c, l, missed, later :
        /\ file = snap[q].file /\ c = snap[q].clock /\ l = snap'[q].later
        /\ missed = snap[q].missed /\ later = snap[q].later
  OBVIOUS
<1>4. /\ snap'[q].clock = c /\ snap'[q].missed = missed
      /\ waits[q] # "nothing" =>
           l = IF q = r THEN later \cup Registers(ops) ELSE later
  <2>1. snap'[q] = [file |-> file, clock |-> c, missed |-> missed, later |-> l]
    BY <1>3, ReceiveSends
  <2>2. q # r => l = later
    BY <1>3, ReceiveSends
  <2>3. q = r /\ waits[q] # "nothing" => l = later \cup Registers(ops)
    BY <1>1, <1>3, ReceiveSends
  <2> QED
    BY <2>1, <2>2, <2>3
<1>5. missed \in Nat /\ missed <= Len(inbox[q])
  BY <1>3 DEF Typed, Sending, Snapped
<1>6. SUFFICES ASSUME NEW n \in Node, NEW k \in Key, NEW t, t = TimeAt(room', n, k)
               PROVE  /\ \/ t[1] <= clock[q] \/ Carries(inbox'[q], 0, n, k, t)
                         \/ <<n, k>> \in unseen[q]
                      /\ waits[q] # "nothing" =>
                           \/ t[1] <= c \/ Carries(inbox'[q], missed, n, k, t)
                           \/ <<n, k>> \in l
  BY <1>2, <1>3, <1>4 DEF NoticedAll, NoticedBy
<1>7. t = TimeAt(room, n, k) \/ Has(ops, n, k, t)
  <2>1. PICK s : s = room /\ Doc(s) /\ Ready(DOMAIN s, ops)
    <3>1. PICK all, rest :
            /\ all = outbox[r] /\ rest = Rest(all, m) /\ ops = SubSeq(all, 1, m)
            /\ all \in Seq(Op) /\ m \in Nat /\ m <= Len(all)
      BY <1>1, ReceiveIs DEF Batch
    <3>2. Parts(all, ops, rest)
      BY <3>1, SplitBatch
    <3>3. Ready(DOMAIN room, all)
      BY <3>1 DEF Causal
    <3> QED
      BY <3>2, <3>3 DEF Typed, Documents, Parts
  <2>2. \/ TimeAt(ApplyAll(s, ops), n, k) = TimeAt(s, n, k)
        \/ Has(ops, n, k, TimeAt(ApplyAll(s, ops), n, k))
    BY <2>1, BatchTime
  <2> QED
    BY <1>2, <1>6, <2>1, <2>2
<1>8. ASSUME t = TimeAt(room, n, k)
      PROVE  /\ \/ t[1] <= clock[q] \/ Carries(inbox[q], 0, n, k, t)
                \/ <<n, k>> \in unseen[q]
             /\ waits[q] # "nothing" =>
                  \/ t[1] <= c \/ Carries(inbox[q], missed, n, k, t)
                  \/ <<n, k>> \in later
  BY <1>3, <1>8 DEF Noticed, NoticedBy
<1>9. CASE q = r
  <2>1. inbox'[q] = inbox[q]
    BY <1>2, <1>9
  <2>2. CASE t = TimeAt(room, n, k)
    BY <1>4, <1>8, <1>9, <2>1, <2>2
  <2>3. CASE Has(ops, n, k, t)
    <3>1. PICK i \in 1 .. Len(ops) : ops[i].id = n /\ ops[i].key = k /\ ops[i].time = t
      BY <2>3 DEF Has, Writes
    <3>2. i \in 1 .. Len(outbox[r]) /\ outbox[r][i] = ops[i]
      BY <1>1, ReceiveIs, LengthIs
    <3>3. t[1] <= clock[q] \/ <<n, k>> \in unseen[q]
      BY <1>9, <3>1, <3>2 DEF Kept
    <3>4. <<n, k>> \in Registers(ops)
      BY <3>1 DEF Registers
    <3> QED
      BY <1>4, <1>9, <3>3, <3>4
  <2> QED
    BY <1>7, <2>2, <2>3
<1>10. CASE q # r
  <2>1. PICK box, more : box \in Seq(Seq(Op)) /\ box = inbox[q] /\ more = inbox'[q]
                                          /\ more = Append(box, ops)
    BY <1>2, <1>10 DEF Typed
  <2>2. ASSUME NEW j \in Nat, j <= Len(box), Carries(box, j, n, k, t) \/ Has(ops, n, k, t)
        PROVE  Carries(more, j, n, k, t)
    BY <2>1, <2>2, CarriesMore
  <2>3. 0 \in Nat /\ 0 <= Len(box)
    BY <2>1, LengthIs
  <2>4. CASE t = TimeAt(room, n, k)
    BY <1>4, <1>5, <1>8, <1>10, <2>1, <2>2, <2>3, <2>4
  <2>5. CASE Has(ops, n, k, t)
    BY <1>5, <2>1, <2>2, <2>3, <2>5
  <2> QED
    BY <1>7, <2>4, <2>5
<1> QED
  BY <1>9, <1>10

LEMMA NoticedRead ==
  ASSUME Typed, Noticed, NEW r \in Client, Read(r)
  PROVE  NoticedAll(r)'
<1>1. PICK box, ops, less : box \in Seq(Seq(Op)) /\ ops \in Seq(Op)
        /\ box = inbox[r] /\ box # <<>> /\ ops = Head(box) /\ less = Tail(box)
  BY ReadIs
<1>2. /\ inbox'[r] = less /\ clock'[r] = Observed(clock[r], ops)
      /\ room' = room /\ unseen' = unseen /\ waits'[r] = "nothing"
      /\ clock[r] \in Nat
  BY <1>1, ReadIs DEF Typed
<1>3. SUFFICES ASSUME NEW n \in Node, NEW k \in Key, NEW t, t = TimeAt(room, n, k)
               PROVE  \/ t[1] <= clock'[r] \/ Carries(less, 0, n, k, t)
                      \/ <<n, k>> \in unseen[r]
  BY <1>2 DEF NoticedAll, NoticedBy
<1>4. /\ t[1] \in Nat
      /\ t[1] <= clock[r] \/ Carries(box, 0, n, k, t) \/ <<n, k>> \in unseen[r]
  BY <1>1, <1>3, RoomTime DEF Noticed, NoticedBy
<1>5. /\ clock'[r] \in Nat /\ clock[r] <= clock'[r]
      /\ \A i \in 1 .. Len(ops) : ops[i].time[1] <= clock'[r]
  BY <1>1, <1>2, ObservedIs
<1>6. CASE t[1] <= clock[r]
  BY <1>2, <1>4, <1>5, <1>6
<1>7. CASE Carries(box, 0, n, k, t)
  <2>1. Has(ops, n, k, t) \/ Carries(less, 0, n, k, t)
    BY <1>1, <1>7, CarriesLess
  <2>2. Has(ops, n, k, t) => t[1] <= clock'[r]
    BY <1>5 DEF Has
  <2> QED
    BY <2>1, <2>2
<1> QED
  BY <1>4, <1>6, <1>7

LEMMA NoticedGreet ==
  ASSUME Typed, Noticed, NEW r \in Client, Greet(r)
  PROVE  NoticedAll(r)'
<1>1. /\ inbox' = inbox /\ clock' = clock /\ room' = room /\ unseen' = unseen
      /\ snap'[r].clock = roomClock
  BY GreetIs
<1>2. SUFFICES ASSUME NEW n \in Node, NEW k \in Key, NEW t, t = TimeAt(room, n, k)
               PROVE  /\ NoticedBy(clock[r], inbox[r], 0, unseen[r], n, k)
                      /\ t[1] <= roomClock
  BY <1>1 DEF NoticedAll, NoticedBy
<1> QED
  BY <1>2, RoomTime DEF Noticed

(* What the client was not shown before the file was taken is in its clock. *)
LEMMA NoticedWelcome ==
  ASSUME Typed, Noticed, Passed, NEW r \in Client, Welcome(r)
  PROVE  NoticedAll(r)'
<1>1. PICK box, less, m :
        /\ box \in Seq(Seq(Op)) /\ box = inbox[r] /\ m \in Nat /\ m = snap[r].missed
        /\ m <= Len(box) /\ less = Rest(box, m)
  BY DEF Typed, Sending, Snapped
<1>2. PICK c \in Nat : clock[r] <= c /\ snap[r].clock <= c /\ clock'[r] = c
  BY WelcomeIs
<1>3. /\ inbox'[r] = less /\ room' = room /\ unseen' = unseen
      /\ waits[r] = "welcome"
      /\ snap'[r].clock = snap[r].clock /\ snap'[r].missed = 0
      /\ snap'[r].later = snap[r].later
  BY <1>1, WelcomeIs
<1>4. /\ clock[r] \in Nat /\ snap[r].clock \in Nat
  BY DEF Typed, Sending, Snapped
<1>5. SUFFICES ASSUME NEW n \in Node, NEW k \in Key, NEW t, t = TimeAt(room, n, k)
               PROVE  /\ \/ t[1] <= c \/ Carries(less, 0, n, k, t)
                         \/ <<n, k>> \in unseen[r]
                      /\ \/ t[1] <= snap[r].clock \/ Carries(less, 0, n, k, t)
                         \/ <<n, k>> \in snap[r].later
  BY <1>2, <1>3 DEF NoticedAll, NoticedBy
<1>6. t[1] \in Nat
  BY <1>5, RoomTime
<1>7. Carries(box, m, n, k, t) <=> Carries(less, 0, n, k, t)
  BY <1>1, BoxRest
<1>8. /\ \/ t[1] <= clock[r] \/ Carries(box, 0, n, k, t) \/ <<n, k>> \in unseen[r]
      /\ \/ t[1] <= snap[r].clock \/ Carries(box, m, n, k, t)
         \/ <<n, k>> \in snap[r].later
  BY <1>1, <1>3, <1>5 DEF Noticed, NoticedBy
<1>9. Carries(box, 0, n, k, t) => t[1] <= snap[r].clock \/ Carries(box, m, n, k, t)
  BY <1>1, CarriesRest
<1> QED
  BY <1>2, <1>4, <1>6, <1>7, <1>8, <1>9

LEMMA NoticedLoad ==
  ASSUME Typed, Noticed, NEW r \in Client, Load(r)
  PROVE  NoticedAll(r)'
<1>1. PICK unsent : unsent \in Seq(Op) /\ unsent = Rest(outbox[r], sent[r])
  BY SentIs
<1>2. /\ waits[r] = "file" /\ waits'[r] = "nothing" /\ room' = room
      /\ inbox' = inbox /\ clock'[r] = Observed(snap[r].clock, unsent)
      /\ snap[r].later \subseteq unseen'[r]
  BY <1>1, LoadIs
<1>3. snap[r].missed = 0 /\ snap[r].clock \in Nat
  BY <1>2 DEF Typed, Sending, Snapped
<1>4. clock'[r] \in Nat /\ snap[r].clock <= clock'[r]
  BY <1>1, <1>2, <1>3, ObservedIs
<1>5. SUFFICES ASSUME NEW n \in Node, NEW k \in Key, NEW t, t = TimeAt(room, n, k)
               PROVE  \/ t[1] <= clock'[r] \/ Carries(inbox[r], 0, n, k, t)
                      \/ <<n, k>> \in unseen'[r]
  BY <1>2 DEF NoticedAll, NoticedBy
<1>6. \/ t[1] <= snap[r].clock \/ Carries(inbox[r], 0, n, k, t)
      \/ <<n, k>> \in snap[r].later
  BY <1>2, <1>3, <1>5 DEF Noticed, NoticedBy
<1>7. t[1] \in Nat
  BY <1>5, RoomTime
<1> QED
  BY <1>2, <1>3, <1>4, <1>6, <1>7

LEMMA NoticedNext ==
  Typed /\ Causal /\ Passed /\ Kept /\ Noticed /\ [Next]_vars => Noticed'
<1> SUFFICES ASSUME Typed, Causal, Passed, Kept, Noticed, [Next]_vars
             PROVE  Noticed'
  OBVIOUS
<1>1. CASE UNCHANGED vars
  BY <1>1 DEF vars, clientVars, roomVars, obsVars, Noticed, NoticedBy
<1>2. CASE Next
  <2>1. PICK r \in Client : \/ Emits(r) \/ Ticks(r) \/ Flush(r) \/ Takes(r)
                            \/ Read(r) \/ Greet(r) \/ Welcome(r) \/ Load(r)
    BY <1>2, Acts
  <2>2. SUFFICES ASSUME NEW q \in Client PROVE NoticedAll(q)'
    BY DEF Noticed, NoticedAll
  <2>3. clock[q] \in Nat /\ clock[q] <= clock[q]
    BY DEF Typed
  <2>4. CASE Ticks(r)
    <3>1. /\ inbox' = inbox /\ room' = room /\ unseen' = unseen /\ waits' = waits
          /\ snap' = snap
      BY <2>4, TicksIs
    <3>2. PICK c \in Nat : /\ c >= clock[r]
                           /\ clock' = [p \in Client |-> IF p = r THEN c ELSE clock[p]]
      BY <2>4, TicksIs
    <3>3. clock'[q] \in Nat /\ clock[q] <= clock'[q]
      BY <2>3, <3>2
    <3> QED
      BY <3>1, <3>3, NoticedSame
  <2>5. CASE Flush(r)
    BY <2>3, <2>5, FlushIs, NoticedSame
  <2>6. CASE Takes(r)
    BY <2>6, NoticedReceive DEF Takes
  <2>7. CASE Read(r) \/ Greet(r) \/ Welcome(r) \/ Load(r)
    <3>1. CASE q = r
      BY <2>7, <3>1, NoticedRead, NoticedGreet, NoticedWelcome, NoticedLoad
    <3>2. CASE q # r
      <4>1. PICK unsent : unsent = Rest(outbox[r], sent[r])
        OBVIOUS
      <4>2. /\ room' = room /\ inbox'[q] = inbox[q] /\ unseen'[q] = unseen[q]
            /\ waits'[q] = waits[q] /\ snap'[q] = snap[q] /\ clock'[q] = clock[q]
        <5>1. CASE Read(r)
          BY <3>2, <5>1, ReadIs
        <5>2. CASE Greet(r)
          BY <3>2, <5>2, GreetIs
        <5>3. CASE Welcome(r)
          BY <3>2, <5>3, WelcomeIs
        <5>4. CASE Load(r)
          BY <3>2, <4>1, <5>4, LoadIs
        <5> QED
          BY <2>7, <5>1, <5>2, <5>3, <5>4
      <4> QED
        BY <2>3, <4>2, NoticedSame
    <3> QED
      BY <3>1, <3>2
  <2> QED
    BY <2>1, <2>4, <2>5, <2>6, <2>7, NoticedEmit
<1> QED
  BY <1>1, <1>2

-----------------------------------------------------------------------------
(* What a client keeps for the room.                                        *)
LEMMA OpMany ==
  ASSUME NEW ops \in Seq(Op), NEW p \in Op, NEW more, more = Append(ops, p)
  PROVE  /\ Len(ops) \in Nat /\ Len(more) = Len(ops) + 1
         /\ \A j \in 1 .. Len(ops) : more[j] = ops[j]
         /\ more[Len(ops) + 1] = p
         /\ \A i \in 1 .. Len(more) : i \in 1 .. Len(ops) \/ i = Len(ops) + 1
<1>1. /\ Len(ops) \in Nat /\ Len(more) = Len(ops) + 1
      /\ \A j \in 1 .. Len(ops) : more[j] = ops[j]
      /\ more[Len(ops) + 1] = p
  BY MoreIs
<1> QED
  BY <1>1

LEMMA RestIs ==
  ASSUME NEW ops \in Seq(Op), NEW k \in Nat, k <= Len(ops)
  PROVE  /\ Rest(ops, k) \in Seq(Op) /\ Len(ops) \in Nat
         /\ Len(Rest(ops, k)) = Len(ops) - k
         /\ \A i \in 1 .. Len(Rest(ops, k)) :
              i + k \in 1 .. Len(ops) /\ Rest(ops, k)[i] = ops[i + k]
  BY LengthIs, SplitIs DEF Rest

(* What Kept says of one client.                                            *)
KeptBy(r) ==
  \A i \in 1 .. Len(outbox[r]) :
    LET op == outbox[r][i] IN
      op.time[1] <= clock[r] \/ <<op.id, op.key>> \in unseen[r]

LEMMA KeptSame ==
  ASSUME Typed, Kept, NEW r \in Client, outbox'[r] = outbox[r],
         unseen'[r] = unseen[r], clock'[r] \in Nat, clock[r] <= clock'[r]
  PROVE  KeptBy(r)'
<1> SUFFICES ASSUME NEW i \in 1 .. Len(outbox[r]), NEW op, op = outbox[r][i]
             PROVE  op.time[1] <= clock'[r] \/ <<op.id, op.key>> \in unseen[r]
  BY DEF KeptBy
<1>1. op.time[1] \in Nat /\ clock[r] \in Nat
  <2>1. outbox[r] \in Seq(Op) /\ clock[r] \in Nat
    BY DEF Typed
  <2>2. op \in Op
    BY <2>1, LengthIs
  <2> QED
    BY <2>1, <2>2, OpFields, StampCounts
<1>2. op.time[1] <= clock[r] \/ <<op.id, op.key>> \in unseen[r]
  BY DEF Kept
<1> QED
  BY <1>1, <1>2

LEMMA KeptEmit ==
  ASSUME Typed, Kept, NEW r \in Client, Emits(r), NEW q \in Client
  PROVE  KeptBy(q)'
<1>1. PICK op : Own(r, op) /\ Emit(r, op)
  BY DEF Emits
<1>2. clock'[q] = (IF q = r THEN op.time[1] ELSE clock[q]) /\ unseen' = unseen
  BY <1>1, EmitClock, EmitKeeps
<1>3. PICK p \in Op :
        /\ p.id = op.id /\ p.key = op.key /\ p.to = op.to /\ p.time = op.time
        /\ outbox' = [x \in Client |-> IF x = r THEN Append(outbox[x], p)
                                       ELSE outbox[x]]
  BY <1>1, EmitQueue
<1>4. op.time[1] > clock[r] /\ op.time[1] \in Nat /\ clock[q] \in Nat
  BY <1>1, OpFields, StampCounts DEF Own, Typed
<1>5. CASE q # r
  BY <1>2, <1>3, <1>4, <1>5, KeptSame
<1>6. CASE q = r
  <2>1. PICK ops, more : ops \in Seq(Op) /\ ops = outbox[r] /\ more = outbox'[r]
                                     /\ more = Append(ops, p)
    BY <1>3 DEF Typed
  <2>2. SUFFICES ASSUME NEW i \in 1 .. Len(more), NEW a, a = more[i]
                 PROVE  a.time[1] <= op.time[1] \/ <<a.id, a.key>> \in unseen[r]
    BY <1>2, <1>6, <2>1 DEF KeptBy
  <2>3. CASE i = Len(ops) + 1
    <3>1. a = p
      BY <2>1, <2>2, <2>3, OpMany
    <3> QED
      BY <1>3, <1>4, <3>1
  <2>4. CASE i \in 1 .. Len(ops)
    <3>1. a = ops[i] /\ a \in Op
      BY <2>1, <2>2, <2>4, OpMany, LengthIs
    <3>2. a.time[1] <= clock[r] \/ <<a.id, a.key>> \in unseen[r]
      BY <2>1, <2>4, <3>1 DEF Kept
    <3>3. a.time[1] \in Nat
      BY <3>1, OpFields, StampCounts
    <3> QED
      BY <1>4, <1>6, <3>2, <3>3
  <2> QED
    BY <2>1, <2>2, <2>3, <2>4, OpMany
<1> QED
  BY <1>5, <1>6

LEMMA KeptReceive ==
  ASSUME Typed, Kept, NEW r \in Client, NEW k \in 1 .. sent[r], Receive(r, k),
         NEW q \in Client
  PROVE  KeptBy(q)'
<1>1. PICK ops \in Seq(Op) : ops = Batch(r, k)
  BY ReceiveIs
<1>2. /\ outbox' = [p \in Client |-> IF p = r THEN Rest(outbox[p], k)
                                     ELSE Contested(outbox[p], ops)]
      /\ clock' = clock /\ unseen' = unseen
  BY <1>1, ReceiveIs
<1>3. PICK a \in Seq(Op) : a = outbox[q]
  BY DEF Typed
<1>4. PICK c : c = outbox'[q]
  OBVIOUS
<1>5. SUFFICES ASSUME NEW i \in 1 .. Len(c)
               PROVE  \E j \in 1 .. Len(a) : /\ c[i].time = a[j].time
                                             /\ c[i].id = a[j].id /\ c[i].key = a[j].key
  <2>1. ASSUME NEW i \in 1 .. Len(c),
               \E j \in 1 .. Len(a) : /\ c[i].time = a[j].time
                                      /\ c[i].id = a[j].id /\ c[i].key = a[j].key
        PROVE  c[i].time[1] <= clock[q] \/ <<c[i].id, c[i].key>> \in unseen[q]
    <3>1. PICK j \in 1 .. Len(a) : /\ c[i].time = a[j].time
                                   /\ c[i].id = a[j].id /\ c[i].key = a[j].key
      BY <2>1
    <3>2. a[j].time[1] <= clock[q] \/ <<a[j].id, a[j].key>> \in unseen[q]
      BY <1>3 DEF Kept
    <3> QED
      BY <3>1, <3>2
  <2> QED
    BY <1>2, <1>4, <2>1 DEF KeptBy
<1>6. CASE q = r
  <2>1. k \in Nat /\ k <= Len(a) /\ c = Rest(a, k)
    BY <1>2, <1>3, <1>4, <1>6, ReceiveIs
  <2>2. i + k \in 1 .. Len(a) /\ c[i] = a[i + k]
    BY <1>5, <2>1, RestIs
  <2> QED
    BY <2>2
<1>7. CASE q # r
  <2>1. c = Contested(a, ops)
    BY <1>2, <1>3, <1>4, <1>7
  <2>2. Len(c) = Len(a)
    BY <2>1, ContestedIs
  <2> QED
    BY <1>5, <2>1, <2>2, ContestedIs
<1> QED
  BY <1>6, <1>7

(* Who has a new document sees its work from the clock on, except what is   *)
(* under way.                                                               *)
LEMMA KeptLoad ==
  ASSUME Typed, NEW r \in Client, Load(r)
  PROVE  KeptBy(r)'
<1>1. PICK all, k, unsent :
        /\ all \in Seq(Op) /\ all = outbox[r] /\ k = sent[r] /\ k \in Nat
        /\ k <= Len(all) /\ Len(all) \in Nat
        /\ unsent \in Seq(Op) /\ unsent = Rest(all, k)
  BY SentIs
<1>2. /\ outbox' = outbox /\ clock'[r] = Observed(snap[r].clock, unsent)
      /\ Registers(Batch(r, k)) \subseteq unseen'[r]
  BY <1>1, LoadIs
<1>3. SUFFICES ASSUME NEW i \in 1 .. Len(all), NEW op, op = all[i]
               PROVE  op.time[1] <= clock'[r] \/ <<op.id, op.key>> \in unseen'[r]
  BY <1>1, <1>2 DEF KeptBy
<1>4. CASE i <= k
  <2>1. Len(Batch(r, k)) = k /\ Batch(r, k)[i] = op
    BY <1>1, <1>3, <1>4, SplitIs DEF Batch
  <2>2. i \in 1 .. Len(Batch(r, k))
    BY <1>1, <1>4, <2>1
  <2>3. <<op.id, op.key>> \in Registers(Batch(r, k))
    BY <2>1, <2>2 DEF Registers
  <2> QED
    BY <1>2, <2>3
<1>5. CASE ~(i <= k)
  <2>1. Len(unsent) = Len(all) - k
    BY <1>1, RestIs
  <2>2. PICK j \in 1 .. Len(unsent) : j + k = i
    <3>1. i - k \in 1 .. Len(unsent) /\ (i - k) + k = i
      BY <1>1, <1>5, <2>1
    <3> QED
      BY <3>1
  <2>3. unsent[j] = op
    BY <1>1, <1>3, <2>2, RestIs
  <2>4. snap[r].clock \in Nat
    BY DEF Typed, Sending, Snapped
  <2>5. unsent[j].time[1] <= Observed(snap[r].clock, unsent)
    BY <1>1, <2>2, <2>4, ObservedIs
  <2> QED
    BY <1>2, <2>3, <2>5
<1> QED
  BY <1>4, <1>5

LEMMA KeptNext == Typed /\ Kept /\ [Next]_vars => Kept'
<1> SUFFICES ASSUME Typed, Kept, [Next]_vars PROVE Kept'
  OBVIOUS
<1>1. CASE UNCHANGED vars
  BY <1>1 DEF vars, clientVars, roomVars, obsVars, Kept
<1>2. CASE Next
  <2>1. PICK r \in Client : \/ Emits(r) \/ Ticks(r) \/ Flush(r) \/ Takes(r)
                            \/ Read(r) \/ Greet(r) \/ Welcome(r) \/ Load(r)
    BY <1>2, Acts
  <2>2. SUFFICES ASSUME NEW q \in Client PROVE KeptBy(q)'
    BY DEF Kept, KeptBy
  <2>3. /\ clock[q] \in Nat
        /\ (clock'[q] = clock[q] => clock'[q] \in Nat /\ clock[q] <= clock'[q])
    BY DEF Typed
  <2>4. CASE Ticks(r)
    <3>1. outbox' = outbox /\ unseen' = unseen
      BY <2>4, TicksIs
    <3>2. PICK c \in Nat : /\ c >= clock[r]
                           /\ clock' = [p \in Client |-> IF p = r THEN c ELSE clock[p]]
      BY <2>4, TicksIs
    <3>3. clock'[q] \in Nat /\ clock[q] <= clock'[q]
      BY <2>3, <3>2
    <3> QED
      BY <3>1, <3>3, KeptSame
  <2>5. CASE Flush(r) \/ Greet(r)
    BY <2>3, <2>5, FlushIs, GreetIs, KeptSame
  <2>6. CASE Takes(r)
    BY <2>6, KeptReceive DEF Takes
  <2>7. CASE Read(r)
    <3>1. outbox' = outbox /\ unseen' = unseen
      BY <2>7, ReadIs
    <3>2. clock'[q] \in Nat /\ clock[q] <= clock'[q]
      <4>1. CASE q # r
        BY <2>3, <2>7, <4>1, ReadIs
      <4>2. CASE q = r
        <5>1. PICK ops \in Seq(Op) : clock'[q] = Observed(clock[q], ops)
          BY <2>7, <4>2, ReadIs
        <5> QED
          BY <2>3, <5>1, ObservedIs
      <4> QED
        BY <4>1, <4>2
    <3> QED
      BY <3>1, <3>2, KeptSame
  <2>8. CASE Welcome(r)
    <3>1. outbox' = outbox /\ unseen' = unseen
      BY <2>8, WelcomeIs
    <3>2. PICK c \in Nat : /\ clock[r] <= c
                           /\ clock' = [p \in Client |-> IF p = r THEN c ELSE clock[p]]
      BY <2>8, WelcomeIs
    <3>3. clock'[q] \in Nat /\ clock[q] <= clock'[q]
      BY <2>3, <3>2
    <3> QED
      BY <3>1, <3>3, KeptSame
  <2>9. CASE Load(r)
    <3>1. CASE q = r
      BY <2>9, <3>1, KeptLoad
    <3>2. CASE q # r
      <4>1. PICK unsent : unsent = Rest(outbox[r], sent[r])
        OBVIOUS
      <4>2. outbox' = outbox /\ unseen'[q] = unseen[q] /\ clock'[q] = clock[q]
        BY <2>9, <3>2, <4>1, LoadIs
      <4> QED
        BY <2>3, <4>2, KeptSame
    <3> QED
      BY <3>1, <3>2
  <2> QED
    BY <2>1, <2>4, <2>5, <2>6, <2>7, <2>8, <2>9, KeptEmit
<1> QED
  BY <1>1, <1>2

-----------------------------------------------------------------------------
(* An edit made alone leads in the room until it gets there.                *)
LeadsIn(r, out, rm) ==
  \A i \in 1 .. Len(out) :
    /\ Leads(out[i], rm)
    /\ out[i].kind = "set" /\ out[i].alone
         => Past(out[i].time, out, i - 1, out[i].id, out[i].key)

LEMMA AloneLeadsEmit ==
  ASSUME Typed, Noticed, Kept, AloneLeads, NEW r \in Client, Emits(r)
  PROVE  AloneLeads'
<1>1. PICK op : Own(r, op) /\ Emit(r, op)
  BY DEF Emits
<1>2. room' = room
  BY <1>1, EmitKeeps
<1>3. PICK p \in Op :
        /\ p.kind = op.kind /\ p.id = op.id /\ p.key = op.key
        /\ p.to = op.to /\ p.time = op.time
        /\ p.alone <=> /\ <<op.id, op.key>> \notin unseen[r]
                       /\ ~\E b \in 1 .. Len(inbox[r]) : Touched(op, inbox[r][b])
        /\ outbox' = [q \in Client |-> IF q = r THEN Append(outbox[q], p)
                                       ELSE outbox[q]]
  BY <1>1, EmitOut, Zenon
<1>4. p.time[1] > clock[r] /\ p.time[1] \in Nat /\ clock[r] \in Nat
  BY <1>1, <1>3, OpFields, StampCounts DEF Own, Typed
<1>5. Leads(p, room)
  <2>1. SUFFICES ASSUME p.kind = "set", p.alone
                 PROVE  Over(p.time, room, p.id, p.key)
    BY DEF Leads
  <2>2. PICK n, k : n \in Node /\ k \in Key /\ n = p.id /\ k = p.key
    BY <2>1, OpFields
  <2>3. PICK t : t = TimeAt(room, n, k)
    OBVIOUS
  <2>4. <<n, k>> \notin unseen[r]
    BY <1>3, <2>1, <2>2, Zenon
  <2>5. ~Carries(inbox[r], 0, n, k, t)
    <3>1. SUFFICES ASSUME NEW b \in 0 + 1 .. Len(inbox[r]), Has(inbox[r][b], n, k, t)
                   PROVE  FALSE
      BY DEF Carries
    <3>2. Touched(op, inbox[r][b])
      BY <1>3, <2>2, <3>1 DEF Has, Writes, Touched, Same
    <3>3. b \in 1 .. Len(inbox[r])
      BY <3>1
    <3> QED
      BY <1>3, <2>1, <3>2, <3>3, Zenon
  <2>6. t[1] <= clock[r] /\ t[1] \in Nat
    BY <2>2, <2>3, <2>4, <2>5, RoomTime DEF Noticed, NoticedBy
  <2>7. ~Before(p.time, t)
    BY <1>4, <2>6 DEF Before
  <2> QED
    BY <2>2, <2>3, <2>7 DEF Over
<1>6. PICK ops, more : ops \in Seq(Op) /\ ops = outbox[r] /\ more = outbox'[r]
                                   /\ more = Append(ops, p)
  BY <1>3 DEF Typed
<1>7. ASSUME p.alone PROVE Past(p.time, ops, Len(ops), p.id, p.key)
  <2>1. SUFFICES ASSUME NEW j \in 1 .. Len(ops), Writes(ops[j], p.id, p.key)
                 PROVE  ~Before(p.time, ops[j].time)
    BY DEF Past
  <2>2. <<p.id, p.key>> \notin unseen[r]
    BY <1>3, <1>7, Zenon
  <2>3. ops[j].time[1] <= clock[r]
    BY <1>6, <2>1, <2>2 DEF Kept, Writes
  <2>4. ops[j].time[1] \in Nat
    BY <1>6, <2>1, LengthIs, OpFields, StampCounts
  <2> QED
    BY <1>4, <2>3, <2>4 DEF Before
<1>8. LeadsIn(r, ops, room)
  BY <1>6 DEF AloneLeads, LeadsIn
<1>9. ASSUME NEW i \in 1 .. Len(more)
      PROVE  /\ Leads(more[i], room)
             /\ more[i].kind = "set" /\ more[i].alone
                  => Past(more[i].time, more, i - 1, more[i].id, more[i].key)
  <2>1. /\ Len(ops) \in Nat /\ \A j \in 1 .. Len(ops) : more[j] = ops[j]
        /\ i \in 1 .. Len(ops) \/ i = Len(ops) + 1
    BY <1>6, <1>9, OpMany
  <2>2. ASSUME NEW t, NEW n, NEW k, Past(t, ops, i - 1, n, k)
        PROVE  Past(t, more, i - 1, n, k)
    <3>1. \A j \in 1 .. i - 1 : more[j] = ops[j]
      BY <2>1
    <3> QED
      BY <2>2, <3>1 DEF Past
  <2>3. CASE i = Len(ops) + 1
    <3>1. more[i] = p /\ i - 1 = Len(ops)
      BY <1>6, <2>1, <2>3, OpMany
    <3>2. p.alone => Past(p.time, more, i - 1, p.id, p.key)
      BY <1>7, <2>2, <3>1
    <3> QED
      BY <1>5, <3>1, <3>2
  <2>4. CASE i \in 1 .. Len(ops)
    <3>1. more[i] = ops[i]
      BY <2>1, <2>4
    <3>2. /\ Leads(ops[i], room)
          /\ ops[i].kind = "set" /\ ops[i].alone
               => Past(ops[i].time, ops, i - 1, ops[i].id, ops[i].key)
      BY <1>8, <2>4 DEF LeadsIn
    <3> QED
      BY <2>2, <3>1, <3>2
  <2> QED
    BY <2>1, <2>3, <2>4
<1>10. LeadsIn(r, more, room)
  BY <1>9 DEF LeadsIn
<1>11. ASSUME NEW q \in Client PROVE LeadsIn(q, outbox'[q], room')
  <2>1. CASE q = r
    BY <1>2, <1>6, <1>10, <2>1
  <2>2. CASE q # r
    BY <1>2, <1>3, <2>2 DEF AloneLeads, LeadsIn
  <2> QED
    BY <2>1, <2>2
<1> QED
  BY <1>11 DEF AloneLeads, LeadsIn

LEMMA AloneLeadsReceive ==
  ASSUME Typed, Causal, AloneLeads, NEW r \in Client, NEW m \in 1 .. sent[r],
         Receive(r, m)
  PROVE  AloneLeads'
<1>1. PICK ops \in Seq(Op) : ops = Batch(r, m)
  BY ReceiveIs
<1>2. /\ room' = ApplyAll(room, ops)
      /\ outbox' = [q \in Client |-> IF q = r THEN Rest(outbox[q], m)
                                     ELSE Contested(outbox[q], ops)]
  BY <1>1, ReceiveIs
<1>3. PICK all, rest :
        /\ all = outbox[r] /\ rest = Rest(all, m) /\ ops = SubSeq(all, 1, m)
        /\ all \in Seq(Op) /\ m \in Nat /\ m <= Len(all)
  BY <1>1, ReceiveIs DEF Batch
<1>4. /\ Len(ops) = m /\ \A j \in 1 .. m : ops[j] = all[j]
      /\ rest \in Seq(Op) /\ Len(all) \in Nat /\ Len(rest) = Len(all) - m
      /\ \A i \in 1 .. Len(rest) : i + m \in 1 .. Len(all) /\ rest[i] = all[i + m]
  <2>1. Len(ops) = m /\ \A j \in 1 .. m : ops[j] = all[j]
    BY <1>1, <1>3, ReceiveIs
  <2>2. /\ rest \in Seq(Op) /\ Len(all) \in Nat /\ Len(rest) = Len(all) - m
        /\ \A i \in 1 .. Len(rest) : i + m \in 1 .. Len(all) /\ rest[i] = all[i + m]
    BY <1>3, RestIs
  <2> QED
    BY <2>1, <2>2
<1>5. ASSUME NEW n \in Node, NEW k \in Key
      PROVE  \/ TimeAt(room', n, k) = TimeAt(room, n, k)
             \/ Has(ops, n, k, TimeAt(room', n, k))
  <2>1. PICK s : s = room /\ Doc(s) /\ Ready(DOMAIN s, ops)
    <3>1. Parts(all, ops, rest)
      BY <1>3, SplitBatch
    <3>2. Ready(DOMAIN room, all)
      BY <1>3 DEF Causal
    <3> QED
      BY <3>1, <3>2 DEF Typed, Documents, Parts
  <2>2. \/ TimeAt(ApplyAll(s, ops), n, k) = TimeAt(s, n, k)
        \/ Has(ops, n, k, TimeAt(ApplyAll(s, ops), n, k))
    BY <2>1, BatchTime
  <2> QED
    BY <1>2, <2>1, <2>2
<1>6. ASSUME NEW i \in 1 .. Len(rest), rest[i].kind = "set", rest[i].alone
      PROVE  /\ Over(rest[i].time, room', rest[i].id, rest[i].key)
             /\ Past(rest[i].time, rest, i - 1, rest[i].id, rest[i].key)
  <2>1. PICK a \in Op : a = rest[i] /\ a = all[i + m] /\ i + m \in 1 .. Len(all)
    BY <1>3, <1>4, <1>6, LengthIs
  <2>2. PICK n, k, t : n \in Node /\ k \in Key /\ n = a.id /\ k = a.key /\ t = a.time
    BY <1>6, <2>1, OpFields
  <2>3. Over(t, room, n, k) /\ Past(t, all, (i + m) - 1, n, k)
    BY <1>3, <1>6, <2>1, <2>2 DEF AloneLeads, Leads
  <2>4. ASSUME NEW u, Has(ops, n, k, u) PROVE ~Before(t, u)
    <3>1. PICK j \in 1 .. m : Writes(ops[j], n, k) /\ ops[j].time = u
      BY <1>4, <2>4 DEF Has
    <3>2. j \in 1 .. (i + m) - 1 /\ all[j] = ops[j]
      BY <1>3, <1>4, <1>6, <3>1
    <3> QED
      BY <2>3, <3>1, <3>2 DEF Past
  <2>5. Over(t, room', n, k)
    BY <1>5, <2>2, <2>3, <2>4 DEF Over
  <2>6. Past(t, rest, i - 1, n, k)
    <3>1. SUFFICES ASSUME NEW j \in 1 .. i - 1, Writes(rest[j], n, k)
                   PROVE  ~Before(t, rest[j].time)
      BY DEF Past
    <3>2. j \in 1 .. Len(rest) /\ j + m \in 1 .. (i + m) - 1
      BY <1>3, <1>4, <1>6, <3>1
    <3>3. rest[j] = all[j + m]
      BY <1>4, <3>2
    <3> QED
      BY <2>3, <3>1, <3>2, <3>3 DEF Past
  <2> QED
    BY <2>1, <2>2, <2>5, <2>6
<1>7. ASSUME NEW q \in Client, q # r PROVE LeadsIn(q, outbox'[q], room')
  <2>1. PICK a, c : a \in Seq(Op) /\ a = outbox[q] /\ c = outbox'[q]
                                  /\ c = Contested(a, ops)
    BY <1>2, <1>7 DEF Typed
  <2>2. /\ Len(c) = Len(a) /\ Len(a) \in Nat
        /\ \A i \in 1 .. Len(a) :
             /\ a[i] \in Op /\ c[i].kind = a[i].kind /\ c[i].id = a[i].id
             /\ c[i].key = a[i].key /\ c[i].time = a[i].time
             /\ c[i].alone = (a[i].alone /\ ~Touched(a[i], ops))
    <3>1. Len(c) = Len(a) /\ Len(a) \in Nat
      BY <2>1, ContestedIs, LengthIs
    <3>2. ASSUME NEW i \in 1 .. Len(a)
          PROVE  /\ c[i].kind = a[i].kind /\ c[i].id = a[i].id
                 /\ c[i].key = a[i].key /\ c[i].time = a[i].time
                 /\ c[i].alone = (a[i].alone /\ ~Touched(a[i], ops))
      BY <2>1, <3>2, ContestedIs
    <3>3. \A i \in 1 .. Len(a) : a[i] \in Op
      BY <2>1, LengthIs
    <3> QED
      BY <3>1, <3>2, <3>3, Zenon
  <2>3. SUFFICES ASSUME NEW i \in 1 .. Len(a), c[i].kind = "set", c[i].alone
                 PROVE  /\ Over(c[i].time, room', c[i].id, c[i].key)
                        /\ Past(c[i].time, c, i - 1, c[i].id, c[i].key)
    BY <2>1, <2>2 DEF LeadsIn, Leads
  <2>4. a[i].alone /\ ~Touched(a[i], ops)
    BY <2>2, <2>3, Zenon
  <2>5. PICK n, k, t : n \in Node /\ k \in Key /\ n = a[i].id /\ k = a[i].key /\ t = a[i].time
    <3>1. a[i] \in Op /\ a[i].kind = "set"
      BY <2>2, <2>3
    <3> QED
      BY <3>1, OpFields
  <2>6. Over(t, room, n, k) /\ Past(t, a, i - 1, n, k)
    <3>1. a[i].kind = "set"
      BY <2>2, <2>3
    <3> QED
      BY <2>1, <2>3, <2>4, <2>5, <3>1 DEF AloneLeads, Leads
  <2>7. ASSUME NEW u PROVE ~Has(ops, n, k, u)
    BY <2>4, <2>5 DEF Has, Writes, Touched, Same
  <2>8. Over(t, room', n, k)
    BY <1>5, <2>5, <2>6, <2>7 DEF Over
  <2>9. Past(t, c, i - 1, n, k)
    <3>1. \A j \in 1 .. i - 1 : c[j].id = a[j].id /\ c[j].key = a[j].key
                                /\ c[j].time = a[j].time
      BY <2>2, <2>3
    <3> QED
      BY <2>6, <3>1 DEF Past, Writes
  <2>10. c[i].id = n /\ c[i].key = k /\ c[i].time = t
    BY <2>2, <2>3, <2>5
  <2> QED
    BY <2>8, <2>9, <2>10
<1>8. LeadsIn(r, outbox'[r], room')
  <2>1. outbox'[r] = rest
    BY <1>2, <1>3
  <2> QED
    BY <1>6, <2>1 DEF LeadsIn, Leads
<1>9. ASSUME NEW q \in Client PROVE LeadsIn(q, outbox'[q], room')
  BY <1>7, <1>8
<1> QED
  BY <1>9 DEF AloneLeads, LeadsIn

LEMMA AloneLeadsNext ==
  Typed /\ Causal /\ Noticed /\ Kept /\ AloneLeads /\ [Next]_vars => AloneLeads'
<1> SUFFICES ASSUME Typed, Causal, Noticed, Kept, AloneLeads, [Next]_vars
             PROVE  AloneLeads'
  OBVIOUS
<1>1. ASSUME outbox' = outbox, room' = room PROVE AloneLeads'
  BY <1>1 DEF AloneLeads
<1>2. CASE UNCHANGED vars
  BY <1>1, <1>2 DEF vars, clientVars, roomVars, obsVars
<1>3. CASE Next
  <2>1. PICK r \in Client : \/ Emits(r) \/ Ticks(r) \/ Flush(r) \/ Takes(r)
                            \/ Read(r) \/ Greet(r) \/ Welcome(r) \/ Load(r)
    BY <1>3, Acts
  <2>2. PICK unsent : unsent = Rest(outbox[r], sent[r])
    OBVIOUS
  <2>3. CASE Ticks(r) \/ Flush(r)
    BY <1>1, <2>3, TicksIs, FlushIs
  <2>4. CASE Read(r) \/ Greet(r)
    BY <1>1, <2>4, ReadIs, GreetIs
  <2>5. CASE Welcome(r)
    BY <1>1, <2>5, WelcomeIs
  <2>6. CASE Load(r)
    BY <1>1, <2>2, <2>6, LoadIs
  <2>7. CASE Takes(r)
    BY <2>7, AloneLeadsReceive DEF Takes
  <2> QED
    BY <2>1, <2>3, <2>4, <2>5, <2>6, <2>7, AloneLeadsEmit
<1> QED
  BY <1>2, <1>3

-----------------------------------------------------------------------------
(* All of it together.                                                      *)
Merged == /\ Causal /\ Dated /\ Known /\ Passed /\ OneValue
          /\ Level /\ Noticed /\ Kept /\ AloneLeads

LEMMA MergedInit == Init => Merged
<1>1. Init => AloneLeads /\ Kept
  BY DEF Init, AloneLeads, Kept
<1> QED
  BY <1>1, CausalInit, DatedInit, OneValueInit, LevelInit, NoticedInit DEF
     Merged

LEMMA MergedNext == Typed /\ Merged /\ [Next]_vars => Merged'
<1> SUFFICES ASSUME Typed, Merged, [Next]_vars PROVE Merged'
  OBVIOUS
<1>1. /\ Causal /\ Dated /\ Known /\ Passed /\ OneValue
      /\ Level /\ Noticed /\ Kept /\ AloneLeads
  BY DEF Merged
<1>2. Causal' /\ Dated' /\ Known' /\ Passed' /\ OneValue'
  BY <1>1, CausalNext, DatedNext, PassedNext, OneValueNext
<1>3. Level' /\ Noticed' /\ Kept' /\ AloneLeads'
  BY <1>1, LevelNext, NoticedNext, KeptNext, AloneLeadsNext
<1> QED
  BY <1>2, <1>3 DEF Merged

LEMMA AlwaysMerged == Spec => [](Typed /\ Merged)
<1>1. Init => Typed /\ Merged
  BY TypedInit, MergedInit
<1>2. Typed /\ Merged /\ [Next]_vars => (Typed /\ Merged)'
  BY TypedNext, MergedNext
<1> QED
  BY <1>1, <1>2, PTL DEF Spec

(* When nothing is under way.                                               *)
LEMMA QuietTimes ==
  ASSUME Typed, Merged, Quiet, NEW r \in Client, r \notin loaded
  PROVE  /\ DOMAIN store[r] = DOMAIN room
         /\ \A n \in Node, k \in Register : (k = "place" => ~barred) =>
              TimeAt(store[r], n, k) = TimeAt(room, n, k)
<1>1. inbox[r] = <<>> /\ outbox[r] = <<>>
  BY DEF Quiet
<1>2. Coming(r) = {} /\ Leaving(r) = {}
  BY <1>1, NothingSent DEF Coming, Leaving
<1>3. DOMAIN store[r] = DOMAIN room
  <2>1. /\ DOMAIN store[r] \cup Coming(r) \subseteq DOMAIN room \cup Leaving(r)
        /\ DOMAIN room \cup Leaving(r) \subseteq DOMAIN store[r] \cup Coming(r)
    BY DEF Merged, Causal
  <2> QED
    BY <1>2, <2>1
<1>4. ASSUME NEW n \in Node, NEW k \in Register, k = "place" => ~barred
      PROVE  TimeAt(store[r], n, k) = TimeAt(room, n, k)
  <2>1. PICK a \in Time, b \in Time : a = TimeAt(store[r], n, k)
                                      /\ b = TimeAt(room, n, k)
    BY TimeIs DEF Typed, Documents
  <2>2. Balanced(store[r], inbox[r], room, outbox[r], n, k)
    BY <1>4 DEF Merged, Level
  <2>3. \A t : PastIn(t, <<>>, n, k) /\ Past(t, <<>>, Len(<<>>), n, k)
    BY NothingSent DEF PastIn
  <2>4. ASSUME NEW t \in Time PROVE ~Before(t, a) <=> ~Before(t, b)
    <3>1. Over(t, store[r], n, k) /\ PastIn(t, inbox[r], n, k)
          <=> Over(t, room, n, k) /\ Past(t, outbox[r], Len(outbox[r]), n, k)
      BY <2>2 DEF Balanced
    <3>2. Over(t, store[r], n, k) <=> Over(t, room, n, k)
      BY <1>1, <2>3, <3>1
    <3> QED
      BY <2>1, <3>2 DEF Over
  <2>5. ~Before(a, a) /\ ~Before(b, b)
    BY Order
  <2>6. ~Before(a, b) /\ ~Before(b, a)
    BY <2>4, <2>5
  <2>7. Before(a, b) \/ Before(b, a) \/ a = b
    BY Order
  <2> QED
    BY <2>1, <2>6, <2>7
<1> QED
  BY <1>3, <1>4

(* The same time is the same value.                                         *)
LEMMA SameValue ==
  ASSUME Typed, Merged, NEW r \in Client, r \notin loaded,
         NEW n \in DOMAIN room, n \in DOMAIN store[r], NEW k \in Register,
         TimeAt(store[r], n, k) = TimeAt(room, n, k)
  PROVE  Now(store[r], n, k) = Now(room, n, k)
<1>1. PICK x : x = <<n, k, TimeAt(store[r], n, k), Now(store[r], n, k)>>
  OBVIOUS
<1>2. PICK y : y = <<n, k, TimeAt(room, n, k), Now(room, n, k)>>
  OBVIOUS
<1>3. x \in Held(store[r]) /\ y \in Held(room)
  BY <1>1, <1>2 DEF Held
<1>4. x \in Seen /\ y \in Seen
  BY <1>3, SeenHas
<1>5. x[1] = y[1] /\ x[2] = y[2] /\ x[3] = y[3]
  BY <1>1, <1>2
<1>6. x[4] = y[4]
  BY <1>4, <1>5 DEF Merged, OneValue
<1> QED
  BY <1>1, <1>2, <1>6

(* Each property follows from the invariants.                               *)
LEMMA RegistersAgreeOK == Typed /\ Merged => RegistersAgree
<1> SUFFICES ASSUME Typed, Merged, Quiet, NEW r \in Client \ loaded
             PROVE  /\ DOMAIN store[r] = DOMAIN room
                    /\ \A n \in DOMAIN room : /\ store[r][n].val = room[n].val
                                              /\ store[r][n].time = room[n].time
  BY DEF RegistersAgree
<1>1. DOMAIN store[r] = DOMAIN room
  BY QuietTimes
<1>2. ASSUME NEW n \in DOMAIN room
      PROVE  store[r][n].val = room[n].val /\ store[r][n].time = room[n].time
  <2>1. PICK a \in NodeRec, b \in NodeRec : a = store[r][n] /\ b = room[n]
    BY <1>1, <1>2 DEF Typed, Documents, Doc, Holds
  <2>2. n \in Node
    BY DEF Typed, Documents, Doc, Holds
  <2>3. ASSUME NEW k \in Key PROVE a.val[k] = b.val[k] /\ a.time[k] = b.time[k]
    <3>1. k \in Register /\ k # "place"
      BY DEF Register
    <3>2. TimeAt(store[r], n, k) = TimeAt(room, n, k)
      BY <2>2, <3>1, QuietTimes
    <3>3. Now(store[r], n, k) = Now(room, n, k)
      BY <1>1, <3>1, <3>2, SameValue
    <3> QED
      BY <1>1, <2>1, <3>1, <3>2, <3>3 DEF TimeAt, Now
  <2>4. /\ a.val \in [Key -> 0 .. 1] /\ b.val \in [Key -> 0 .. 1]
        /\ a.time \in [Key -> Time] /\ b.time \in [Key -> Time]
    BY DEF NodeRec
  <2>5. a.val = b.val
    BY <2>3, <2>4
  <2>6. a.time = b.time
    BY <2>3, <2>4
  <2> QED
    BY <2>1, <2>5, <2>6
<1> QED
  BY <1>1, <1>2

LEMMA PlacesAgreeOK == Typed /\ Merged => PlacesAgree
<1> SUFFICES ASSUME Typed, Merged, Quiet, ~barred, NEW r \in Client \ loaded,
                    NEW n \in DOMAIN room
             PROVE  store[r][n].parent = room[n].parent
  BY DEF PlacesAgree
<1>1. n \in DOMAIN store[r] /\ n \in Node /\ "place" \in Register
  BY QuietTimes DEF Typed, Documents, Doc, Holds, Register
<1>2. TimeAt(store[r], n, "place") = TimeAt(room, n, "place")
  BY <1>1, QuietTimes
<1>3. Now(store[r], n, "place") = Now(room, n, "place")
  BY <1>1, <1>2, SameValue
<1> QED
  BY <1>3 DEF Now

(* An operation that is not older than what is there, and than what comes   *)
(* before it in its batch, has written its register once its turn is over.  *)
LEMMA EditCounts ==
  ASSUME NEW s, Doc(s), NEW ops \in Seq(Op), Ready(DOMAIN s, ops),
         NEW i \in 1 .. Len(ops), ops[i].kind = "set",
         Over(ops[i].time, s, ops[i].id, ops[i].key),
         Past(ops[i].time, ops, i - 1, ops[i].id, ops[i].key)
  PROVE  /\ ops[i].id \in DOMAIN After(s, ops)[i]
         /\ After(s, ops)[i][ops[i].id].val[ops[i].key] = ops[i].to
<1>1. Len(ops) \in Nat
  BY LengthIs
<1>2. PICK m \in 0 .. Len(ops) : m \in Nat /\ m + 1 = i /\ m + 1 <= Len(ops)
  <2>1. i - 1 \in 0 .. Len(ops) /\ i - 1 \in Nat /\ (i - 1) + 1 = i
    BY <1>1
  <2> QED
    BY <1>1, <2>1
<1>3. PICK op \in Op : op = ops[i]
  BY LengthIs
<1>4. PICK before : before = After(s, ops)[m]
  OBVIOUS
<1>5. PICK n \in Node, k \in Key : n = op.id /\ k = op.key
  BY <1>3, OpFields
<1>6. Doc(before) /\ After(s, ops)[i] = Apply(before, op)
  BY <1>2, <1>3, <1>4, AfterStep
<1>7. n \in DOMAIN before
  <2>1. Fits(DOMAIN before, op)
    BY <1>2, <1>3, <1>4, AfterFits
  <2> QED
    BY <1>3, <1>5, <2>1 DEF Fits
<1>8. ~Before(op.time, TimeAt(before, n, k))
  <2>1. \/ TimeAt(before, n, k) = TimeAt(s, n, k)
        \/ \E j \in 1 .. m : Writes(ops[j], n, k) /\ TimeAt(before, n, k) = ops[j].time
    BY <1>2, <1>4, AfterTime
  <2>2. CASE TimeAt(before, n, k) = TimeAt(s, n, k)
    BY <1>3, <1>5, <2>2 DEF Over
  <2>3. ASSUME NEW j \in 1 .. m, Writes(ops[j], n, k), TimeAt(before, n, k) = ops[j].time
        PROVE  ~Before(op.time, TimeAt(before, n, k))
    <3>1. j \in 1 .. i - 1
      BY <1>1, <1>2
    <3> QED
      BY <1>3, <1>5, <2>3, <3>1 DEF Past
  <2> QED
    BY <2>1, <2>2, <2>3
<1>9. ~Before(op.time, before[op.id].time[op.key])
  <2>1. k # "place"
    BY DEF Register
  <2> QED
    BY <1>5, <1>7, <1>8, <2>1 DEF TimeAt
<1>10. PICK t : t = Set(before, op) /\ t = After(s, ops)[i]
  BY <1>3, <1>6, ApplyIs
<1>11. Holds(before)
  BY <1>6 DEF Doc
<1>12. op.kind = "set" /\ op.id \in DOMAIN before /\ t = Set(before, op)
  BY <1>3, <1>5, <1>7, <1>10
<1>13. DOMAIN t = DOMAIN before
  BY <1>9, <1>11, <1>12, SetIs
<1>14. \A j \in Key : t[op.id].val[j] =
                        IF j = op.key THEN op.to ELSE before[op.id].val[j]
  BY <1>9, <1>11, <1>12, SetIs
<1>15. t[op.id].val[k] = op.to
  BY <1>5, <1>14
<1> QED
  BY <1>3, <1>5, <1>7, <1>10, <1>13, <1>15

LEMMA EditsCountOK == Typed /\ Merged => EditsCount
<1> SUFFICES ASSUME Typed, Merged, NEW r \in Client, NEW i \in 1 .. Len(outbox[r]),
                    outbox[r][i].kind = "set", outbox[r][i].alone
             PROVE  /\ outbox[r][i].id \in DOMAIN After(room, outbox[r])[i]
                    /\ After(room, outbox[r])[i][outbox[r][i].id].val[outbox[r][i].key]
                         = outbox[r][i].to
  BY DEF EditsCount
<1>1. PICK ops \in Seq(Op) : ops = outbox[r]
  BY DEF Typed
<1>2. Doc(room) /\ Ready(DOMAIN room, ops)
  BY <1>1 DEF Typed, Documents, Merged, Causal
<1>3. /\ Over(ops[i].time, room, ops[i].id, ops[i].key)
      /\ Past(ops[i].time, ops, i - 1, ops[i].id, ops[i].key)
  BY <1>1 DEF Merged, AloneLeads, Leads
<1>4. i \in 1 .. Len(ops) /\ ops[i].kind = "set"
  BY <1>1
<1>5. /\ ops[i].id \in DOMAIN After(room, ops)[i]
      /\ After(room, ops)[i][ops[i].id].val[ops[i].key] = ops[i].to
  BY <1>2, <1>3, <1>4, EditCounts
<1> QED
  BY <1>1, <1>5

(* When everything has arrived, everyone who holds the times of the file    *)
(* has the nodes and the properties of the room: DocumentStore.applyCreate  *)
(* and applySet merge the same in any order of arrival.                     *)
THEOREM RegistersMerge == Spec => []RegistersAgree
  BY AlwaysMerged, RegistersAgreeOK, PTL

(* When everything has arrived and no move was rejected because of a cycle, *)
(* everyone who holds the times has the tree of the room                    *)
(* (DocumentStore.applyMove).                                               *)
THEOREM PlacesMerge == Spec => []PlacesAgree
  BY AlwaysMerged, PlacesAgreeOK, PTL

(* An edit of a property by someone who sees all edits of it, the others'   *)
(* and its own, takes effect in the room, also when its author was sent the *)
(* file without times while batches were under way: the clock of the room   *)
(* when the file was taken (LiveSession.receive, "snapshot") makes its time *)
(* late enough for all that the file shows.                                 *)
THEOREM EditsAreNotLost == Spec => []EditsCount
  BY AlwaysMerged, EditsCountOK, PTL

=============================================================================
