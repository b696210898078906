-------------------------- MODULE LiveSync_proofs ---------------------------
(* What LiveSync promises, for any clients, operations and bounds: the types *)
(* of its variables, that no work is lost between the editor and the room,  *)
(* that whoever is greeted is sent every batch once and in order, and that  *)
(* whoever has read all that was sent has all that the room has.            *)
(*                                                                          *)
(* The invariant IInv is about what is on the way. A batch on its way to the *)
(* room is what its client still keeps under that number, so that a         *)
(* confirmation is always earned (OnTheWay); and what a greeted client has  *)
(* still to read is one message for each batch it has not (Streams), which  *)
(* rests on the log being numbered one by one (LogInOrder) and on nothing   *)
(* being sent before the room has greeted (Beginning).                      *)
(*                                                                          *)
(* The invariant AInv adds where each document stands in the history of the *)
(* room, past. The documents of the room grow (Past), those saved are some  *)
(* of them (Stored), each message to be read leads from one to the next     *)
(* (Contents; for a confirmation: with the work its client keeps and shows, *)
(* Lined and Shown), so a client always has the batch it says it has, the   *)
(* one it has read, and the one it was loaded with (Holds).                 *)
EXTENDS LiveSync, SequenceFacts, SequenceTheorems, WellFoundedInduction, TLAPS

USE SyncAssumption DEF SyncAssumption

(* The log holds the latest batches, numbered one by one up to seq.         *)
LogInOrder ==
  /\ Len(log) <= seq
  /\ \A i \in 1 .. Len(log) : log[i].seq = seq - Len(log) + i

(* Nothing is on the way to a client before the room has greeted it.        *)
Beginning ==
  \A k \in Conn :
    /\ k[2] > conn[k[1]] => peer[k] = "none"
    /\ peer[k] \in {"none", "joined"} => down[k] = <<>> /\ held[k] = <<>>

(* The batches a client keeps have numbers it gave.                         *)
Numbered == \A c \in Client : DOMAIN unacked[c] \subseteq 1 .. nextBatch[c]

(* A batch on its way to the room is the one its client keeps under that    *)
(* number, unless the client has taken it back; and a confirmation on its   *)
(* way to the client is for work the room took.                             *)
Known(c, m) ==
  m.type = "ops" =>
    /\ m.id <= nextBatch[c]
    /\ m.id \in DOMAIN unacked[c] => unacked[c][m.id] = m.ops

Earned(c, m) ==
  m.type = "ack" =>
    /\ m.id <= nextBatch[c]
    /\ m.id \in DOMAIN unacked[c] => Range(unacked[c][m.id]) \subseteq received

OnTheWay ==
  \A k \in Conn :
    /\ \A m \in Range(up[k]) : Known(k[1], m)
    /\ \A m \in Range(down[k]) \cup Range(held[k]) : Earned(k[1], m)

(* What a client has still to read: a welcome or nothing, then one message  *)
(* for each number after from up to to.                                     *)
Skip(s) == IF s # <<>> /\ Head(s).type = "welcome" THEN 1 ELSE 0

WelcomeFirst(s) == \A i \in 2 .. Len(s) : s[i].type # "welcome"

Runs(s, from, to) ==
  /\ Len(s) - Skip(s) = to - from
  /\ \A i \in 1 .. to - from : s[i + Skip(s)].seq = from + i

ToRead(k) == down[k] \o held[k]

Streams ==
  \A k \in Conn :
    peer[k] = "greeted" /\ ~GivenUp(k) =>
      WelcomeFirst(ToRead(k)) /\ Runs(ToRead(k), cursor[k], seq)

(* The inductive invariant.                                                 *)
IInv == /\ TypeOK /\ LogInOrder /\ Beginning /\ Numbered /\ OnTheWay /\ NoWorkLost
        /\ Streams

-----------------------------------------------------------------------------
(* What the operators of the model give.                                    *)

(* What messages carry.                                                     *)
LEMMA Messages ==
  /\ \A m \in DownMsg : /\ m.seq \in Nat
                        /\ m.type = "snapshot" => m.doc \in SUBSET Op
                        /\ m.type = "ops" => m.ops \in Seq(Op)
                        /\ m.type = "ack" => m.id \in Nat
  /\ \A m \in UpMsg : /\ m.type = "hello" => m.version \in Int /\ m.since \in Int
                      /\ m.type = "ops" => m.id \in Nat /\ m.ops \in Seq(Op)
  BY DEF DownMsg, UpMsg, HelloMsg, BatchMsg

(* The messages written are messages.                                       *)
LEMMA Written ==
  /\ \A v, n \in Int : Hello(v, n) \in UpMsg
  /\ \A id \in Nat, ops \in Seq(Op) : Batch(id, ops) \in UpMsg
  /\ \A n \in Nat, d \in SUBSET Op : Snapshot(n, d) \in DownMsg
  /\ \A n \in Nat, ops \in Seq(Op) : Relayed(n, ops) \in DownMsg
  /\ \A id, n \in Nat : Ack(id, n) \in DownMsg
  /\ seq \in Nat => Welcome \in DownMsg
  BY DEF DownMsg, UpMsg, HelloMsg, BatchMsg, Hello, Batch, Snapshot, Relayed,
     Ack, Welcome

(* Applying operations gives a document.                                    *)
LEMMA ApplyType ==
  ASSUME NEW d \in SUBSET Op, NEW ops \in Seq(Op)
  PROVE  Apply(d, ops) \in SUBSET Op
<1>1. \A i \in Effective(d, ops) : ops[i] \in Op
  <2>1. Effective(d, ops) \subseteq DOMAIN ops
    BY DEF Effective
  <2> QED
    BY <2>1, LenProperties
<1> QED
  BY <1>1 DEF Apply

(* The recursive function by which batches are put back exists, so it is    *)
(* what its definition says: it is built up to any number of batches.       *)
LEMMA PutBackIs ==
  ASSUME TypeOK, NEW c \in Client
  PROVE  PutBack(c) = [n \in 0 .. nextBatch[c] |->
           IF n = 0 THEN outbox[c]
           ELSE IF n \in DOMAIN unacked[c] THEN unacked[c][n] \o PutBack(c)[n - 1]
           ELSE PutBack(c)[n - 1]]
<1> DEFINE Then(n, s) == IF n \in DOMAIN unacked[c] THEN unacked[c][n] \o s ELSE s
           Upto(g, m) == /\ g \in [0 .. m -> Seq(Op)] /\ g[0] = outbox[c]
                         /\ \A n \in 1 .. m : g[n] = Then(n, g[n - 1])
           Front(f) == [n \in 0 .. nextBatch[c] |->
                          IF n = 0 THEN outbox[c]
                          ELSE IF n \in DOMAIN unacked[c] THEN unacked[c][n] \o f[n - 1]
                          ELSE f[n - 1]]
           Reached == {m \in Nat : \E g : Upto(g, m)}
<1>1. /\ outbox[c] \in Seq(Op) /\ nextBatch[c] \in Nat
      /\ \A n \in DOMAIN unacked[c] : unacked[c][n] \in Seq(Op)
  BY DEF TypeOK, WorkTypes
<1>2. \A n, s : s \in Seq(Op) => Then(n, s) \in Seq(Op)
  BY <1>1, Concat
<1>3. 0 \in Reached
  <2>1. Upto([n \in 0 .. 0 |-> outbox[c]], 0)
    BY <1>1
  <2> QED
    BY <2>1
<1>4. ASSUME NEW m \in Nat, m \in Reached PROVE m + 1 \in Reached
  <2>1. PICK g : Upto(g, m)
    BY <1>4
  <2> HIDE DEF Then
  <2> DEFINE h == [n \in 0 .. m + 1 |-> IF n = m + 1 THEN Then(m + 1, g[m]) ELSE g[n]]
  <2>2. h \in [0 .. m + 1 -> Seq(Op)]
    BY <1>2, <2>1
  <2>3. h[0] = outbox[c]
    BY <2>1
  <2>4. ASSUME NEW n \in 1 .. m + 1 PROVE h[n] = Then(n, h[n - 1])
    <3>1. n - 1 \in 0 .. m /\ h[n - 1] = g[n - 1]
      OBVIOUS
    <3>2. CASE n = m + 1
      BY <3>1, <3>2
    <3>3. CASE n \in 1 .. m
      BY <2>1, <3>1, <3>3
    <3> QED
      BY <3>2, <3>3
  <2>5. Upto(h, m + 1)
    BY <2>2, <2>3, <2>4
  <2> HIDE DEF Upto, h
  <2>6. m + 1 \in Nat /\ \E k : Upto(k, m + 1)
    BY <2>5
  <2> QED
    BY <2>6
<1>5. nextBatch[c] \in Reached
  <2> HIDE DEF Reached
  <2> QED
    BY <1>1, <1>3, <1>4, AllNumbers
<1>6. PICK g : Upto(g, nextBatch[c])
  BY <1>5
<1>7. g = Front(g)
  <2>1. g = [n \in 0 .. nextBatch[c] |-> g[n]]
    BY <1>6
  <2>2. ASSUME NEW n \in 0 .. nextBatch[c] PROVE g[n] = Front(g)[n]
    BY <1>1, <1>6, <2>2
  <2> QED
    BY <2>1, <2>2
<1>8. PutBack(c) = CHOOSE f : f = Front(f)
  BY DEF PutBack
<1> HIDE DEF Front
<1>9. PutBack(c) = Front(PutBack(c))
  BY <1>7, <1>8, Zenon
<1> QED
  BY <1>9 DEF Front

(* What is taken back is the work that is not confirmed: by induction over  *)
(* the numbers of the batches.                                              *)
LEMMA TakenBackIs ==
  ASSUME TypeOK, Numbered, NEW c \in Client
  PROVE  TakenBack(c) \in Seq(Op) /\ Range(TakenBack(c)) = Pending(c)
<1>1. PICK last \in Nat : last = nextBatch[c]
  BY DEF TypeOK, WorkTypes
<1>2. PICK f : f = PutBack(c)
  OBVIOUS
<1> DEFINE In(m) == Range(outbox[c]) \cup
                      UNION {Range(unacked[c][i]) : i \in DOMAIN unacked[c] \cap 1 .. m}
           Full == {m \in Nat : m <= last => f[m] \in Seq(Op) /\ Range(f[m]) = In(m)}
<1>3. /\ outbox[c] \in Seq(Op)
      /\ \A n \in DOMAIN unacked[c] : unacked[c][n] \in Seq(Op)
      /\ DOMAIN unacked[c] \subseteq 1 .. last
  BY <1>1 DEF TypeOK, WorkTypes, Numbered
<1>4. f = [n \in 0 .. last |->
             IF n = 0 THEN outbox[c]
             ELSE IF n \in DOMAIN unacked[c] THEN unacked[c][n] \o f[n - 1]
             ELSE f[n - 1]]
  BY <1>1, <1>2, PutBackIs, Zenon
<1>5. 0 \in Full
  <2>1. f[0] = outbox[c]
    BY <1>4
  <2>2. In(0) = Range(outbox[c])
    OBVIOUS
  <2> QED
    BY <1>3, <2>1, <2>2
<1>6. ASSUME NEW m \in Nat, m \in Full PROVE m + 1 \in Full
  <2> SUFFICES ASSUME m + 1 <= last
               PROVE  f[m + 1] \in Seq(Op) /\ Range(f[m + 1]) = In(m + 1)
    OBVIOUS
  <2>1. m <= last /\ m + 1 \in 0 .. last /\ m + 1 # 0 /\ (m + 1) - 1 = m
    OBVIOUS
  <2>2. f[m] \in Seq(Op) /\ Range(f[m]) = In(m)
    <3> HIDE DEF In
    <3> QED
      BY <1>6, <2>1
  <2>3. CASE m + 1 \in DOMAIN unacked[c]
    <3>1. f[m + 1] = unacked[c][m + 1] \o f[m]
      BY <1>4, <2>1, <2>3
    <3>2. DOMAIN unacked[c] \cap 1 .. m + 1 = (DOMAIN unacked[c] \cap 1 .. m) \cup {m + 1}
      BY <2>3
    <3>3. In(m + 1) = In(m) \cup Range(unacked[c][m + 1])
      BY <3>2
    <3>4. /\ f[m + 1] \in Seq(Op)
          /\ Range(f[m + 1]) = Range(unacked[c][m + 1]) \cup Range(f[m])
      <4>1. PICK front, rest : front = unacked[c][m + 1] /\ rest = f[m]
        OBVIOUS
      <4>2. front \in Seq(Op) /\ rest \in Seq(Op)
        BY <1>3, <2>2, <2>3, <4>1
      <4>3. front \o rest \in Seq(Op) /\ Range(front \o rest) = Range(front) \cup Range(rest)
        BY <4>2, Concat
      <4> QED
        BY <3>1, <4>1, <4>3
    <3> QED
      BY <2>2, <3>3, <3>4
  <2>4. CASE m + 1 \notin DOMAIN unacked[c]
    <3>1. f[m + 1] = f[m]
      BY <1>4, <2>1, <2>4
    <3>2. DOMAIN unacked[c] \cap 1 .. m + 1 = DOMAIN unacked[c] \cap 1 .. m
      BY <2>4
    <3> QED
      BY <2>2, <3>1, <3>2
  <2> QED
    BY <2>3, <2>4
<1>7. last \in Full
  <2> HIDE DEF Full
  <2> QED
    BY <1>1, <1>5, <1>6, AllNumbers
<1>8. In(last) = Pending(c)
  <2>1. DOMAIN unacked[c] \cap 1 .. last = DOMAIN unacked[c]
    BY <1>3
  <2> QED
    BY <2>1 DEF Pending
<1>9. f[last] \in Seq(Op) /\ Range(f[last]) = In(last)
  <2> HIDE DEF In
  <2> QED
    BY <1>1, <1>7
<1> QED
  BY <1>1, <1>2, <1>8, <1>9 DEF TakenBack

(* Connections and operations are named by a client and a number.           *)
LEMMA Names ==
  /\ \A c \in Client : \A n \in 1 .. MaxConn[c] : <<c, n>> \in Conn
  /\ \A k \in Conn : k[1] \in Client /\ k[2] \in 1 .. MaxConn[k[1]] /\ k = <<k[1], k[2]>>
  /\ \A c \in Client : \A n \in 1 .. Quota[c] : <<c, n>> \in Op
  BY DEF Conn, Op

(* An open connection has been opened.                                      *)
LEMMA CurrentIs ==
  ASSUME LinkTypes, NEW c \in Client, online[c]
  PROVE  Current(c) \in Conn /\ conn[c] \in 1 .. MaxConn[c]
<1>1. conn[c] \in 1 .. MaxConn[c]
  BY DEF LinkTypes
<1> QED
  BY <1>1, Names DEF Current

-----------------------------------------------------------------------------
(* Types.                                                                   *)

(* The log is numbered one by one up to seq, whatever KeepLatest drops.     *)
LEMMA LogKept ==
  ASSUME RoomTypes, SaveTypes, NetTypes, LogInOrder, [Next]_vars
  PROVE  RoomTypes' /\ LogInOrder'
<1>1. ASSUME NEW k \in Conn, Receive(k) PROVE RoomTypes' /\ LogInOrder'
  <2> DEFINE msg == Head(up[k])
             Entry == [seq : Nat, ops : Seq(Op)]
             entry == [seq |-> seq + 1, ops |-> msg.ops]
             all == Append(log, entry)
  <2>1. msg.ops \in Seq(Op)
    <3>1. up[k] \in Seq(UpMsg) /\ up[k] # <<>> /\ msg.type = "ops"
      BY <1>1 DEF Receive, Hears, NetTypes
    <3>2. msg \in UpMsg
      BY <3>1, Shortened
    <3> QED
      BY <3>1, <3>2, Messages
  <2>2. roomDoc' = Apply(roomDoc, msg.ops) /\ log' = KeepLatest(all)
    BY <1>1 DEF Receive
  <2>3. epoch' = epoch /\ seq' = seq + 1
    BY <1>1 DEF Receive
  <2>4. roomDoc' \in SUBSET Op
    BY <2>1, <2>2, ApplyType DEF RoomTypes
  <2>9. past' \in [0 .. seq' -> SUBSET Op]
    <3>1. past' = [n \in 0 .. seq' |-> IF n <= seq THEN past[n] ELSE roomDoc']
      BY <1>1, <2>3 DEF Receive
    <3>2. ASSUME NEW n \in 0 .. seq' PROVE (IF n <= seq THEN past[n] ELSE roomDoc') \in SUBSET Op
      <4>1. n <= seq => n \in 0 .. seq
        BY <2>3 DEF RoomTypes
      <4> QED
        BY <2>4, <4>1 DEF RoomTypes
    <3> QED
      BY <3>1, <3>2
  <2>5. PICK n \in Nat, s \in Nat : n = Len(log) /\ s = seq /\ n <= s
    BY DEF RoomTypes, LogInOrder
  <2>6. /\ all \in Seq(Entry) /\ Len(all) = n + 1
        /\ \A i \in 1 .. n + 1 : all[i].seq = s - n + i
    <3>1. entry \in Entry /\ log \in Seq(Entry)
      BY <2>1 DEF RoomTypes
    <3>2. /\ all \in Seq(Entry) /\ Len(all) = n + 1
          /\ \A i \in 1 .. n : all[i] = log[i]
          /\ all[n + 1] = entry
      BY <2>5, <3>1, AppendProperties
    <3>3. \A i \in 1 .. n : log[i].seq = s - n + i
      BY <2>5 DEF LogInOrder
    <3>4. entry.seq = s - n + (n + 1)
      BY <2>5
    <3> HIDE DEF all, entry, Entry
    <3>5. ASSUME NEW i \in 1 .. n + 1 PROVE all[i].seq = s - n + i
      <4>1. CASE i = n + 1
        BY <3>2, <3>4, <4>1
      <4>2. CASE i \in 1 .. n
        BY <3>2, <3>3, <4>2
      <4> QED
        BY <4>1, <4>2
    <3> QED
      BY <3>2, <3>5
  <2> HIDE DEF all, entry, msg
  <2>7. CASE ~(n + 1 > LogLimit)
    <3>1. log' = all
      BY <2>2, <2>6, <2>7 DEF KeepLatest
    <3>2. \A i \in 1 .. n + 1 : log'[i].seq = seq' - (n + 1) + i
      BY <2>3, <2>5, <2>6, <3>1
    <3>3. LogInOrder'
      BY <2>3, <2>5, <2>6, <3>1, <3>2 DEF LogInOrder
    <3> QED
      BY <2>3, <2>4, <2>5, <2>6, <2>9, <3>1, <3>3 DEF RoomTypes
  <2>8. CASE n + 1 > LogLimit
    <3>1. PICK cut \in 1 .. n + 1 : LogLimit = n + 1 - cut
      <4>1. n + 1 - LogLimit \in 1 .. n + 1 /\ LogLimit = n + 1 - (n + 1 - LogLimit)
        BY <2>8
      <4> QED
        BY <4>1
    <3>2. log' = SubSeq(all, cut + 1, n + 1)
      <4>1. Len(all) > LogLimit /\ Len(all) - LogLimit + 1 = cut + 1
        BY <2>6, <2>8, <3>1
      <4> QED
        BY <2>2, <2>6, <4>1 DEF KeepLatest
    <3>3. ASSUME NEW i \in cut + 1 .. n + 1 PROVE all[i] \in Entry
      <4>1. i \in 1 .. n + 1
        OBVIOUS
      <4> QED
        BY <2>6, <4>1, ElementOfSeq
    <3>4. /\ log' \in Seq(Entry)
          /\ Len(log') = IF cut + 1 <= n + 1 THEN (n + 1) - (cut + 1) + 1 ELSE 0
          /\ \A i \in 1 .. (n + 1) - (cut + 1) + 1 : log'[i] = all[(cut + 1) + i - 1]
      BY <3>2, <3>3, SubSeqProperties
    <3>5. /\ Len(log') = LogLimit
          /\ \A i \in 1 .. LogLimit : log'[i] = all[cut + i]
      BY <3>1, <3>4
    <3>6. ASSUME NEW i \in 1 .. LogLimit PROVE log'[i].seq = seq' - LogLimit + i
      <4>1. cut + i \in 1 .. n + 1
        BY <3>1
      <4>2. all[cut + i].seq = s - n + (cut + i)
        BY <2>6, <4>1
      <4>3. s - n + (cut + i) = (s + 1) - LogLimit + i
        BY <3>1
      <4> QED
        BY <2>3, <2>5, <3>5, <4>2, <4>3
    <3>7. LogInOrder'
      <4>1. seq' = s + 1 /\ LogLimit <= s + 1
        BY <2>3, <2>5, <2>8
      <4> QED
        BY <3>5, <3>6, <4>1 DEF LogInOrder
    <3> QED
      BY <2>3, <2>4, <2>5, <2>9, <3>4, <3>7 DEF RoomTypes
  <2> QED
    BY <2>7, <2>8, <2>5
<1>2. CASE Reopen
  <2>1. /\ epoch' = epoch + 1 /\ roomDoc' = disk.doc /\ seq' = 0 /\ log' = <<>>
        /\ past' = [n \in 0 .. seq' |-> disk.doc]
    BY <1>2 DEF Reopen
  <2>2. past' \in [0 .. seq' -> SUBSET Op]
    BY <2>1 DEF SaveTypes
  <2> QED
    BY <2>1, <2>2 DEF RoomTypes, LogInOrder, SaveTypes
<1>3. ASSUME UNCHANGED roomVars PROVE RoomTypes' /\ LogInOrder'
  BY <1>3 DEF roomVars, RoomTypes, LogInOrder
<1>4. ASSUME NEW c \in Client, \/ LoadRecord(c) \/ LoadDocument(c) \/ Edit(c)
                               \/ Connect(c) \/ Flush(c) \/ Read(c) \/ ClientClose(c)
      PROVE  UNCHANGED roomVars
  BY <1>4 DEF LoadRecord, LoadDocument, Edit, Connect, Flush, Read,
     ReadWelcome,
     ReadSnapshot, ReadOps, ReadAck, ClientClose
<1>5. ASSUME NEW k \in Conn, Greet(k) \/ SendSnapshot(k) \/ ServerClose(k)
      PROVE  UNCHANGED roomVars
  BY <1>5 DEF Greet, SendSnapshot, ServerClose
<1>6. ASSUME Save \/ Write \/ UNCHANGED vars
      PROVE  UNCHANGED roomVars
  BY <1>6 DEF Save, Write, WriteDocument, WriteRecord, vars
<1> QED
  BY <1>1, <1>2, <1>3, <1>4, <1>5, <1>6 DEF Next, Hear

(* What a newcomer is sent in place of the file are the batches after the   *)
(* one it has, in order.                                                    *)
LEMMA MissedIs ==
  ASSUME RoomTypes, LogInOrder, NEW from \in Int, CanReplay(from)
  PROVE  /\ seq - from \in Nat
         /\ Missed(from) \in Seq(DownMsg) /\ Len(Missed(from)) = seq - from
         /\ \A i \in 1 .. seq - from : /\ Missed(from)[i].seq = from + i
                                       /\ Missed(from)[i].type = "ops"
<1>1. PICK n \in Nat, s \in Nat : n = Len(log) /\ s = seq /\ n <= s
  BY LenProperties DEF RoomTypes, LogInOrder
<1>2. FirstLogged = s - n + 1
  <2>1. CASE log = <<>>
    BY <1>1, <2>1 DEF FirstLogged
  <2>2. CASE log # <<>>
    <3>1. n # 0 /\ Head(log) = log[1]
      BY <1>1, <2>2, EmptySeq DEF RoomTypes
    <3>2. log[1].seq = s - n + 1
      BY <1>1, <3>1 DEF LogInOrder
    <3> QED
      BY <2>2, <3>1, <3>2 DEF FirstLogged
  <2> QED
    BY <2>1, <2>2
<1>3. from >= s - n /\ from <= s
  BY <1>1, <1>2 DEF CanReplay
<1>4. ASSUME NEW i \in 1 .. s - from
      PROVE  Relayed(from + i, log[from + i - FirstLogged + 1].ops) \in DownMsg
  <2>1. from + i - (s - n + 1) + 1 \in 1 .. n
    BY <1>3
  <2>2. log[from + i - FirstLogged + 1] \in [seq : Nat, ops : Seq(Op)]
    BY <1>1, <1>2, <2>1, ElementOfSeq DEF RoomTypes
  <2>3. from + i \in Nat
    BY <1>1, <1>3
  <2> QED
    BY <2>2, <2>3, Written
<1>5. Missed(from) = [i \in 1 .. s - from |->
                        Relayed(from + i, log[from + i - FirstLogged + 1].ops)]
  BY <1>1 DEF Missed
<1>6. s - from \in Nat
  BY <1>3
<1>7. Missed(from) \in Seq(DownMsg) /\ Len(Missed(from)) = s - from
  BY <1>4, <1>5, <1>6
<1> QED
  BY <1>1, <1>5, <1>6, <1>7 DEF Relayed

(* What a client reads.                                                     *)
LEMMA ReadIs ==
  ASSUME NetTypes, LinkTypes, NEW c \in Client, NEW type, Reads(c, type)
  PROVE  /\ online[c] /\ Current(c) \in Conn
         /\ Head(down[Current(c)]) \in DownMsg
         /\ Head(down[Current(c)]) \in Range(down[Current(c)])
         /\ Head(down[Current(c)]).type = type
         /\ down[Current(c)] # <<>>
         /\ Tail(down[Current(c)]) \in Seq(DownMsg)
         /\ Range(Tail(down[Current(c)])) \subseteq Range(down[Current(c)])
         /\ down' = [down EXCEPT ![Current(c)] = Tail(down[Current(c)])]
<1>1. /\ online[c] /\ down[Current(c)] # <<>>
      /\ Head(down[Current(c)]).type = type
      /\ down' = [down EXCEPT ![Current(c)] = Tail(down[Current(c)])]
  BY DEF Reads
<1>2. Current(c) \in Conn
  BY <1>1, CurrentIs
<1>3. down[Current(c)] \in Seq(DownMsg)
  BY <1>2 DEF NetTypes
<1> QED
  BY <1>1, <1>2, <1>3, Shortened

(* What the room reads.                                                     *)
LEMMA HearIs ==
  ASSUME NetTypes, NEW k \in Conn, NEW type, Hears(k, type)
  PROVE  /\ Head(up[k]) \in UpMsg /\ Head(up[k]) \in Range(up[k])
         /\ Head(up[k]).type = type
         /\ Tail(up[k]) \in Seq(UpMsg) /\ Range(Tail(up[k])) \subseteq Range(up[k])
<1>1. up[k] # <<>> /\ Head(up[k]).type = type /\ up[k] \in Seq(UpMsg)
  BY DEF Hears, NetTypes
<1> QED
  BY <1>1, Shortened

(* Types of the room being saved.                                           *)
LEMMA SaveTypesKept ==
  ASSUME RoomTypes, SaveTypes, [Next]_vars
  PROVE  SaveTypes'
<1> DEFINE Taken == [doc : SUBSET Op, seq : Nat]
<1>1. CASE Save
  <2>1. [doc |-> roomDoc, seq |-> seq] \in Taken
    BY DEF RoomTypes
  <2>2. saving' \in Seq(Taken)
    BY <1>1, <2>1, AppendProperties DEF Save, SaveTypes
  <2> QED
    BY <1>1, <2>2 DEF Save, SaveTypes
<1>2. ASSUME saving # <<>>
      PROVE  /\ Head(saving).doc \in SUBSET Op /\ Head(saving).seq \in Nat
             /\ Tail(saving) \in Seq(Taken)
  <2>1. Head(saving) \in Taken /\ Tail(saving) \in Seq(Taken)
    BY <1>2, HeadTailProperties DEF SaveTypes
  <2> QED
    BY <2>1
<1>3. CASE WriteDocument
  BY <1>2, <1>3 DEF WriteDocument, SaveTypes
<1>4. CASE WriteRecord
  <2>1. disk' \in [doc : SUBSET Op, version : Nat]
    <3>1. PICK v \in Nat : v = disk.version
      BY DEF SaveTypes
    <3>2. disk' = [disk EXCEPT !.version = v + 1]
      BY <1>4, <3>1 DEF WriteRecord
    <3>3. /\ v + 1 \in Nat
          /\ disk = [doc |-> disk.doc, version |-> disk.version] /\ disk.doc \in SUBSET Op
      BY DEF SaveTypes
    <3>4. disk' = [doc |-> disk.doc, version |-> v + 1]
      BY <3>2, <3>3
    <3> QED
      BY <3>3, <3>4
  <2>2. /\ DOMAIN versions' \subseteq Nat
        /\ \A v \in DOMAIN versions' : versions'[v] \in Nat
    BY <1>2, <1>4 DEF WriteRecord, SaveTypes
  <2> QED
    BY <1>2, <1>4, <2>1, <2>2 DEF WriteRecord, SaveTypes
<1>5. ASSUME NEW k \in Conn, Receive(k) PROVE SaveTypes'
  BY <1>5 DEF Receive, SaveTypes
<1>6. CASE Reopen
  BY <1>6 DEF Reopen, SaveTypes
<1>7. ASSUME UNCHANGED saveVars PROVE SaveTypes'
  BY <1>7 DEF saveVars, SaveTypes
<1>8. ASSUME NEW c \in Client, \/ LoadRecord(c) \/ LoadDocument(c) \/ Edit(c)
                               \/ Connect(c) \/ Flush(c) \/ Read(c) \/ ClientClose(c)
      PROVE  UNCHANGED saveVars
  BY <1>8 DEF LoadRecord, LoadDocument, Edit, Connect, Flush, Read,
     ReadWelcome,
     ReadSnapshot, ReadOps, ReadAck, ClientClose
<1>9. ASSUME NEW k \in Conn, Greet(k) \/ SendSnapshot(k) \/ ServerClose(k)
      PROVE  UNCHANGED saveVars
  BY <1>9 DEF Greet, SendSnapshot, ServerClose
<1>10. UNCHANGED vars => UNCHANGED saveVars
  BY DEF vars
<1> QED
  BY <1>1, <1>3, <1>4, <1>5, <1>6, <1>7, <1>8, <1>9, <1>10 DEF Next, Hear,
     Write

(* Types of a tab and its document.                                         *)
LEMMA TabTypesKept ==
  ASSUME TypeOK, [Next]_vars
  PROVE  TabTypes'
<1> USE DEF TabTypes
<1>0. RoomTypes /\ SaveTypes /\ NetTypes /\ TabTypes /\ LinkTypes /\ WorkTypes
  BY DEF TypeOK
<1>1. ASSUME NEW c \in Client, LoadRecord(c) PROVE TabTypes'
  BY <1>0, <1>1 DEF LoadRecord, SaveTypes
<1>2. ASSUME NEW c \in Client, LoadDocument(c) PROVE TabTypes'
  BY <1>0, <1>2 DEF LoadDocument, SaveTypes
<1>3. ASSUME NEW c \in Client, Edit(c) PROVE TabTypes'
  <2>1. <<c, made[c] + 1>> \in Op
    <3>1. made[c] + 1 \in 1 .. Quota[c]
      BY <1>0, <1>3 DEF Edit
    <3> QED
      BY <3>1, Names
  <2>2. doc' \in [Client -> SUBSET Op]
    BY <1>0, <1>3, <2>1 DEF Edit
  <2> QED
    BY <1>0, <1>3, <2>2 DEF Edit
<1>4. ASSUME NEW c \in Client, ReadWelcome(c) PROVE TabTypes'
  <2>1. Head(down[Current(c)]).seq \in Int
    <3>1. Reads(c, "welcome")
      BY <1>4 DEF ReadWelcome
    <3>2. Head(down[Current(c)]).seq \in Nat
      BY <1>0, <3>1, ReadIs, Messages
    <3> QED
      BY <3>2
  <2> QED
    BY <1>0, <1>4, <2>1 DEF ReadWelcome
<1>5. ASSUME NEW c \in Client, ReadSnapshot(c) PROVE TabTypes'
  <2> DEFINE msg == Head(down[Current(c)])
  <2>1. msg.seq \in Nat /\ msg.doc \in SUBSET Op
    <3>1. Reads(c, "snapshot")
      BY <1>5 DEF ReadSnapshot
    <3> QED
      BY <1>0, <3>1, ReadIs, Messages
  <2>2. Apply(msg.doc, outbox[c]) \in SUBSET Op
    BY <1>0, <2>1, ApplyType DEF WorkTypes
  <2> QED
    BY <1>0, <1>5, <2>1, <2>2 DEF ReadSnapshot
<1>6. \A x \in Int, n \in Nat : Max2(Max2(x, 0), n) \in Int
  BY DEF Max2
<1>7. ASSUME NEW c \in Client, ReadOps(c) PROVE TabTypes'
  <2> DEFINE msg == Head(down[Current(c)])
  <2>1. msg.seq \in Nat /\ msg.ops \in Seq(Op)
    <3>1. Reads(c, "ops")
      BY <1>7 DEF ReadOps
    <3> QED
      BY <1>0, <3>1, ReadIs, Messages
  <2>2. Apply(doc[c], msg.ops) \in SUBSET Op
    BY <1>0, <2>1, ApplyType
  <2> QED
    BY <1>0, <1>6, <1>7, <2>1, <2>2 DEF ReadOps
<1>8. ASSUME NEW c \in Client, ReadAck(c) PROVE TabTypes'
  <2>1. Head(down[Current(c)]).seq \in Nat
    <3>1. Reads(c, "ack")
      BY <1>8 DEF ReadAck
    <3> QED
      BY <1>0, <3>1, ReadIs, Messages
  <2> QED
    BY <1>0, <1>6, <1>8, <2>1 DEF ReadAck
<1>9. ASSUME NEW c \in Client,
             Connect(c) \/ Flush(c) \/ ClientClose(c)
      PROVE  TabTypes'
  BY <1>0, <1>9 DEF Connect, Flush, ClientClose
<1>10. ASSUME NEW k \in Conn, \/ Greet(k) \/ Receive(k) \/ SendSnapshot(k)
                              \/ ServerClose(k)
       PROVE  TabTypes'
  BY <1>0, <1>10 DEF Greet, Receive, SendSnapshot, ServerClose, clientVars
<1>11. ASSUME Save \/ WriteDocument \/ WriteRecord \/ Reopen \/ UNCHANGED vars
       PROVE  TabTypes'
  BY <1>0, <1>11 DEF Save, WriteDocument, WriteRecord, Reopen, vars, clientVars
<1> QED
  BY <1>1, <1>2, <1>3, <1>4, <1>5, <1>7, <1>8, <1>9, <1>10, <1>11
     DEF Next, Read, Hear, Write

(* Types of the connection of a tab.                                        *)
LEMMA LinkTypesKept ==
  ASSUME LinkTypes, [Next]_vars
  PROVE  LinkTypes'
<1> USE DEF LinkTypes
<1>1. ASSUME NEW c \in Client, Connect(c) PROVE LinkTypes'
  <2>1. /\ conn' = [conn EXCEPT ![c] = conn[c] + 1] /\ conn[c] < MaxConn[c]
        /\ online' = [online EXCEPT ![c] = TRUE]
    BY <1>1 DEF Connect
  <2>2. conn[c] + 1 \in Nat /\ conn[c] + 1 >= 1 /\ conn[c] + 1 <= MaxConn[c]
    BY <2>1
  <2> QED
    BY <2>1, <2>2
<1>2. ASSUME NEW c \in Client, ClientClose(c) PROVE LinkTypes'
  BY <1>2 DEF ClientClose
<1>3. ASSUME UNCHANGED <<conn, online>> PROVE LinkTypes'
  BY <1>3
<1>4. ASSUME NEW c \in Client, \/ LoadRecord(c) \/ LoadDocument(c) \/ Edit(c)
                               \/ Flush(c) \/ Read(c)
      PROVE  UNCHANGED <<conn, online>>
  BY <1>4 DEF LoadRecord, LoadDocument, Edit, Flush, Read, ReadWelcome,
     ReadSnapshot,
     ReadOps, ReadAck
<1>5. ASSUME NEW k \in Conn, Hear(k) \/ SendSnapshot(k) \/ ServerClose(k)
      PROVE  UNCHANGED <<conn, online>>
  BY <1>5 DEF Hear, Greet, Receive, SendSnapshot, ServerClose, clientVars
<1>6. ASSUME Save \/ Write \/ Reopen \/ UNCHANGED vars
      PROVE  UNCHANGED <<conn, online>>
  BY <1>6 DEF Save, Write, WriteDocument, WriteRecord, Reopen, vars, clientVars
<1> QED
  BY <1>1, <1>2, <1>3, <1>4, <1>5, <1>6 DEF Next

(* What sending does to the batches of a client: the new one has a number   *)
(* of its own.                                                              *)
LEMMA SendIs ==
  ASSUME WorkTypes, Numbered, NEW c \in Client, NEW kept \in SUBSET DOMAIN unacked[c],
         NEW ops \in Seq(Op), Send(c, kept, ops)
  PROVE  /\ nextBatch[c] + 1 \notin DOMAIN unacked[c]
         /\ nextBatch' = [nextBatch EXCEPT ![c] = nextBatch[c] + 1]
         /\ outbox' = [outbox EXCEPT ![c] = <<>>]
         /\ DOMAIN unacked' = Client
         /\ \A d \in Client \ {c} : unacked'[d] = unacked[d]
         /\ DOMAIN unacked'[c] = kept \cup {nextBatch[c] + 1}
         /\ unacked'[c][nextBatch[c] + 1] = ops
         /\ \A i \in kept : unacked'[c][i] = unacked[c][i]
         /\ WorkTypes' /\ Numbered'
<1>1. PICK n \in Nat : n = nextBatch[c]
  BY DEF WorkTypes
<1>2. DOMAIN unacked[c] \subseteq 1 .. n
  BY <1>1 DEF Numbered
<1>3. n + 1 \notin DOMAIN unacked[c] /\ n + 1 \in Nat
  BY <1>2
<1>4. /\ nextBatch' = [nextBatch EXCEPT ![c] = n + 1]
      /\ outbox' = [outbox EXCEPT ![c] = <<>>]
      /\ unacked' = [unacked EXCEPT ![c] = [i \in kept \cup {n + 1} |->
                                              IF i = n + 1 THEN ops ELSE unacked[c][i]]]
  BY <1>1 DEF Send
<1>5. /\ DOMAIN unacked' = Client
      /\ \A d \in Client \ {c} : unacked'[d] = unacked[d]
      /\ unacked'[c] = [i \in kept \cup {n + 1} |->
                          IF i = n + 1 THEN ops ELSE unacked[c][i]]
  BY <1>4 DEF WorkTypes
<1>6. /\ DOMAIN unacked'[c] = kept \cup {n + 1}
      /\ unacked'[c][n + 1] = ops
      /\ \A i \in kept : unacked'[c][i] = unacked[c][i]
  BY <1>3, <1>5
<1>7. WorkTypes'
  <2>1. outbox' \in [Client -> Seq(Op)]
    BY <1>4, EmptySeq DEF WorkTypes
  <2>2. nextBatch' \in [Client -> Nat]
    BY <1>3, <1>4 DEF WorkTypes
  <2>3. ASSUME NEW d \in Client
        PROVE  /\ DOMAIN unacked'[d] \subseteq Nat
               /\ \A i \in DOMAIN unacked'[d] : unacked'[d][i] \in Seq(Op)
    <3>1. CASE d = c
      BY <1>3, <1>6, <3>1 DEF WorkTypes
    <3>2. CASE d # c
      BY <1>5, <3>2 DEF WorkTypes
    <3> QED
      BY <3>1, <3>2
  <2> QED
    BY <1>5, <2>1, <2>2, <2>3 DEF WorkTypes
<1>8. Numbered'
  <2>1. ASSUME NEW d \in Client PROVE DOMAIN unacked'[d] \subseteq 1 .. nextBatch'[d]
    <3>1. CASE d = c
      <4>1. nextBatch'[c] = n + 1
        BY <1>4 DEF WorkTypes
      <4>2. kept \cup {n + 1} \subseteq 1 .. n + 1
        BY <1>2
      <4> QED
        BY <1>6, <3>1, <4>1, <4>2
    <3>2. CASE d # c
      BY <1>4, <1>5, <3>2 DEF WorkTypes, Numbered
    <3> QED
      BY <3>1, <3>2
  <2> QED
    BY <2>1 DEF Numbered
<1> QED
  BY <1>1, <1>3, <1>4, <1>5, <1>6, <1>7, <1>8

(* Types of the work to be sent; the numbers in use are those of batches    *)
(* sent.                                                                    *)
LEMMA WorkKept ==
  ASSUME TypeOK, Numbered, [Next]_vars
  PROVE  WorkTypes' /\ Numbered'
<1>0. NetTypes /\ TabTypes /\ LinkTypes /\ WorkTypes
  BY DEF TypeOK
<1>1. ASSUME NEW c \in Client, Edit(c) PROVE WorkTypes' /\ Numbered'
  <2>1. <<c, made[c] + 1>> \in Op
    <3>1. made[c] + 1 \in 1 .. Quota[c]
      BY <1>0, <1>1 DEF Edit, TabTypes
    <3> QED
      BY <3>1, Names
  <2>2. outbox' \in [Client -> Seq(Op)]
    BY <1>0, <1>1, <2>1, AppendProperties DEF Edit, WorkTypes
  <2> QED
    BY <1>0, <1>1, <2>2 DEF Edit, WorkTypes, Numbered
<1>2. ASSUME NEW c \in Client, Flush(c) PROVE WorkTypes' /\ Numbered'
  <2>1. outbox[c] \in Seq(Op) /\ Send(c, DOMAIN unacked[c], outbox[c])
    BY <1>0, <1>2 DEF Flush, WorkTypes
  <2> QED
    BY <1>0, <2>1, SendIs
<1>3. ASSUME NEW c \in Client, ReadWelcome(c) PROVE WorkTypes' /\ Numbered'
  <2>1. CASE TakenBack(c) = <<>>
    BY <1>0, <1>3, <2>1 DEF ReadWelcome, WorkTypes, Numbered
  <2>2. CASE TakenBack(c) # <<>>
    <3>1. Send(c, {}, TakenBack(c)) /\ TakenBack(c) \in Seq(Op)
      BY <1>3, <2>2, TakenBackIs DEF ReadWelcome
    <3> QED
      BY <1>0, <3>1, SendIs
  <2> QED
    BY <2>1, <2>2
<1>4. ASSUME NEW c \in Client, ReadAck(c) PROVE WorkTypes' /\ Numbered'
  <2> DEFINE rest == DOMAIN unacked[c] \ {Head(down[Current(c)]).id}
  <2>1. /\ unacked' = [unacked EXCEPT ![c] = [i \in rest |-> unacked[c][i]]]
        /\ UNCHANGED <<outbox, nextBatch>>
    BY <1>4 DEF ReadAck
  <2> HIDE DEF rest
  <2>2. /\ DOMAIN unacked' = Client
        /\ unacked'[c] = [i \in rest |-> unacked[c][i]]
        /\ \A d \in Client \ {c} : unacked'[d] = unacked[d]
    BY <1>0, <2>1 DEF WorkTypes
  <2>3. rest \subseteq DOMAIN unacked[c]
    BY DEF rest
  <2>4. \A d \in Client : /\ DOMAIN unacked'[d] \subseteq DOMAIN unacked[d]
                          /\ \A i \in DOMAIN unacked'[d] : unacked'[d][i] = unacked[d][i]
    BY <2>2, <2>3
  <2> QED
    BY <1>0, <2>1, <2>2, <2>4 DEF WorkTypes, Numbered
<1>5. ASSUME UNCHANGED <<outbox, unacked, nextBatch>> PROVE WorkTypes' /\ Numbered'
  BY <1>0, <1>5 DEF WorkTypes, Numbered
<1>6. ASSUME NEW c \in Client, \/ LoadRecord(c) \/ LoadDocument(c) \/ Connect(c)
                               \/ ReadSnapshot(c) \/ ReadOps(c) \/ ClientClose(c)
      PROVE  UNCHANGED <<outbox, unacked, nextBatch>>
  BY <1>6 DEF LoadRecord, LoadDocument, Connect, ReadSnapshot, ReadOps,
     ClientClose
<1>7. ASSUME NEW k \in Conn, Hear(k) \/ SendSnapshot(k) \/ ServerClose(k)
      PROVE  UNCHANGED <<outbox, unacked, nextBatch>>
  BY <1>7 DEF Hear, Greet, Receive, SendSnapshot, ServerClose, clientVars
<1>8. ASSUME Save \/ Write \/ Reopen \/ UNCHANGED vars
      PROVE  UNCHANGED <<outbox, unacked, nextBatch>>
  BY <1>8 DEF Save, Write, WriteDocument, WriteRecord, Reopen, vars, clientVars
<1> QED
  BY <1>1, <1>2, <1>3, <1>4, <1>5, <1>6, <1>7, <1>8 DEF Next, Read

(* What is delivered is added to what was on the way, or lost.              *)
LEMMA DeliveredIs ==
  ASSUME NetTypes, NEW k \in Conn, NEW msgs \in Seq(DownMsg)
  PROVE  /\ Delivered(k, msgs) \in Seq(DownMsg)
         /\ Range(Delivered(k, msgs)) \subseteq Range(down[k]) \cup Range(msgs)
<1>1. down[k] \in Seq(DownMsg)
  BY DEF NetTypes
<1>2. /\ down[k] \o msgs \in Seq(DownMsg)
      /\ Range(down[k] \o msgs) = Range(down[k]) \cup Range(msgs)
  BY <1>1, Concat
<1> QED
  BY <1>1, <1>2 DEF Delivered

(* The batch a newcomer has the file up to is a number.                     *)
LEMMA HelloIs ==
  ASSUME NetTypes, SaveTypes, NEW k \in Conn, Greet(k)
  PROVE  UpTo(Head(up[k])) \in Int
<1>1. Hears(k, "hello")
  BY DEF Greet
<1>2. Head(up[k]).since \in Int
  BY <1>1, HearIs, Messages
<1> QED
  BY <1>2 DEF UpTo, SaveTypes, Unseen

(* What is told of a batch is a message with the next number.               *)
LEMMA ToldIs ==
  ASSUME RoomTypes, NetTypes, NEW k \in Conn, Receive(k), NEW q \in Conn
  PROVE  /\ Head(up[k]).id \in Nat /\ Head(up[k]).ops \in Seq(Op)
         /\ Told(q, k, Head(up[k])) \in DownMsg
         /\ Told(q, k, Head(up[k])).seq = seq + 1
         /\ Told(q, k, Head(up[k])).type # "welcome"
<1>1. Hears(k, "ops")
  BY DEF Receive
<1>2. Head(up[k]).id \in Nat /\ Head(up[k]).ops \in Seq(Op)
  BY <1>1, HearIs, Messages
<1>3. seq + 1 \in Nat
  BY DEF RoomTypes
<1>4. Told(q, k, Head(up[k])) \in DownMsg
  BY <1>2, <1>3, Written DEF Told
<1> QED
  BY <1>2, <1>4 DEF Told, Ack, Relayed

(* Types of what is on the way.                                             *)
LEMMA NetTypesKept ==
  ASSUME TypeOK, LogInOrder, Numbered, [Next]_vars
  PROVE  NetTypes'
<1>0. /\ RoomTypes /\ SaveTypes /\ NetTypes /\ TabTypes /\ LinkTypes /\ WorkTypes
      /\ GhostTypes
  BY DEF TypeOK
<1>1. ASSUME NEW c \in Client, Connect(c) PROVE NetTypes'
  <2> DEFINE hello == Hello(IF clientSeq[c] = Unseen THEN version[c] ELSE Unseen,
                            clientSeq[c])
  <2>1. hello \in UpMsg
    BY <1>0, Written DEF TabTypes, Unseen
  <2>2. <<hello>> \in Seq(UpMsg)
    BY <2>1, Single
  <2> HIDE DEF hello
  <2>3. /\ peer' = [peer EXCEPT ![<<c, conn[c] + 1>>] = "joined"]
        /\ up' = [up EXCEPT ![<<c, conn[c] + 1>>] = <<hello>>]
        /\ UNCHANGED <<held, down>>
    BY <1>1 DEF Connect, hello
  <2> QED
    BY <1>0, <2>2, <2>3 DEF NetTypes
<1>2. ASSUME NEW c \in Client, NEW kept, NEW ops \in Seq(Op), Send(c, kept, ops),
             UNCHANGED <<peer, held>>, down' \in [Conn -> Seq(DownMsg)]
      PROVE  NetTypes'
  <2>1. up' = [up EXCEPT ![Current(c)] =
                 IF peer[Current(c)] = "closed" THEN up[Current(c)]
                 ELSE Append(up[Current(c)], Batch(nextBatch[c] + 1, ops))]
    BY <1>2 DEF Send
  <2>2. Batch(nextBatch[c] + 1, ops) \in UpMsg
    BY <1>0, Written DEF WorkTypes
  <2>3. \A k \in Conn : /\ up[k] \in Seq(UpMsg)
                        /\ Append(up[k], Batch(nextBatch[c] + 1, ops)) \in Seq(UpMsg)
    BY <1>0, <2>2, AppendProperties DEF NetTypes
  <2>4. up' \in [Conn -> Seq(UpMsg)]
    BY <1>0, <2>1, <2>3 DEF NetTypes
  <2> QED
    BY <1>0, <1>2, <2>4 DEF NetTypes
<1>3. ASSUME NEW c \in Client, Flush(c) PROVE NetTypes'
  <2>1. outbox[c] \in Seq(Op) /\ Send(c, DOMAIN unacked[c], outbox[c])
    BY <1>0, <1>3 DEF Flush, WorkTypes
  <2>2. UNCHANGED <<peer, held, down>>
    BY <1>3 DEF Flush
  <2> QED
    BY <1>0, <1>2, <2>1, <2>2 DEF NetTypes
<1>4. ASSUME NEW c \in Client, NEW type, Reads(c, type)
      PROVE  down' \in [Conn -> Seq(DownMsg)]
  BY <1>0, <1>4, ReadIs DEF NetTypes
<1>5. ASSUME NEW c \in Client, ReadWelcome(c) PROVE NetTypes'
  <2>1. down' \in [Conn -> Seq(DownMsg)]
    BY <1>4, <1>5 DEF ReadWelcome
  <2>2. TakenBack(c) \in Seq(Op)
    BY TakenBackIs
  <2>3. UNCHANGED <<peer, held>>
    BY <1>5 DEF ReadWelcome
  <2>4. UNCHANGED up \/ Send(c, {}, TakenBack(c))
    BY <1>5 DEF ReadWelcome
  <2>5. UNCHANGED up => NetTypes'
    BY <1>0, <2>1, <2>3 DEF NetTypes
  <2> QED
    BY <1>2, <2>1, <2>2, <2>3, <2>4, <2>5
<1>6. ASSUME NEW c \in Client,
             ReadSnapshot(c) \/ ReadOps(c) \/ ReadAck(c)
      PROVE  NetTypes'
  <2>1. down' \in [Conn -> Seq(DownMsg)]
    BY <1>4, <1>6 DEF ReadSnapshot, ReadOps, ReadAck
  <2> QED
    BY <1>0, <1>6, <2>1 DEF ReadSnapshot, ReadOps, ReadAck, NetTypes
<1>7. ASSUME NEW c \in Client, ClientClose(c) PROVE NetTypes'
  BY <1>0, <1>7, EmptySeq DEF ClientClose, NetTypes
<1>8. ASSUME NEW k \in Conn, Greet(k) PROVE NetTypes'
  <2> DEFINE from == UpTo(Head(up[k]))
  <2>1. /\ peer' = [peer EXCEPT ![k] = "greeted"]
        /\ up' = [up EXCEPT ![k] = Tail(up[k])]
    BY <1>8 DEF Greet
  <2>2. Tail(up[k]) \in Seq(UpMsg)
    BY <1>0, <1>8, HearIs DEF Greet
  <2>3. <<Welcome>> \in Seq(DownMsg)
    BY <1>0, Written, Single DEF RoomTypes
  <2>4. CASE CanReplay(from)
    <3>1. Missed(from) \in Seq(DownMsg)
      BY <1>0, <1>8, <2>4, HelloIs, MissedIs
    <3>2. <<Welcome>> \o Missed(from) \in Seq(DownMsg)
      BY <2>3, <3>1, Concat
    <3>3. /\ down' = [down EXCEPT ![k] = Delivered(k, <<Welcome>> \o Missed(from))]
          /\ UNCHANGED held
      BY <1>8, <2>4 DEF Greet
    <3>4. Delivered(k, <<Welcome>> \o Missed(from)) \in Seq(DownMsg)
      BY <1>0, <3>2, DeliveredIs
    <3> QED
      BY <1>0, <2>1, <2>2, <3>3, <3>4 DEF NetTypes
  <2>5. CASE ~CanReplay(from)
    <3>1. <<Snapshot(seq, roomDoc)>> \in Seq(DownMsg)
      BY <1>0, Written, Single DEF RoomTypes
    <3>2. /\ down' = [down EXCEPT ![k] = Delivered(k, <<Welcome>>)]
          /\ held' = [held EXCEPT ![k] = <<Snapshot(seq, roomDoc)>>]
      BY <1>8, <2>5 DEF Greet
    <3>3. Delivered(k, <<Welcome>>) \in Seq(DownMsg)
      BY <1>0, <2>3, DeliveredIs
    <3> QED
      BY <1>0, <2>1, <2>2, <3>1, <3>2, <3>3 DEF NetTypes
  <2> QED
    BY <2>4, <2>5
<1>9. ASSUME NEW k \in Conn, SendSnapshot(k) PROVE NetTypes'
  <2>1. Delivered(k, held[k]) \in Seq(DownMsg)
    BY <1>0, DeliveredIs DEF NetTypes
  <2> QED
    BY <1>0, <1>9, <2>1, EmptySeq DEF SendSnapshot, NetTypes
<1>10. ASSUME NEW k \in Conn, Receive(k) PROVE NetTypes'
  <2> DEFINE told(q) == Told(q, k, Head(up[k]))
  <2>1. /\ down' = [q \in Conn |-> IF peer[q] = "greeted" /\ held[q] = <<>>
                                     THEN Delivered(q, <<told(q)>>) ELSE down[q]]
        /\ held' = [q \in Conn |-> IF peer[q] = "greeted" /\ held[q] # <<>>
                                     THEN Append(held[q], told(q)) ELSE held[q]]
        /\ up' = [up EXCEPT ![k] = Tail(up[k])] /\ UNCHANGED peer
    BY <1>10 DEF Receive
  <2>2. Tail(up[k]) \in Seq(UpMsg)
    BY <1>0, <1>10, HearIs DEF Receive
  <2>3. ASSUME NEW q \in Conn
        PROVE  /\ Delivered(q, <<told(q)>>) \in Seq(DownMsg)
               /\ Append(held[q], told(q)) \in Seq(DownMsg)
               /\ down[q] \in Seq(DownMsg) /\ held[q] \in Seq(DownMsg)
    <3>1. told(q) \in DownMsg
      BY <1>0, <1>10, ToldIs
    <3>2. down[q] \in Seq(DownMsg) /\ held[q] \in Seq(DownMsg)
      BY <1>0 DEF NetTypes
    <3> HIDE DEF told
    <3>3. <<told(q)>> \in Seq(DownMsg)
      BY <3>1, Single
    <3> QED
      BY <1>0, <3>1, <3>2, <3>3, DeliveredIs, Appended
  <2> HIDE DEF told
  <2>4. down' \in [Conn -> Seq(DownMsg)] /\ held' \in [Conn -> Seq(DownMsg)]
    BY <2>1, <2>3
  <2> QED
    BY <1>0, <2>1, <2>2, <2>4 DEF NetTypes
<1>11. ASSUME NEW k \in Conn, ServerClose(k) PROVE NetTypes'
  BY <1>0, <1>11, EmptySeq DEF ServerClose, NetTypes
<1>12. CASE Reopen
  BY <1>0, <1>12, EmptySeq DEF Reopen, NetTypes
<1>13. ASSUME UNCHANGED netVars PROVE NetTypes'
  BY <1>0, <1>13 DEF netVars, NetTypes
<1>14. ASSUME NEW c \in Client, LoadRecord(c) \/ LoadDocument(c) \/ Edit(c)
       PROVE  UNCHANGED netVars
  BY <1>14 DEF LoadRecord, LoadDocument, Edit
<1>15. ASSUME Save \/ Write \/ UNCHANGED vars PROVE UNCHANGED netVars
  BY <1>15 DEF Save, Write, WriteDocument, WriteRecord, vars
<1> QED
  BY <1>1, <1>3, <1>5, <1>6, <1>7, <1>8, <1>9, <1>10, <1>11, <1>12, <1>13,
     <1>14,
     <1>15 DEF Next, Read, Hear

(* Types of what is only observed.                                          *)
LEMMA GhostTypesKept ==
  ASSUME TypeOK, [Next]_vars
  PROVE  GhostTypes'
<1>0. /\ RoomTypes /\ SaveTypes /\ NetTypes /\ TabTypes /\ LinkTypes /\ WorkTypes
      /\ GhostTypes
  BY DEF TypeOK
<1>1. ASSUME NEW c \in Client, ReadSnapshot(c) \/ ReadOps(c) \/ ReadAck(c)
      PROVE  GhostTypes'
  <2>1. PICK n \in Int : n = Head(down[Current(c)]).seq
    <3>1. Reads(c, "snapshot") \/ Reads(c, "ops") \/ Reads(c, "ack")
      BY <1>1 DEF ReadSnapshot, ReadOps, ReadAck
    <3>2. Head(down[Current(c)]).seq \in Nat
      BY <1>0, <3>1, ReadIs, Messages
    <3> QED
      BY <3>2
  <2>2. /\ cursor' = [cursor EXCEPT ![Current(c)] = n]
        /\ UNCHANGED received
    BY <1>1, <2>1 DEF ReadSnapshot, ReadOps, ReadAck
  <2>3. cursor' \in [Conn -> Int]
    BY <1>0, <2>1, <2>2 DEF GhostTypes
  <2>4. /\ gap' = gap \/ gap' = [gap EXCEPT ![c] = @ /\ peer[Current(c)] # "greeted"]
        /\ \/ dropped' = dropped
           \/ dropped' = [dropped EXCEPT ![c] = ~(Pending(c) \subseteq doc'[c])]
    BY <1>1 DEF ReadSnapshot, ReadOps, ReadAck
  <2>5. gap' \in [Client -> BOOLEAN] /\ dropped' \in [Client -> BOOLEAN]
    BY <1>0, <2>4, Zenon DEF GhostTypes
  <2> QED
    BY <1>0, <2>2, <2>3, <2>5 DEF GhostTypes
<1>2. ASSUME NEW c \in Client, ClientClose(c) PROVE GhostTypes'
  BY <1>0, <1>2 DEF ClientClose, GhostTypes
<1>3. ASSUME NEW k \in Conn, Greet(k) PROVE GhostTypes'
  <2>1. UpTo(Head(up[k])) \in Int /\ seq - 1 \in Int
    BY <1>0, <1>3, HelloIs DEF RoomTypes
  <2>2. /\ \/ cursor' = [cursor EXCEPT ![k] = UpTo(Head(up[k]))]
           \/ cursor' = [cursor EXCEPT ![k] = seq - 1]
        /\ UNCHANGED <<received, gap, dropped>>
    BY <1>3 DEF Greet
  <2> QED
    BY <1>0, <2>1, <2>2 DEF GhostTypes
<1>4. ASSUME NEW k \in Conn, Receive(k) PROVE GhostTypes'
  <2>1. Range(Head(up[k]).ops) \subseteq Op
    <3>1. Head(up[k]).ops \in Seq(Op)
      BY <1>0, <1>4, ToldIs
    <3> QED
      BY <3>1, LenProperties DEF Range
  <2> QED
    BY <1>0, <1>4, <2>1 DEF Receive, GhostTypes
<1>5. CASE Reopen
  BY <1>0, <1>5 DEF Reopen, GhostTypes
<1>6. ASSUME UNCHANGED ghostVars PROVE GhostTypes'
  BY <1>0, <1>6 DEF ghostVars, GhostTypes
<1>7. ASSUME NEW c \in Client, \/ LoadRecord(c) \/ LoadDocument(c) \/ Edit(c)
                               \/ Flush(c) \/ ReadWelcome(c)
      PROVE  UNCHANGED ghostVars
  BY <1>7 DEF LoadRecord, LoadDocument, Edit, Flush, ReadWelcome
<1>8. ASSUME NEW k \in Conn, SendSnapshot(k) \/ ServerClose(k) PROVE UNCHANGED ghostVars
  BY <1>8 DEF SendSnapshot, ServerClose
<1>10. ASSUME NEW c \in Client, Connect(c) PROVE GhostTypes'
  <2>1. PICK n \in Int : n = clientSeq[c]
    BY <1>0 DEF TabTypes
  <2>2. /\ cursor' = [cursor EXCEPT ![<<c, conn[c] + 1>>] = n]
        /\ UNCHANGED <<received, gap, dropped>>
    BY <1>10, <2>1 DEF Connect
  <2> QED
    BY <1>0, <2>1, <2>2 DEF GhostTypes
<1>9. ASSUME Save \/ Write \/ UNCHANGED vars PROVE UNCHANGED ghostVars
  BY <1>9 DEF Save, Write, WriteDocument, WriteRecord, vars
<1> QED
  BY <1>1, <1>2, <1>3, <1>4, <1>5, <1>6, <1>7, <1>8, <1>9, <1>10 DEF Next, Read, Hear

-----------------------------------------------------------------------------
(* What is on the way.                                                      *)

(* A new connection gets a name nobody used, and nothing is sent on it      *)
(* before the hello is read.                                                *)
LEMMA BeginningKept ==
  ASSUME TypeOK, Beginning, [Next]_vars
  PROVE  Beginning'
<1>0. NetTypes /\ LinkTypes
  BY DEF TypeOK
<1> USE DEF Beginning
<1>1. ASSUME NEW c \in Client, Connect(c) PROVE Beginning'
  <2>1. PICK n \in Nat : n = conn[c]
    BY <1>0 DEF LinkTypes
  <2>2. /\ conn' = [conn EXCEPT ![c] = n + 1]
        /\ peer' = [peer EXCEPT ![<<c, n + 1>>] = "joined"]
        /\ UNCHANGED <<held, down>>
    BY <1>1, <2>1 DEF Connect
  <2>3. ASSUME NEW k \in Conn, k[1] = c
        PROVE  /\ k[2] > n + 1 => k[2] > n /\ k # <<c, n + 1>>
               /\ k = <<c, n + 1>> => k[2] > n /\ ~(k[2] > n + 1)
    BY Names
  <2>4. ASSUME NEW k \in Conn
        PROVE  /\ k[2] > conn'[k[1]] => peer'[k] = "none"
               /\ peer'[k] \in {"none", "joined"} => down'[k] = <<>> /\ held'[k] = <<>>
    <3>1. CASE k[1] = c
      <4>1. conn'[c] = n + 1
        BY <1>0, <2>2 DEF LinkTypes
      <4>2. peer'[k] = IF k = <<c, n + 1>> THEN "joined" ELSE peer[k]
        BY <1>0, <2>2 DEF NetTypes
      <4> QED
        BY <2>1, <2>2, <2>3, <3>1, <4>1, <4>2
    <3>2. CASE k[1] # c
      <4>1. k[1] \in Client
        BY Names
      <4>2. conn'[k[1]] = conn[k[1]] /\ peer'[k] = peer[k]
        BY <1>0, <2>2, <3>2, <4>1 DEF LinkTypes, NetTypes
      <4> QED
        BY <2>2, <4>2
    <3> QED
      BY <3>1, <3>2
  <2> QED
    BY <2>4
<1>2. ASSUME NEW c \in Client, NEW type, Reads(c, type), UNCHANGED <<peer, held, conn>>
      PROVE  Beginning'
  <2>1. /\ Current(c) \in Conn /\ down[Current(c)] # <<>>
        /\ down' = [down EXCEPT ![Current(c)] = Tail(down[Current(c)])]
    BY <1>0, <1>2, ReadIs
  <2> QED
    BY <1>0, <1>2, <2>1 DEF NetTypes
<1>3. ASSUME NEW c \in Client, Read(c) PROVE Beginning'
  <2>1. \E type : Reads(c, type)
    BY <1>3 DEF Read, ReadWelcome, ReadSnapshot, ReadOps, ReadAck
  <2>2. UNCHANGED <<peer, held, conn>>
    BY <1>3 DEF Read, ReadWelcome, ReadSnapshot, ReadOps, ReadAck
  <2> QED
    BY <1>2, <2>1, <2>2
<1>4. ASSUME NEW c \in Client, ClientClose(c) PROVE Beginning'
  BY <1>0, <1>4 DEF ClientClose, NetTypes
<1>5. ASSUME NEW k \in Conn, Greet(k) PROVE Beginning'
  <2>1. /\ peer[k] = "joined" /\ peer' = [peer EXCEPT ![k] = "greeted"]
        /\ UNCHANGED conn
    BY <1>5 DEF Greet, clientVars
  <2>2. \A q \in Conn \ {k} : down'[q] = down[q] /\ held'[q] = held[q]
    BY <1>0, <1>5 DEF Greet, NetTypes
  <2> QED
    BY <1>0, <2>1, <2>2 DEF NetTypes
<1>6. ASSUME NEW k \in Conn, SendSnapshot(k) PROVE Beginning'
  BY <1>0, <1>6 DEF SendSnapshot, NetTypes, clientVars
<1>7. ASSUME NEW k \in Conn, Receive(k) PROVE Beginning'
  BY <1>0, <1>7 DEF Receive, NetTypes, clientVars
<1>8. ASSUME NEW k \in Conn, ServerClose(k) PROVE Beginning'
  BY <1>0, <1>8 DEF ServerClose, NetTypes, clientVars
<1>9. CASE Reopen
  BY <1>0, <1>9 DEF Reopen, OpenPeers, NetTypes, clientVars
<1>10. ASSUME UNCHANGED <<peer, held, down, conn>> PROVE Beginning'
  BY <1>10
<1>11. ASSUME NEW c \in Client, LoadRecord(c) \/ LoadDocument(c) \/ Edit(c) \/ Flush(c)
       PROVE  UNCHANGED <<peer, held, down, conn>>
  BY <1>11 DEF LoadRecord, LoadDocument, Edit, Flush, netVars
<1>12. ASSUME Save \/ Write \/ UNCHANGED vars PROVE UNCHANGED <<peer, held, down, conn>>
  BY <1>12 DEF Save, Write, WriteDocument, WriteRecord, vars, netVars,
     clientVars
<1> QED
  BY <1>1, <1>3, <1>4, <1>5, <1>6, <1>7, <1>8, <1>9, <1>10, <1>11, <1>12 DEF
     Next, Hear

(* A client that keeps fewer batches leaves true what is on the way.        *)
LEMMA FewerBatches ==
  ASSUME WorkTypes, NEW c \in Client,
         DOMAIN unacked' = Client, UNCHANGED <<nextBatch, received>>,
         \A d \in Client : /\ DOMAIN unacked'[d] \subseteq DOMAIN unacked[d]
                           /\ \A i \in DOMAIN unacked'[d] : unacked'[d][i] = unacked[d][i]
  PROVE  \A d \in Client : \A m : /\ Known(d, m) => Known(d, m)'
                                  /\ Earned(d, m) => Earned(d, m)'
  BY DEF Known, Earned

(* So does one that sends a batch, which is then known itself.              *)
LEMMA SentOnTop ==
  ASSUME WorkTypes, Numbered, NEW c \in Client, NEW kept \in SUBSET DOMAIN unacked[c],
         NEW ops \in Seq(Op), Send(c, kept, ops), UNCHANGED received
  PROVE  /\ \A d \in Client : \A m \in UpMsg : Known(d, m) => Known(d, m)'
         /\ \A d \in Client : \A m \in DownMsg : Earned(d, m) => Earned(d, m)'
         /\ \A m : m = Batch(nextBatch[c] + 1, ops) => Known(c, m)'
<1>1. PICK n \in Nat : n = nextBatch[c]
  BY DEF WorkTypes
<1>2. /\ nextBatch' = [nextBatch EXCEPT ![c] = n + 1]
      /\ \A d \in Client \ {c} : unacked'[d] = unacked[d]
      /\ DOMAIN unacked'[c] = kept \cup {n + 1}
      /\ unacked'[c][n + 1] = ops
      /\ \A i \in kept : unacked'[c][i] = unacked[c][i]
  BY <1>1, SendIs
<1>3. nextBatch'[c] = n + 1 /\ \A d \in Client \ {c} : nextBatch'[d] = nextBatch[d]
  BY <1>2 DEF WorkTypes
<1>4. ASSUME NEW d \in Client, NEW m \in UpMsg, Known(d, m), m.type = "ops"
      PROVE  /\ m.id <= nextBatch'[d]
             /\ m.id \in DOMAIN unacked'[d] => unacked'[d][m.id] = m.ops
  <2>1. m.id \in Nat
    BY <1>4, Messages
  <2>2. CASE d = c
    <3>1. m.id <= n /\ (m.id \in kept => unacked[c][m.id] = m.ops)
      BY <1>1, <1>4, <2>2 DEF Known
    <3>2. m.id <= n + 1 /\ m.id # n + 1
      BY <2>1, <3>1
    <3> QED
      BY <1>2, <1>3, <2>2, <3>1, <3>2
  <2>3. CASE d # c
    BY <1>2, <1>3, <1>4, <2>3 DEF Known
  <2> QED
    BY <2>2, <2>3
<1>5. ASSUME NEW d \in Client, NEW m \in DownMsg, Earned(d, m), m.type = "ack"
      PROVE  /\ m.id <= nextBatch'[d]
             /\ m.id \in DOMAIN unacked'[d] => Range(unacked'[d][m.id]) \subseteq received
  <2>1. m.id \in Nat
    BY <1>5, Messages
  <2>2. CASE d = c
    <3>1. /\ m.id <= n
          /\ m.id \in kept => Range(unacked[c][m.id]) \subseteq received
      BY <1>1, <1>5, <2>2 DEF Earned
    <3>2. m.id <= n + 1 /\ m.id # n + 1
      BY <2>1, <3>1
    <3> QED
      BY <1>2, <1>3, <2>2, <3>1, <3>2
  <2>3. CASE d # c
    BY <1>2, <1>3, <1>5, <2>3 DEF Earned
  <2> QED
    BY <2>2, <2>3
<1>6. \A m : m = Batch(n + 1, ops) => Known(c, m)'
  BY <1>2, <1>3 DEF Known, Batch
<1>7. \A d \in Client : \A m \in UpMsg : Known(d, m) => Known(d, m)'
  BY <1>4 DEF Known
<1>8. \A d \in Client : \A m \in DownMsg : Earned(d, m) => Earned(d, m)'
  <2>1. received' = received
    OBVIOUS
  <2> QED
    BY <1>5, <2>1 DEF Earned
<1>9. \A m : m = Batch(nextBatch[c] + 1, ops) => Known(c, m)'
  BY <1>1, <1>6
<1> QED
  BY <1>7, <1>8, <1>9

(* What is on the way stays true: Receive turns a batch known into a        *)
(* confirmation earned, and every other step only takes messages away, or   *)
(* leaves them.                                                             *)
LEMMA OnTheWayKept ==
  ASSUME TypeOK, LogInOrder, Numbered, OnTheWay, [Next]_vars
  PROVE  OnTheWay'
<1>0. /\ RoomTypes /\ SaveTypes /\ NetTypes /\ TabTypes /\ LinkTypes /\ WorkTypes
      /\ GhostTypes
  BY DEF TypeOK
<1>1. ASSUME NEW k \in Conn
      PROVE  /\ up[k] \in Seq(UpMsg) /\ Range(up[k]) \subseteq UpMsg
             /\ down[k] \in Seq(DownMsg) /\ Range(down[k]) \subseteq DownMsg
             /\ held[k] \in Seq(DownMsg) /\ Range(held[k]) \subseteq DownMsg
             /\ k[1] \in Client
             /\ \A m \in Range(up[k]) : Known(k[1], m)
             /\ \A m \in Range(down[k]) : Earned(k[1], m)
             /\ \A m \in Range(held[k]) : Earned(k[1], m)
  <2>1. /\ up[k] \in Seq(UpMsg) /\ down[k] \in Seq(DownMsg)
        /\ held[k] \in Seq(DownMsg)
    BY <1>0 DEF NetTypes
  <2> QED
    BY <2>1, InRange, Names DEF OnTheWay
(* A step that adds nothing to what is on the way, and leaves true what was. *)
<1>2. ASSUME \A k \in Conn : /\ Range(up'[k]) \subseteq Range(up[k])
                             /\ Range(down'[k]) \cup Range(held'[k])
                                  \subseteq Range(down[k]) \cup Range(held[k]),
             \A d \in Client : \A m : /\ Known(d, m) => Known(d, m)'
                                      /\ Earned(d, m) => Earned(d, m)'
      PROVE  OnTheWay'
  BY <1>1, <1>2 DEF OnTheWay
<1>3. UNCHANGED <<unacked, nextBatch, received>>
        => \A d \in Client : \A m : /\ Known(d, m) => Known(d, m)'
                                    /\ Earned(d, m) => Earned(d, m)'
  BY DEF Known, Earned
<1>4. ASSUME NEW c \in Client, Connect(c) PROVE OnTheWay'
  <2>1. PICK hello : /\ hello.type = "hello"
                     /\ up' = [up EXCEPT ![<<c, conn[c] + 1>>] = <<hello>>]
    <3> DEFINE h == Hello(IF clientSeq[c] = Unseen THEN version[c] ELSE Unseen,
                          clientSeq[c])
    <3>1. up' = [up EXCEPT ![<<c, conn[c] + 1>>] = <<h>>]
      BY <1>4 DEF Connect
    <3>2. h.type = "hello"
      BY DEF Hello
    <3> QED
      BY <3>1, <3>2
  <2>2. UNCHANGED <<held, down, unacked, nextBatch, received>>
    BY <1>4 DEF Connect, ghostVars
  <2>3. \A m : Known(c, m)' \/ m # hello
    BY <2>1 DEF Known
  <2>4. Range(<<hello>>) = {hello}
    BY Single
  <2>5. \A k \in Conn : up'[k] = IF k = <<c, conn[c] + 1>> THEN <<hello>> ELSE up[k]
    BY <1>0, <2>1 DEF NetTypes
  <2>6. <<c, conn[c] + 1>>[1] = c
    OBVIOUS
  <2> QED
    BY <1>1, <1>3, <2>2, <2>3, <2>4, <2>5, <2>6 DEF OnTheWay
<1>5. ASSUME NEW c \in Client, NEW type, Reads(c, type)
      PROVE  \A k \in Conn : Range(down'[k]) \subseteq Range(down[k])
  <2>1. /\ Range(Tail(down[Current(c)])) \subseteq Range(down[Current(c)])
        /\ down' = [down EXCEPT ![Current(c)] = Tail(down[Current(c)])]
    BY <1>0, <1>5, ReadIs
  <2> QED
    BY <1>0, <2>1 DEF NetTypes
<1>6. ASSUME NEW c \in Client, NEW kept \in SUBSET DOMAIN unacked[c],
             NEW ops \in Seq(Op), Send(c, kept, ops), UNCHANGED <<held, received>>,
             \A k \in Conn : Range(down'[k]) \subseteq Range(down[k]),
             Current(c) \in Conn
      PROVE  OnTheWay'
  <2>1. PICK batch : batch = Batch(nextBatch[c] + 1, ops)
    OBVIOUS
  <2>2. batch \in UpMsg
    BY <1>0, <2>1, Written DEF WorkTypes
  <2>3. /\ \A d \in Client : \A m \in UpMsg : Known(d, m) => Known(d, m)'
        /\ \A d \in Client : \A m \in DownMsg : Earned(d, m) => Earned(d, m)'
        /\ Known(c, batch)'
    BY <1>0, <1>6, <2>1, SentOnTop
  <2>4. Range(Append(up[Current(c)], batch)) = Range(up[Current(c)]) \cup {batch}
    BY <1>1, <1>6, <2>2, Appended
  <2>5. \A k \in Conn : \/ up'[k] = up[k]
                        \/ k = Current(c) /\ up'[k] = Append(up[k], batch)
    BY <1>0, <1>6, <2>1 DEF Send, NetTypes
  <2>6. Current(c)[1] = c
    BY DEF Current
  <2>7. ASSUME NEW k \in Conn
        PROVE  /\ \A m \in Range(up'[k]) : Known(k[1], m)'
               /\ \A m \in Range(down'[k]) \cup Range(held'[k]) : Earned(k[1], m)'
    <3>1. \A m \in Range(up[k]) : Known(k[1], m)'
      BY <1>1, <2>3
    <3>2. \A m \in Range(up'[k]) : Known(k[1], m)'
      BY <2>3, <2>4, <2>5, <2>6, <3>1
    <3>3. held'[k] = held[k]
      BY <1>6
    <3> QED
      BY <1>1, <1>6, <2>3, <3>2, <3>3
  <2> QED
    BY <2>7 DEF OnTheWay
<1>7. ASSUME NEW c \in Client, Flush(c) PROVE OnTheWay'
  <2>1. /\ outbox[c] \in Seq(Op) /\ Send(c, DOMAIN unacked[c], outbox[c])
        /\ UNCHANGED <<down, held, received>> /\ online[c]
    BY <1>0, <1>7 DEF Flush, WorkTypes, ghostVars
  <2>2. Current(c) \in Conn
    BY <1>0, <2>1, CurrentIs
  <2> QED
    BY <1>6, <2>1, <2>2
<1>8. ASSUME NEW c \in Client, ReadWelcome(c) PROVE OnTheWay'
  <2>1. /\ Reads(c, "welcome") /\ UNCHANGED <<held, received>>
        /\ \/ Send(c, {}, TakenBack(c))
           \/ UNCHANGED <<unacked, nextBatch, up>>
    BY <1>8 DEF ReadWelcome, ghostVars
  <2>2. Current(c) \in Conn /\ TakenBack(c) \in Seq(Op)
    BY <1>0, <2>1, ReadIs, TakenBackIs
  <2>3. \A k \in Conn : Range(down'[k]) \subseteq Range(down[k])
    BY <1>5, <2>1
  <2>4. CASE Send(c, {}, TakenBack(c))
    BY <1>6, <2>1, <2>2, <2>3, <2>4
  <2>5. CASE UNCHANGED <<unacked, nextBatch, up>>
    BY <1>2, <1>3, <2>1, <2>3, <2>5
  <2> QED
    BY <2>1, <2>4, <2>5
<1>9. ASSUME NEW c \in Client, ReadSnapshot(c) \/ ReadOps(c) PROVE OnTheWay'
  <2>1. \A k \in Conn : Range(down'[k]) \subseteq Range(down[k])
    BY <1>5, <1>9 DEF ReadSnapshot, ReadOps
  <2>2. UNCHANGED <<up, held, unacked, nextBatch, received>>
    BY <1>9 DEF ReadSnapshot, ReadOps
  <2> QED
    BY <1>2, <1>3, <2>1, <2>2
<1>10. ASSUME NEW c \in Client, ReadAck(c) PROVE OnTheWay'
  <2> DEFINE rest == DOMAIN unacked[c] \ {Head(down[Current(c)]).id}
  <2>1. \A k \in Conn : Range(down'[k]) \subseteq Range(down[k])
    BY <1>5, <1>10 DEF ReadAck
  <2>2. /\ unacked' = [unacked EXCEPT ![c] = [i \in rest |-> unacked[c][i]]]
        /\ UNCHANGED <<up, held, nextBatch, received>>
    BY <1>10 DEF ReadAck
  <2>3. /\ DOMAIN unacked' = Client
        /\ unacked'[c] = [i \in rest |-> unacked[c][i]]
        /\ \A d \in Client \ {c} : unacked'[d] = unacked[d]
    BY <1>0, <2>2 DEF WorkTypes
  <2>4. rest \subseteq DOMAIN unacked[c]
    OBVIOUS
  <2> HIDE DEF rest
  <2>5. \A d \in Client : /\ DOMAIN unacked'[d] \subseteq DOMAIN unacked[d]
                          /\ \A i \in DOMAIN unacked'[d] : unacked'[d][i] = unacked[d][i]
    BY <2>3, <2>4
  <2>6. \A d \in Client : \A m : /\ Known(d, m) => Known(d, m)'
                                 /\ Earned(d, m) => Earned(d, m)'
    BY <1>0, <2>2, <2>3, <2>5, FewerBatches
  <2> QED
    BY <1>2, <2>1, <2>2, <2>6
<1>11. ASSUME NEW c \in Client, ClientClose(c) PROVE OnTheWay'
  <2>1. UNCHANGED <<up, held, unacked, nextBatch, received>>
    BY <1>11 DEF ClientClose
  <2>2. \A k \in Conn : down'[k] = down[k] \/ down'[k] = <<>>
    BY <1>0, <1>11 DEF ClientClose, NetTypes
  <2> QED
    BY <1>2, <1>3, <2>1, <2>2, NothingIn
<1>12. ASSUME NEW k \in Conn, Greet(k) PROVE OnTheWay'
  <2> DEFINE from == UpTo(Head(up[k]))
  <2>1. /\ up' = [up EXCEPT ![k] = Tail(up[k])]
        /\ UNCHANGED <<unacked, nextBatch, received>>
    BY <1>12 DEF Greet, clientVars
  <2>2. \A q \in Conn : Range(up'[q]) \subseteq Range(up[q])
    <3>1. Range(Tail(up[k])) \subseteq Range(up[k])
      BY <1>0, <1>12, HearIs DEF Greet
    <3> QED
      BY <1>0, <2>1, <3>1 DEF NetTypes
  <2>3. <<Welcome>> \in Seq(DownMsg) /\ Range(<<Welcome>>) = {Welcome}
    BY <1>0, Written, Single DEF RoomTypes
  <2>4. \A m : m.type # "ack" => Earned(k[1], m)'
    BY DEF Earned
  <2>5. Welcome.type # "ack"
    BY DEF Welcome
  <2>6. \A q \in Conn \ {k} : down'[q] = down[q] /\ held'[q] = held[q]
    BY <1>0, <1>12 DEF Greet, NetTypes
  <2>7. \A m \in Range(down'[k]) \cup Range(held'[k]) : Earned(k[1], m)'
    <3>1. \A m \in Range(down[k]) \cup Range(held[k]) : Earned(k[1], m)'
      BY <1>1, <1>3, <2>1
    <3>2. CASE CanReplay(from)
      <4>1. /\ Missed(from) \in Seq(DownMsg)
            /\ \A m \in Range(Missed(from)) : m.type # "ack"
        <5>1. /\ seq - from \in Nat
              /\ Missed(from) \in Seq(DownMsg) /\ Len(Missed(from)) = seq - from
              /\ \A i \in 1 .. seq - from : Missed(from)[i].type = "ops"
          BY <1>0, <1>12, <3>2, HelloIs, MissedIs
        <5> QED
          BY <5>1, LenProperties DEF Range
      <4>2. /\ <<Welcome>> \o Missed(from) \in Seq(DownMsg)
            /\ Range(<<Welcome>> \o Missed(from)) = {Welcome} \cup Range(Missed(from))
        <5>1. PICK w, msgs : w = <<Welcome>> /\ msgs = Missed(from)
          OBVIOUS
        <5>2. w \in Seq(DownMsg) /\ msgs \in Seq(DownMsg)
          BY <2>3, <4>1, <5>1
        <5>3. w \o msgs \in Seq(DownMsg) /\ Range(w \o msgs) = Range(w) \cup Range(msgs)
          BY <5>2, Concat
        <5>4. Range(w) = {Welcome}
          BY <2>3, <5>1
        <5> QED
          BY <5>1, <5>3, <5>4
      <4>3. Range(Delivered(k, <<Welcome>> \o Missed(from)))
              \subseteq Range(down[k]) \cup {Welcome} \cup Range(Missed(from))
        BY <1>0, <4>2, DeliveredIs
      <4>4. /\ down'[k] = Delivered(k, <<Welcome>> \o Missed(from))
            /\ held'[k] = held[k]
        BY <1>0, <1>12, <3>2 DEF Greet, NetTypes
      <4> QED
        BY <2>4, <2>5, <3>1, <4>1, <4>3, <4>4
    <3>3. CASE ~CanReplay(from)
      <4>1. Range(Delivered(k, <<Welcome>>)) \subseteq Range(down[k]) \cup {Welcome}
        BY <1>0, <2>3, DeliveredIs
      <4>2. Range(<<Snapshot(seq, roomDoc)>>) = {Snapshot(seq, roomDoc)}
        BY Single
      <4>3. Snapshot(seq, roomDoc).type # "ack"
        BY DEF Snapshot
      <4>4. /\ down'[k] = Delivered(k, <<Welcome>>)
            /\ held'[k] = <<Snapshot(seq, roomDoc)>>
        BY <1>0, <1>12, <3>3 DEF Greet, NetTypes
      <4> QED
        BY <2>4, <2>5, <3>1, <4>1, <4>2, <4>3, <4>4
    <3> QED
      BY <3>2, <3>3
  <2> QED
    BY <1>1, <1>3, <2>1, <2>2, <2>6, <2>7 DEF OnTheWay
<1>13. ASSUME NEW k \in Conn, SendSnapshot(k) PROVE OnTheWay'
  <2>1. /\ down' = [down EXCEPT ![k] = Delivered(k, held[k])]
        /\ held' = [held EXCEPT ![k] = <<>>]
        /\ UNCHANGED <<up, unacked, nextBatch, received>>
    BY <1>13 DEF SendSnapshot, clientVars, ghostVars
  <2>2. Range(Delivered(k, held[k])) \subseteq Range(down[k]) \cup Range(held[k])
    BY <1>0, <1>1, DeliveredIs
  <2>3. \A q \in Conn : Range(down'[q]) \cup Range(held'[q])
                          \subseteq Range(down[q]) \cup Range(held[q])
    BY <1>0, <2>1, <2>2, NothingIn DEF NetTypes
  <2> QED
    BY <1>2, <1>3, <2>1, <2>3
<1>14. ASSUME NEW k \in Conn, Receive(k) PROVE OnTheWay'
  <2> DEFINE msg == Head(up[k])
  <2>1. /\ \A q \in Conn :
             \/ down'[q] = Delivered(q, <<Told(q, k, msg)>>) /\ held'[q] = held[q]
             \/ down'[q] = down[q] /\ held'[q] = Append(held[q], Told(q, k, msg))
             \/ down'[q] = down[q] /\ held'[q] = held[q]
        /\ up' = [up EXCEPT ![k] = Tail(up[k])]
        /\ received' = received \cup Range(msg.ops)
        /\ UNCHANGED <<unacked, nextBatch>>
    BY <1>14 DEF Receive, clientVars
  <2>2. \A d \in Client : \A m : /\ Known(d, m) => Known(d, m)'
                                 /\ Earned(d, m) => Earned(d, m)'
    BY <2>1 DEF Known, Earned
  <2>3. \A q \in Conn : Range(up'[q]) \subseteq Range(up[q])
    <3>1. Range(Tail(up[k])) \subseteq Range(up[k])
      BY <1>0, <1>14, HearIs DEF Receive
    <3> QED
      BY <1>0, <2>1, <3>1 DEF NetTypes
  <2>4. msg \in Range(up[k]) /\ msg.type = "ops"
    BY <1>0, <1>14, HearIs DEF Receive
  <2>5. ASSUME NEW q \in Conn, NEW m, m = Told(q, k, msg)
        PROVE  m \in DownMsg /\ Earned(q[1], m)'
    <3>1. m \in DownMsg
      BY <1>0, <1>14, <2>5, ToldIs
    <3>2. CASE q = k
      <4>1. m.id = msg.id
        BY <2>5, <3>2 DEF Told, Ack
      <4>2. Known(k[1], msg)
        BY <1>1, <2>4
      <4> HIDE DEF msg
      <4>3. /\ m.id <= nextBatch[k[1]]
            /\ m.id \in DOMAIN unacked[k[1]] => unacked[k[1]][m.id] = msg.ops
        BY <2>4, <4>1, <4>2 DEF Known
      <4> QED
        BY <2>1, <3>1, <3>2, <4>3 DEF Earned
    <3>3. CASE q # k
      <4>1. m.type = "ops"
        BY <2>5, <3>3 DEF Told, Relayed
      <4> QED
        BY <3>1, <4>1 DEF Earned
    <3> QED
      BY <3>2, <3>3
  <2> HIDE DEF msg
  <2>6. ASSUME NEW q \in Conn
        PROVE  \A m \in Range(down'[q]) \cup Range(held'[q]) : Earned(q[1], m)'
    <3>1. PICK t : t = Told(q, k, msg)
      OBVIOUS
    <3>2. t \in DownMsg /\ Earned(q[1], t)'
      BY <2>5, <3>1
    <3>3. <<t>> \in Seq(DownMsg) /\ Range(<<t>>) = {t}
      BY <3>2, Single
    <3>4. Range(Delivered(q, <<t>>)) \subseteq Range(down[q]) \cup {t}
      BY <1>0, <3>3, DeliveredIs
    <3>5. Range(Append(held[q], t)) = Range(held[q]) \cup {t}
      BY <1>1, <3>2, Appended
    <3>6. \A m \in Range(down[q]) \cup Range(held[q]) : Earned(q[1], m)'
      BY <1>1, <2>2
    <3> QED
      BY <2>1, <3>1, <3>2, <3>4, <3>5, <3>6
  <2>7. \A q \in Conn : \A m \in Range(up'[q]) : Known(q[1], m)'
    BY <1>1, <2>2, <2>3
  <2> QED
    BY <2>6, <2>7 DEF OnTheWay
<1>15. ASSUME NEW k \in Conn, ServerClose(k) PROVE OnTheWay'
  <2>1. UNCHANGED <<down, unacked, nextBatch, received>>
    BY <1>15 DEF ServerClose, clientVars, ghostVars
  <2>2. \A q \in Conn : /\ up'[q] = up[q] \/ up'[q] = <<>>
                        /\ held'[q] = held[q] \/ held'[q] = <<>>
    BY <1>0, <1>15 DEF ServerClose, NetTypes
  <2> QED
    BY <1>2, <1>3, <2>1, <2>2, NothingIn
<1>16. CASE Reopen
  <2>1. UNCHANGED <<down, unacked, nextBatch, received>>
    BY <1>16 DEF Reopen, clientVars
  <2>2. \A q \in Conn : up'[q] = <<>> /\ held'[q] = <<>>
    BY <1>16 DEF Reopen
  <2> QED
    BY <1>2, <1>3, <2>1, <2>2, NothingIn
<1>17. ASSUME UNCHANGED <<up, down, held, unacked, nextBatch, received>>
       PROVE  OnTheWay'
  BY <1>2, <1>3, <1>17
<1>18. ASSUME NEW c \in Client, LoadRecord(c) \/ LoadDocument(c) \/ Edit(c)
       PROVE  UNCHANGED <<up, down, held, unacked, nextBatch, received>>
  BY <1>18 DEF LoadRecord, LoadDocument, Edit, netVars, ghostVars
<1>19. ASSUME Save \/ Write \/ UNCHANGED vars
       PROVE  UNCHANGED <<up, down, held, unacked, nextBatch, received>>
  BY <1>19 DEF Save, Write, WriteDocument, WriteRecord, vars, netVars,
     clientVars,
     ghostVars
<1> QED
  BY <1>4, <1>7, <1>8, <1>9, <1>10, <1>11, <1>12, <1>13, <1>14, <1>15, <1>16,
     <1>17,
     <1>18, <1>19 DEF Next, Read, Hear

(* No step drops work the room has not got: Edit adds to the outbox what it *)
(* makes, Send moves the work into a batch, ReadAck drops a batch that is   *)
(* earned.                                                                  *)
LEMMA WorkNotLost ==
  ASSUME TypeOK, LogInOrder, Numbered, OnTheWay, NoWorkLost, [Next]_vars
  PROVE  NoWorkLost'
<1>0. NetTypes /\ TabTypes /\ LinkTypes /\ WorkTypes
  BY DEF TypeOK
<1>1. ASSUME NEW c \in Client, Edit(c) PROVE NoWorkLost'
  <2> DEFINE op == <<c, made[c] + 1>>
  <2>1. outbox' = [outbox EXCEPT ![c] = Append(outbox[c], op)]
    BY <1>1 DEF Edit
  <2>2. made' = [made EXCEPT ![c] = made[c] + 1] /\ UNCHANGED <<unacked, received>>
    BY <1>1 DEF Edit, ghostVars
  <2>3. op \in Op
    <3>1. made[c] + 1 \in 1 .. Quota[c]
      BY <1>0, <1>1 DEF Edit, TabTypes
    <3> QED
      BY <3>1, Names
  <2> HIDE DEF op
  <2>4. Range(outbox'[c]) = Range(outbox[c]) \cup {op}
    BY <1>0, <2>1, <2>3, Appended DEF WorkTypes
  <2>5. Made(c)' \subseteq Made(c) \cup {op}
    <3>1. PICK n \in Nat : n = made[c]
      BY <1>0 DEF TabTypes
    <3>2. made'[c] = n + 1
      BY <1>0, <2>2, <3>1 DEF TabTypes
    <3>3. ASSUME NEW x \in Op, x[1] = c, x[2] <= n + 1 PROVE x[2] <= n \/ x = op
      <4>1. x = <<c, x[2]>> /\ x[2] \in Nat
        BY <3>3 DEF Op
      <4>2. x[2] <= n \/ x[2] = n + 1
        BY <3>3, <4>1
      <4> QED
        BY <3>1, <4>1, <4>2 DEF op
    <3> QED
      BY <3>1, <3>2, <3>3 DEF Made, Own
  <2>6. \A d \in Client \ {c} : made'[d] = made[d] /\ outbox'[d] = outbox[d]
    BY <1>0, <2>1, <2>2 DEF TabTypes, WorkTypes
  <2>7. ASSUME NEW d \in Client PROVE Made(d)' \subseteq Pending(d)' \cup received'
    <3>1. CASE d = c
      BY <2>2, <2>4, <2>5, <3>1 DEF NoWorkLost, Pending
    <3>2. CASE d # c
      BY <2>2, <2>6, <3>2 DEF NoWorkLost, Pending, Made
    <3> QED
      BY <3>1, <3>2
  <2> QED
    BY <2>7 DEF NoWorkLost
<1>2. ASSUME UNCHANGED made,
             \A d \in Client : Pending(d) \cup received \subseteq Pending(d)' \cup received'
      PROVE  NoWorkLost'
  BY <1>2 DEF NoWorkLost, Made
<1>3. ASSUME NEW c \in Client, NEW kept \in SUBSET DOMAIN unacked[c],
             NEW ops \in Seq(Op), Send(c, kept, ops), UNCHANGED <<made, received>>,
             Pending(c) \subseteq Range(ops) \cup UNION {Range(unacked[c][i]) : i \in kept}
      PROVE  NoWorkLost'
  <2>1. /\ outbox' = [outbox EXCEPT ![c] = <<>>]
        /\ \A d \in Client \ {c} : unacked'[d] = unacked[d]
        /\ DOMAIN unacked'[c] = kept \cup {nextBatch[c] + 1}
        /\ unacked'[c][nextBatch[c] + 1] = ops
        /\ \A i \in kept : unacked'[c][i] = unacked[c][i]
    BY <1>0, <1>3, SendIs
  <2>2. Range(ops) \cup UNION {Range(unacked[c][i]) : i \in kept} \subseteq Pending(c)'
    BY <2>1 DEF Pending
  <2>3. \A d \in Client \ {c} : Pending(d)' = Pending(d)
    BY <1>0, <2>1 DEF Pending, WorkTypes
  <2> QED
    BY <1>2, <1>3, <2>2, <2>3
<1>4. ASSUME NEW c \in Client, Flush(c) PROVE NoWorkLost'
  <2>1. /\ outbox[c] \in Seq(Op) /\ Send(c, DOMAIN unacked[c], outbox[c])
        /\ UNCHANGED <<made, received>>
    BY <1>0, <1>4 DEF Flush, WorkTypes, ghostVars
  <2> QED
    BY <1>3, <2>1 DEF Pending
<1>5. ASSUME NEW c \in Client, ReadWelcome(c) PROVE NoWorkLost'
  <2>1. /\ \/ Send(c, {}, TakenBack(c))
           \/ UNCHANGED <<outbox, unacked>>
        /\ UNCHANGED <<made, received>>
    BY <1>5 DEF ReadWelcome, ghostVars
  <2>2. TakenBack(c) \in Seq(Op) /\ Range(TakenBack(c)) = Pending(c)
    BY TakenBackIs
  <2>3. CASE Send(c, {}, TakenBack(c))
    BY <1>3, <2>1, <2>2, <2>3
  <2>4. CASE UNCHANGED <<outbox, unacked>>
    BY <1>2, <2>1, <2>4 DEF Pending
  <2> QED
    BY <2>1, <2>3, <2>4
<1>6. ASSUME NEW c \in Client, ReadAck(c) PROVE NoWorkLost'
  <2>1. PICK msg : msg = Head(down[Current(c)])
    OBVIOUS
  <2>2. Range(unacked[c][msg.id]) \subseteq received \/ msg.id \notin DOMAIN unacked[c]
    <3>1. Reads(c, "ack")
      BY <1>6 DEF ReadAck
    <3>2. Current(c) \in Conn /\ msg \in Range(down[Current(c)]) /\ msg.type = "ack"
      BY <1>0, <2>1, <3>1, ReadIs
    <3>3. Earned(Current(c)[1], msg) /\ Current(c)[1] = c
      BY <3>2 DEF OnTheWay, Current
    <3> QED
      BY <3>2, <3>3 DEF Earned
  <2>3. /\ unacked' = [unacked EXCEPT ![c] = [i \in DOMAIN unacked[c] \ {msg.id} |->
                                                unacked[c][i]]]
        /\ UNCHANGED <<made, outbox, received>>
    BY <1>6, <2>1 DEF ReadAck
  <2>4. /\ unacked'[c] = [i \in DOMAIN unacked[c] \ {msg.id} |-> unacked[c][i]]
        /\ \A d \in Client \ {c} : unacked'[d] = unacked[d]
    BY <1>0, <2>3 DEF WorkTypes
  <2>5. ASSUME NEW i \in DOMAIN unacked[c], i # msg.id
        PROVE  i \in DOMAIN unacked'[c] /\ unacked'[c][i] = unacked[c][i]
    BY <2>4, <2>5
  <2>6. Pending(c) \subseteq Pending(c)' \cup received
    <3>1. ASSUME NEW x \in Pending(c), x \notin Range(outbox[c])
          PROVE  x \in Pending(c)' \cup received
      <4>1. PICK i \in DOMAIN unacked[c] : x \in Range(unacked[c][i])
        BY <3>1 DEF Pending
      <4>2. CASE i = msg.id
        BY <2>2, <4>1, <4>2
      <4>3. CASE i # msg.id
        BY <2>5, <4>1, <4>3 DEF Pending
      <4> QED
        BY <4>2, <4>3
    <3>2. Range(outbox[c]) \subseteq Pending(c)'
      BY <2>3 DEF Pending
    <3> QED
      BY <3>1, <3>2
  <2>7. \A d \in Client \ {c} : Pending(d)' = Pending(d)
    BY <2>3, <2>4 DEF Pending
  <2> QED
    BY <1>2, <2>3, <2>6, <2>7
<1>7. ASSUME NEW k \in Conn, Receive(k) PROVE NoWorkLost'
  <2>1. UNCHANGED <<made, outbox, unacked>> /\ received \subseteq received'
    BY <1>7 DEF Receive, clientVars
  <2> QED
    BY <1>2, <2>1 DEF Pending
<1>8. ASSUME UNCHANGED <<made, outbox, unacked, received>> PROVE NoWorkLost'
  BY <1>2, <1>8 DEF Pending
<1>9. ASSUME NEW c \in Client, \/ LoadRecord(c) \/ LoadDocument(c) \/ Connect(c)
                               \/ ReadSnapshot(c) \/ ReadOps(c) \/ ClientClose(c)
      PROVE  UNCHANGED <<made, outbox, unacked, received>>
  BY <1>9 DEF LoadRecord, LoadDocument, Connect, ReadSnapshot, ReadOps,
     ClientClose,
     ghostVars
<1>10. ASSUME NEW k \in Conn, Greet(k) \/ SendSnapshot(k) \/ ServerClose(k)
       PROVE  UNCHANGED <<made, outbox, unacked, received>>
  BY <1>10 DEF Greet, SendSnapshot, ServerClose, clientVars, ghostVars
<1>11. ASSUME Save \/ Write \/ Reopen \/ UNCHANGED vars
       PROVE  UNCHANGED <<made, outbox, unacked, received>>
  BY <1>11 DEF Save, Write, WriteDocument, WriteRecord, Reopen, vars,
     clientVars,
     ghostVars
<1> QED
  BY <1>1, <1>4, <1>5, <1>6, <1>7, <1>8, <1>9, <1>10, <1>11 DEF Next, Read,
     Hear

(* Whether a connection is given up depends on the client alone.            *)
LEMMA GivenUpKept ==
  UNCHANGED <<conn, online>> => \A k : GivenUp(k)' <=> GivenUp(k)
  BY DEF GivenUp, Current

-----------------------------------------------------------------------------
(* The streams.                                                             *)

(* One more message with the next number.                                   *)
LEMMA RunsOn ==
  ASSUME NEW s \in Seq(DownMsg), NEW m \in DownMsg, NEW from \in Int, NEW to \in Int,
         m.type # "welcome", m.seq = to + 1, WelcomeFirst(s), Runs(s, from, to)
  PROVE  WelcomeFirst(Append(s, m)) /\ Runs(Append(s, m), from, to + 1)
<1>1. PICK n \in Nat : n = Len(s)
  BY LenProperties
<1>2. PICK t : t = Append(s, m)
  OBVIOUS
<1>3. /\ t \in Seq(DownMsg) /\ t # <<>> /\ Len(t) = n + 1
      /\ \A i \in 1 .. n : t[i] = s[i]
      /\ t[n + 1] = m
  BY <1>1, <1>2, AppendProperties
<1>4. PICK skip \in {0, 1} : skip = Skip(s)
  BY DEF Skip
<1>5. Skip(t) = skip
  <2>1. Head(t) = t[1]
    BY <1>3
  <2>2. CASE s = <<>>
    <3>1. n = 0 /\ skip = 0
      BY <1>1, <1>4, <2>2 DEF Skip
    <3> QED
      BY <1>3, <2>1, <3>1 DEF Skip
  <2>3. CASE s # <<>>
    <3>1. n \in Nat \ {0} /\ Head(s) = s[1]
      BY <1>1, <2>3, EmptySeq
    <3> QED
      BY <1>3, <1>4, <2>1, <2>3, <3>1 DEF Skip
  <2> QED
    BY <2>2, <2>3
<1>6. WelcomeFirst(t)
  <2>1. ASSUME NEW i \in 2 .. n + 1 PROVE t[i].type # "welcome"
    <3>1. CASE i = n + 1
      BY <1>3, <3>1
    <3>2. CASE i \in 2 .. n
      BY <1>1, <1>3, <3>2 DEF WelcomeFirst
    <3> QED
      BY <3>1, <3>2
  <2> QED
    BY <1>3, <2>1 DEF WelcomeFirst
<1>7. n - skip = to - from /\ \A i \in 1 .. to - from : s[i + skip].seq = from + i
  BY <1>1, <1>4 DEF Runs
<1>8. ASSUME NEW i \in 1 .. (to + 1) - from PROVE t[i + skip].seq = from + i
  <2>1. CASE i = (to + 1) - from
    <3>1. i + skip = n + 1 /\ from + i = to + 1
      BY <1>7, <2>1
    <3> QED
      BY <1>3, <3>1
  <2>2. CASE i \in 1 .. to - from
    <3>1. i + skip \in 1 .. n
      BY <1>7, <2>2
    <3> QED
      BY <1>3, <1>7, <2>2, <3>1
  <2> QED
    BY <2>1, <2>2
<1>9. (n + 1) - skip = (to + 1) - from
  BY <1>7
<1> QED
  BY <1>2, <1>3, <1>5, <1>6, <1>8, <1>9 DEF Runs

(* One message less.                                                        *)
LEMMA RunsDown ==
  ASSUME NEW s \in Seq(DownMsg), NEW from \in Int, NEW to \in Int,
         s # <<>>, WelcomeFirst(s), Runs(s, from, to)
  PROVE  /\ WelcomeFirst(Tail(s))
         /\ Head(s).type = "welcome" => Runs(Tail(s), from, to)
         /\ Head(s).type # "welcome" => /\ Head(s).seq = from + 1
                                        /\ Runs(Tail(s), from + 1, to)
<1>1. PICK n \in Nat : n = Len(s) /\ n # 0
  BY EmptySeq
<1>2. PICK t : t = Tail(s)
  OBVIOUS
<1>3. /\ t \in Seq(DownMsg) /\ Len(t) = n - 1
      /\ \A i \in 1 .. n - 1 : t[i] = s[i + 1]
  BY <1>1, <1>2, HeadTailProperties
<1>4. PICK skip \in {0, 1} : skip = Skip(s)
  BY DEF Skip
<1>5. Head(s) = s[1]
  BY <1>1
<1>6. \A i \in 1 .. n - 1 : t[i].type # "welcome"
  <2>1. TAKE i \in 1 .. n - 1
  <2>2. i + 1 \in 2 .. n
    OBVIOUS
  <2>3. s[i + 1].type # "welcome"
    BY <1>1, <2>2 DEF WelcomeFirst
  <2> QED
    BY <1>3, <2>3
<1>7. WelcomeFirst(t)
  <2>1. \A i \in 2 .. n - 1 : i \in 1 .. n - 1
    OBVIOUS
  <2> QED
    BY <1>3, <1>6, <2>1 DEF WelcomeFirst
<1>8. Skip(t) = 0
  <2>1. CASE t = <<>>
    BY <2>1 DEF Skip
  <2>2. CASE t # <<>>
    <3>1. n - 1 \in Nat \ {0}
      BY <1>3, <2>2, EmptySeq
    <3>2. Head(t) = t[1] /\ 1 \in 1 .. n - 1
      BY <1>3, <3>1
    <3> QED
      BY <1>6, <3>2 DEF Skip
  <2> QED
    BY <2>1, <2>2
<1>9. n - skip = to - from /\ \A i \in 1 .. to - from : s[i + skip].seq = from + i
  BY <1>1, <1>4 DEF Runs
<1>10. CASE Head(s).type = "welcome"
  <2>1. skip = 1
    BY <1>4, <1>10 DEF Skip
  <2>2. n - 1 = to - from
    BY <1>9, <2>1
  <2>3. \A i \in 1 .. to - from : t[i].seq = from + i
    BY <1>3, <1>9, <2>1, <2>2
  <2>4. Runs(t, from, to)
    BY <1>3, <1>8, <2>2, <2>3 DEF Runs
  <2> QED
    BY <1>2, <1>7, <1>10, <2>4
<1>11. CASE Head(s).type # "welcome"
  <2>1. skip = 0
    BY <1>4, <1>11 DEF Skip
  <2>2. n = to - from
    BY <1>9, <2>1
  <2>3. 1 \in 1 .. to - from
    BY <2>2, <1>1
  <2>4. Head(s).seq = from + 1
    BY <1>5, <1>9, <2>1, <2>3
  <2>5. ASSUME NEW i \in 1 .. to - (from + 1) PROVE t[i].seq = (from + 1) + i
    <3>1. i \in 1 .. n - 1 /\ i + 1 \in 1 .. to - from
      BY <2>2
    <3>2. t[i] = s[i + 1] /\ s[(i + 1) + skip].seq = from + (i + 1)
      BY <1>3, <1>9, <3>1
    <3> QED
      BY <2>1, <3>2
  <2>6. n - 1 = to - (from + 1)
    BY <2>2
  <2>7. Runs(t, from + 1, to)
    BY <1>3, <1>8, <2>5, <2>6 DEF Runs
  <2> QED
    BY <1>2, <1>7, <1>11, <2>4, <2>7
<1> QED
  BY <1>10, <1>11

(* A welcome, and one message for each number.                              *)
LEMMA AfterWelcome ==
  ASSUME NEW w \in DownMsg, w.type = "welcome", NEW from \in Int, NEW to \in Nat,
         NEW msgs \in Seq(DownMsg), to - from \in Nat, Len(msgs) = to - from,
         \A i \in 1 .. to - from : /\ msgs[i].seq = from + i
                                   /\ msgs[i].type # "welcome"
  PROVE  WelcomeFirst(<<w>> \o msgs) /\ Runs(<<w>> \o msgs, from, to)
<1>0. PICK all : all = <<w>> \o msgs
  OBVIOUS
<1>1. PICK n \in Nat : n = to - from
  BY <1>0
<1>2. PICK first \in Seq(DownMsg) : /\ first = <<w>>
                                    /\ Len(first) = 1 /\ first[1] = w
  <2>1. <<w>> \in Seq(DownMsg) /\ Len(<<w>>) = 1 /\ <<w>>[1] = w
    BY Single
  <2> QED
    BY <2>1
<1>3. /\ all \in Seq(DownMsg) /\ Len(all) = 1 + n
      /\ \A i \in 1 .. 1 + n : all[i] = IF i <= 1 THEN first[i] ELSE msgs[i - 1]
  <2>1. all = first \o msgs
    BY <1>0, <1>2
  <2>2. Len(msgs) = n
    BY <1>0, <1>1
  <2> QED
    BY <1>2, <2>1, <2>2, ConcatProperties
<1>4. all # <<>> /\ Head(all) = w
  <2>1. 1 \in 1 .. 1 + n /\ 1 <= 1 /\ 1 + n # 0
    OBVIOUS
  <2>2. all[1] = w
    BY <1>2, <1>3, <2>1
  <2> QED
    BY <1>3, <2>1, <2>2, EmptySeq
<1>5. Skip(all) = 1
  BY <1>4 DEF Skip
<1>6. ASSUME NEW i \in 1 .. n PROVE all[i + 1] = msgs[i]
  <2>1. i + 1 \in 1 .. 1 + n /\ ~(i + 1 <= 1) /\ (i + 1) - 1 = i
    OBVIOUS
  <2> QED
    BY <1>3, <2>1
<1>7. WelcomeFirst(all)
  <2>1. ASSUME NEW i \in 2 .. 1 + n PROVE all[i].type # "welcome"
    <3>1. PICK j \in 1 .. n : i = j + 1
      <4>1. i - 1 \in 1 .. n /\ i = (i - 1) + 1
        OBVIOUS
      <4> QED
        BY <4>1
    <3> QED
      BY <1>0, <1>1, <1>6, <3>1
  <2> QED
    BY <1>3, <2>1 DEF WelcomeFirst
<1>8. Len(all) - 1 = n
  BY <1>3
<1> QED
  BY <1>0, <1>1, <1>5, <1>6, <1>7, <1>8 DEF Runs

(* Every step keeps the streams: Greet begins one, Receive adds to its end, *)
(* SendSnapshot passes on what was held, a read takes the first; a step     *)
(* that closes a connection, or gives it up, ends it.                       *)
LEMMA StreamsKept ==
  ASSUME TypeOK, LogInOrder, Beginning, Streams, [Next]_vars
  PROVE  Streams'
<1>0. /\ RoomTypes /\ SaveTypes /\ NetTypes /\ LinkTypes /\ GhostTypes
  BY DEF TypeOK
<1>1. ASSUME NEW k \in Conn
      PROVE  /\ down[k] \in Seq(DownMsg) /\ held[k] \in Seq(DownMsg)
             /\ ToRead(k) \in Seq(DownMsg) /\ cursor[k] \in Int /\ seq \in Int
  <2>1. /\ down[k] \in Seq(DownMsg) /\ held[k] \in Seq(DownMsg)
        /\ cursor[k] \in Int /\ seq \in Nat
    BY <1>0 DEF NetTypes, RoomTypes, GhostTypes
  <2> QED
    BY <2>1, Concat DEF ToRead
<1>2. ASSUME NEW k \in Conn, UNCHANGED seq, down'[k] = down[k], held'[k] = held[k],
             cursor'[k] = cursor[k], peer'[k] = "greeted" => peer[k] = "greeted",
             GivenUp(k) => GivenUp(k)',
             peer'[k] = "greeted", ~GivenUp(k)'
      PROVE  WelcomeFirst(ToRead(k))' /\ Runs(ToRead(k), cursor[k], seq)'
  <2>1. WelcomeFirst(ToRead(k)) /\ Runs(ToRead(k), cursor[k], seq)
    BY <1>2 DEF Streams
  <2>2. ToRead(k)' = ToRead(k)
    BY <1>2 DEF ToRead
  <2> QED
    BY <1>2, <2>1, <2>2 DEF WelcomeFirst, Runs, Skip
<1>3. ASSUME NEW c \in Client, Connect(c) PROVE Streams'
  <2>1. /\ UNCHANGED <<seq, down, held>>
        /\ peer' = [peer EXCEPT ![<<c, conn[c] + 1>>] = "joined"]
        /\ cursor' = [cursor EXCEPT ![<<c, conn[c] + 1>>] = clientSeq[c]]
        /\ ~online[c]
        /\ conn' = [conn EXCEPT ![c] = conn[c] + 1]
        /\ online' = [online EXCEPT ![c] = TRUE]
    BY <1>3 DEF Connect, roomVars
  <2>2. ASSUME NEW k \in Conn, peer'[k] = "greeted"
        PROVE  /\ peer[k] = "greeted" /\ cursor'[k] = cursor[k]
               /\ GivenUp(k) => GivenUp(k)'
    <3>1. peer[k] = "greeted" /\ k # <<c, conn[c] + 1>> /\ cursor'[k] = cursor[k]
      BY <1>0, <2>1, <2>2 DEF NetTypes, GhostTypes
    <3>2. CASE k[1] = c
      <4>1. conn'[c] = conn[c] + 1
        BY <1>0, <2>1 DEF LinkTypes
      <4> QED
        BY <3>1, <3>2, <4>1 DEF GivenUp, Current
    <3>3. CASE k[1] # c
      <4>1. k[1] \in Client
        BY Names
      <4>2. conn'[k[1]] = conn[k[1]] /\ online'[k[1]] = online[k[1]]
        BY <1>0, <2>1, <3>3, <4>1 DEF LinkTypes
      <4> QED
        BY <3>1, <4>2 DEF GivenUp, Current
    <3> QED
      BY <3>2, <3>3
  <2> QED
    BY <1>2, <2>1, <2>2 DEF Streams
<1>4. ASSUME NEW c \in Client, NEW type, Reads(c, type),
             UNCHANGED <<seq, held, peer, conn, online>>,
             \A k \in Conn \ {Current(c)} : cursor'[k] = cursor[k],
             cursor'[Current(c)] = IF type = "welcome" THEN cursor[Current(c)]
                                   ELSE Head(down[Current(c)]).seq
      PROVE  Streams'
  <2>1. PICK k \in Conn : k = Current(c)
    BY <1>0, <1>4, ReadIs
  <2>2. /\ down[k] # <<>> /\ Head(down[k]).type = type
        /\ down' = [down EXCEPT ![k] = Tail(down[k])]
    BY <1>0, <1>4, <2>1, ReadIs
  <2>3. ASSUME peer'[k] = "greeted", ~GivenUp(k)'
        PROVE  WelcomeFirst(ToRead(k))' /\ Runs(ToRead(k), cursor[k], seq)'
    <3>1. WelcomeFirst(ToRead(k)) /\ Runs(ToRead(k), cursor[k], seq)
      BY <1>4, <2>3, GivenUpKept DEF Streams
    <3>2. /\ ToRead(k) # <<>> /\ Head(ToRead(k)) = Head(down[k])
          /\ Tail(down[k]) \o held[k] = Tail(ToRead(k))
      BY <1>1, <2>2, Joined DEF ToRead
    <3>3. ToRead(k)' = Tail(ToRead(k))
      BY <1>0, <1>4, <2>2, <3>2 DEF ToRead, NetTypes
    <3>4. PICK s \in Seq(DownMsg), from \in Int, to \in Int :
            s = ToRead(k) /\ from = cursor[k] /\ to = seq
      BY <1>1
    <3>5. /\ WelcomeFirst(Tail(s))
          /\ Head(s).type = "welcome" => Runs(Tail(s), from, to)
          /\ Head(s).type # "welcome" => /\ Head(s).seq = from + 1
                                         /\ Runs(Tail(s), from + 1, to)
      BY <3>1, <3>2, <3>4, RunsDown
    <3>6. seq' = to /\ ToRead(k)' = Tail(s)
      BY <1>4, <3>3, <3>4
    <3>7. cursor'[k] = IF type = "welcome" THEN from ELSE from + 1
      BY <1>4, <2>1, <2>2, <3>2, <3>4, <3>5
    <3>8. Runs(Tail(s), cursor'[k], to)
      BY <2>2, <3>2, <3>4, <3>5, <3>7
    <3> QED
      BY <3>5, <3>6, <3>8 DEF WelcomeFirst, Runs, Skip
  <2>4. ASSUME NEW q \in Conn, q # k, peer'[q] = "greeted", ~GivenUp(q)'
        PROVE  WelcomeFirst(ToRead(q))' /\ Runs(ToRead(q), cursor[q], seq)'
    <3>1. down'[q] = down[q] /\ cursor'[q] = cursor[q]
      BY <1>0, <1>4, <2>1, <2>2, <2>4 DEF NetTypes
    <3> QED
      BY <1>2, <1>4, <2>4, <3>1, GivenUpKept
  <2> QED
    BY <2>3, <2>4 DEF Streams
<1>5. ASSUME NEW c \in Client, ReadWelcome(c) PROVE Streams'
  <2>1. Reads(c, "welcome") /\ UNCHANGED <<seq, held, peer, conn, online, cursor>>
    BY <1>5 DEF ReadWelcome, roomVars, ghostVars
  <2> QED
    BY <1>4, <2>1
<1>6. ASSUME NEW c \in Client, NEW type \in {"snapshot", "ops", "ack"}, Reads(c, type),
             cursor' = [cursor EXCEPT ![Current(c)] = Head(down[Current(c)]).seq],
             UNCHANGED <<seq, held, peer, conn, online>>
      PROVE  Streams'
  <2>1. Current(c) \in Conn
    BY <1>0, <1>6, ReadIs
  <2>2. type # "welcome"
    BY <1>6
  <2>3. /\ \A k \in Conn \ {Current(c)} : cursor'[k] = cursor[k]
        /\ cursor'[Current(c)] = IF type = "welcome" THEN cursor[Current(c)]
                                 ELSE Head(down[Current(c)]).seq
    BY <1>0, <1>6, <2>1, <2>2 DEF GhostTypes
  <2> QED
    BY <1>4, <1>6, <2>3
<1>7. ASSUME NEW c \in Client,
             ReadSnapshot(c) \/ ReadOps(c) \/ ReadAck(c)
      PROVE  Streams'
  <2>1. \E type \in {"snapshot", "ops", "ack"} : Reads(c, type)
    BY <1>7 DEF ReadSnapshot, ReadOps, ReadAck
  <2>2. /\ cursor' = [cursor EXCEPT ![Current(c)] = Head(down[Current(c)]).seq]
        /\ UNCHANGED <<seq, held, peer, conn, online>>
    BY <1>7 DEF ReadSnapshot, ReadOps, ReadAck, roomVars
  <2> QED
    BY <1>6, <2>1, <2>2
<1>8. ASSUME NEW c \in Client, ClientClose(c) PROVE Streams'
  <2>1. /\ UNCHANGED <<seq, held, peer, conn, cursor>> /\ online[c]
        /\ online' = [online EXCEPT ![c] = FALSE]
        /\ down' = [down EXCEPT ![Current(c)] = <<>>]
    BY <1>8 DEF ClientClose, roomVars
  <2>2. ASSUME NEW k \in Conn, ~GivenUp(k)'
        PROVE  (GivenUp(k) => GivenUp(k)') /\ down'[k] = down[k]
    <3>1. k[1] \in Client /\ online'[k[1]]
      BY <2>2, Names DEF GivenUp
    <3>2. k[1] # c /\ online'[k[1]] = online[k[1]]
      BY <1>0, <2>1, <3>1 DEF LinkTypes
    <3>3. k # Current(c)
      BY <3>2 DEF Current
    <3> QED
      BY <1>0, <2>1, <2>2, <3>2, <3>3 DEF GivenUp, Current, NetTypes
  <2> QED
    BY <1>2, <2>1, <2>2 DEF Streams
<1>9. ASSUME NEW k \in Conn, Greet(k) PROVE Streams'
  <2> DEFINE hello == UpTo(Head(up[k]))
  <2>1. /\ peer[k] = "joined" /\ peer' = [peer EXCEPT ![k] = "greeted"]
        /\ UNCHANGED <<seq, conn, online>>
    BY <1>9 DEF Greet, roomVars, clientVars
  <2>2. \A q \in Conn \ {k} : /\ down'[q] = down[q] /\ held'[q] = held[q]
                              /\ cursor'[q] = cursor[q] /\ peer'[q] = peer[q]
    BY <1>0, <1>9 DEF Greet, NetTypes, GhostTypes
  <2>3. down[k] = <<>> /\ held[k] = <<>>
    BY <2>1 DEF Beginning
  <2>4. PICK w \in DownMsg : w = Welcome /\ w.type = "welcome"
    <3>1. Welcome.type = "welcome"
      BY DEF Welcome
    <3> QED
      BY <1>0, <3>1, Written DEF RoomTypes
  <2>5. PICK to \in Nat : to = seq
    BY <1>0 DEF RoomTypes
  <2>7. ASSUME peer'[k] = "greeted", ~GivenUp(k)'
        PROVE  WelcomeFirst(ToRead(k))' /\ Runs(ToRead(k), cursor[k], seq)'
    <3>1. ~GivenUp(k)
      BY <2>1, <2>7, GivenUpKept
    <3>2. \A msgs \in Seq(DownMsg) : Delivered(k, msgs) = msgs
      BY <2>3, <3>1, ConcatEmptySeq DEF Delivered
    <3>3. \E msgs \in Seq(DownMsg), from \in Int :
            /\ to - from \in Nat /\ Len(msgs) = to - from
            /\ \A i \in 1 .. to - from : /\ msgs[i].seq = from + i
                                         /\ msgs[i].type # "welcome"
            /\ ToRead(k)' = <<w>> \o msgs /\ cursor'[k] = from
      <4>1. CASE CanReplay(hello)
        <5>1. hello \in Int
          BY <1>0, <1>9, HelloIs
        <5>2. PICK from \in Int : from = hello
          BY <5>1
        <5>3. PICK msgs : msgs = Missed(from)
          OBVIOUS
        <5>4. /\ to - from \in Nat
              /\ msgs \in Seq(DownMsg) /\ Len(msgs) = to - from
              /\ \A i \in 1 .. to - from : msgs[i].seq = from + i /\ msgs[i].type = "ops"
          BY <1>0, <2>5, <4>1, <5>2, <5>3, MissedIs
        <5>5. /\ down' = [down EXCEPT ![k] = Delivered(k, <<w>> \o msgs)]
              /\ cursor' = [cursor EXCEPT ![k] = from] /\ held' = held
          BY <1>9, <2>4, <4>1, <5>2, <5>3 DEF Greet
        <5>6. <<w>> \in Seq(DownMsg)
          BY Single
        <5>7. <<w>> \o msgs \in Seq(DownMsg)
          BY <5>4, <5>6, Concat
        <5>8. down'[k] = <<w>> \o msgs /\ held'[k] = <<>>
          BY <1>0, <2>3, <3>2, <5>5, <5>7 DEF NetTypes
        <5>9. ToRead(k)' = <<w>> \o msgs
          BY <5>7, <5>8, ConcatEmptySeq DEF ToRead
        <5>10. cursor'[k] = from
          BY <1>0, <5>5 DEF GhostTypes
        <5> QED
          BY <5>4, <5>9, <5>10
      <4>2. CASE ~CanReplay(hello)
        <5>1. PICK m \in DownMsg : /\ m = Snapshot(seq, roomDoc) /\ m.seq = to
                                   /\ m.type # "welcome"
          <6>1. Snapshot(seq, roomDoc).seq = to /\ Snapshot(seq, roomDoc).type # "welcome"
            BY <2>5 DEF Snapshot
          <6> QED
            BY <1>0, <6>1, Written DEF RoomTypes
        <5>2. /\ down' = [down EXCEPT ![k] = Delivered(k, <<w>>)]
              /\ held' = [held EXCEPT ![k] = <<m>>]
              /\ cursor' = [cursor EXCEPT ![k] = to - 1]
          BY <1>9, <2>4, <2>5, <4>2, <5>1 DEF Greet
        <5>3. <<w>> \in Seq(DownMsg) /\ <<m>> \in Seq(DownMsg)
          BY Single
        <5>4. ToRead(k)' = <<w>> \o <<m>>
          BY <1>0, <3>2, <5>2, <5>3 DEF NetTypes, ToRead
        <5>5. cursor'[k] = to - 1 /\ to - 1 \in Int /\ to - (to - 1) = 1
          BY <1>0, <5>2 DEF GhostTypes
        <5>6. Len(<<m>>) = 1 /\ <<m>>[1] = m /\ m.seq = (to - 1) + 1
          BY <5>1
        <5>7. \A i \in 1 .. 1 : i = 1
          OBVIOUS
        <5>8. \A i \in 1 .. to - (to - 1) : /\ <<m>>[i].seq = (to - 1) + i
                                            /\ <<m>>[i].type # "welcome"
          BY <5>1, <5>5, <5>6, <5>7
        <5>9. PICK msgs \in Seq(DownMsg), from \in Int : msgs = <<m>> /\ from = to - 1
          BY <5>3, <5>5
        <5>10. to - from \in Nat /\ Len(msgs) = to - from
          BY <5>5, <5>6, <5>9
        <5> QED
          BY <5>4, <5>5, <5>8, <5>9, <5>10
      <4> QED
        BY <4>1, <4>2
    <3>4. PICK msgs \in Seq(DownMsg), from \in Int :
            /\ to - from \in Nat /\ Len(msgs) = to - from
            /\ \A i \in 1 .. to - from : /\ msgs[i].seq = from + i
                                         /\ msgs[i].type # "welcome"
            /\ ToRead(k)' = <<w>> \o msgs /\ cursor'[k] = from
      BY <3>3
    <3>5. PICK all : all = <<w>> \o msgs
      OBVIOUS
    <3>6. WelcomeFirst(all) /\ Runs(all, from, to)
      BY <2>4, <3>4, <3>5, AfterWelcome
    <3>7. seq' = to /\ ToRead(k)' = all /\ cursor'[k] = from
      BY <2>1, <2>5, <3>4, <3>5
    <3> QED
      BY <3>6, <3>7 DEF WelcomeFirst, Runs, Skip
  <2>8. ASSUME NEW q \in Conn, q # k, peer'[q] = "greeted", ~GivenUp(q)'
        PROVE  WelcomeFirst(ToRead(q))' /\ Runs(ToRead(q), cursor[q], seq)'
    BY <1>2, <2>1, <2>2, <2>8, GivenUpKept
  <2> QED
    BY <2>7, <2>8 DEF Streams
<1>10. ASSUME NEW k \in Conn, SendSnapshot(k) PROVE Streams'
  <2>1. /\ down' = [down EXCEPT ![k] = Delivered(k, held[k])]
        /\ held' = [held EXCEPT ![k] = <<>>]
        /\ UNCHANGED <<seq, peer, conn, online, cursor>>
    BY <1>10 DEF SendSnapshot, roomVars, clientVars, ghostVars
  <2>2. ASSUME peer'[k] = "greeted", ~GivenUp(k)'
        PROVE  WelcomeFirst(ToRead(k))' /\ Runs(ToRead(k), cursor[k], seq)'
    <3>1. peer[k] = "greeted" /\ ~GivenUp(k)
      BY <2>1, <2>2, GivenUpKept
    <3>2. down'[k] = ToRead(k) /\ held'[k] = <<>>
      BY <1>0, <2>1, <3>1 DEF NetTypes, Delivered, ToRead
    <3>3. ToRead(k)' = ToRead(k)
      <4>1. ToRead(k)' = ToRead(k) \o <<>>
        BY <3>2 DEF ToRead
      <4> QED
        BY <1>1, <4>1, ConcatEmptySeq
    <3>4. WelcomeFirst(ToRead(k)) /\ Runs(ToRead(k), cursor[k], seq)
      BY <3>1 DEF Streams
    <3> QED
      BY <2>1, <3>3, <3>4 DEF WelcomeFirst, Runs, Skip
  <2>3. ASSUME NEW q \in Conn, q # k, peer'[q] = "greeted", ~GivenUp(q)'
        PROVE  WelcomeFirst(ToRead(q))' /\ Runs(ToRead(q), cursor[q], seq)'
    <3>1. down'[q] = down[q] /\ held'[q] = held[q]
      BY <1>0, <2>1, <2>3 DEF NetTypes
    <3> QED
      BY <1>2, <2>1, <2>3, <3>1, GivenUpKept
  <2> QED
    BY <2>2, <2>3 DEF Streams
<1>11. ASSUME NEW k \in Conn, Receive(k) PROVE Streams'
  <2>1. /\ \A q \in Conn : peer[q] = "greeted" =>
             \/ /\ held[q] = <<>> /\ held'[q] = <<>>
                /\ down'[q] = Delivered(q, <<Told(q, k, Head(up[k]))>>)
             \/ /\ held'[q] = Append(held[q], Told(q, k, Head(up[k])))
                /\ down'[q] = down[q]
        /\ seq' = seq + 1 /\ UNCHANGED <<peer, conn, online, cursor>>
    BY <1>11 DEF Receive, clientVars
  <2>2. ASSUME NEW q \in Conn, peer'[q] = "greeted", ~GivenUp(q)'
        PROVE  WelcomeFirst(ToRead(q))' /\ Runs(ToRead(q), cursor[q], seq)'
    <3>1. peer[q] = "greeted" /\ ~GivenUp(q)
      BY <2>1, <2>2, GivenUpKept
    <3>2. PICK m \in DownMsg : /\ m = Told(q, k, Head(up[k])) /\ m.seq = seq + 1
                               /\ m.type # "welcome"
      BY <1>0, <1>11, ToldIs
    <3>3. ToRead(q)' = Append(ToRead(q), m)
      <4>1. CASE held[q] = <<>> /\ held'[q] = <<>> /\ down'[q] = down[q] \o <<m>>
        <5>1. ToRead(q) = down[q]
          BY <1>1, <4>1, ConcatEmptySeq DEF ToRead
        <5>2. Append(down[q], m) = down[q] \o <<m>> /\ Append(down[q], m) \in Seq(DownMsg)
          BY <1>1, AppendIsConcat, AppendProperties
        <5>3. ToRead(q)' = Append(down[q], m) \o <<>>
          BY <4>1, <5>2 DEF ToRead
        <5> QED
          BY <5>1, <5>2, <5>3, ConcatEmptySeq
      <4>2. CASE held'[q] = Append(held[q], m) /\ down'[q] = down[q]
        <5>1. PICK d \in Seq(DownMsg), h \in Seq(DownMsg) : d = down[q] /\ h = held[q]
          BY <1>1
        <5>2. d \o Append(h, m) = Append(d \o h, m)
          BY Joined
        <5> QED
          BY <4>2, <5>1, <5>2 DEF ToRead
      <4>3. Delivered(q, <<m>>) = down[q] \o <<m>>
        BY <3>1 DEF Delivered
      <4> QED
        BY <2>1, <3>1, <3>2, <4>1, <4>2, <4>3
    <3>4. WelcomeFirst(ToRead(q)) /\ Runs(ToRead(q), cursor[q], seq)
      BY <3>1 DEF Streams
    <3>5. /\ WelcomeFirst(Append(ToRead(q), m))
          /\ Runs(Append(ToRead(q), m), cursor[q], seq + 1)
      BY <1>1, <3>2, <3>4, RunsOn
    <3> QED
      BY <2>1, <3>3, <3>5 DEF WelcomeFirst, Runs, Skip
  <2> QED
    BY <2>2 DEF Streams
<1>12. ASSUME NEW k \in Conn, ServerClose(k) PROVE Streams'
  <2>1. /\ \A q \in Conn : peer'[q] = "greeted" =>
             peer[q] = "greeted" /\ held'[q] = held[q]
        /\ UNCHANGED <<seq, down, conn, online, cursor>>
    BY <1>0, <1>12 DEF ServerClose, NetTypes, roomVars, clientVars, ghostVars
  <2> QED
    BY <1>2, <2>1, GivenUpKept DEF Streams
<1>13. CASE Reopen
  <2>1. \A q \in Conn : peer'[q] # "greeted"
    BY <1>13 DEF Reopen, OpenPeers
  <2> QED
    BY <2>1 DEF Streams
<1>14. ASSUME UNCHANGED <<seq, down, held, cursor, peer, conn, online>> PROVE Streams'
  BY <1>2, <1>14, GivenUpKept DEF Streams
<1>15. ASSUME NEW c \in Client, LoadRecord(c) \/ LoadDocument(c) \/ Edit(c) \/ Flush(c)
       PROVE  UNCHANGED <<seq, down, held, cursor, peer, conn, online>>
  BY <1>15 DEF LoadRecord, LoadDocument, Edit, Flush, roomVars, netVars,
     ghostVars
<1>16. ASSUME Save \/ Write \/ UNCHANGED vars
       PROVE  UNCHANGED <<seq, down, held, cursor, peer, conn, online>>
  BY <1>16 DEF Save, Write, WriteDocument, WriteRecord, vars, roomVars,
     netVars,
     clientVars, ghostVars
<1> QED
  BY <1>3, <1>5, <1>7, <1>8, <1>9, <1>10, <1>11, <1>12, <1>13, <1>14, <1>15,
     <1>16
     DEF Next, Read, Hear

-----------------------------------------------------------------------------
(* The invariant, and what follows from it.                                 *)

(* The invariant holds at first.                                            *)
LEMMA IInvInit == Init => IInv
<1> SUFFICES ASSUME Init PROVE IInv
  OBVIOUS
<1> USE DEF Init
<1>1. RoomTypes
  BY EmptySeq DEF RoomTypes
<1>2. SaveTypes
  <2>1. DOMAIN versions = {1} /\ versions[1] = 0
    OBVIOUS
  <2>2. disk \in [doc : SUBSET Op, version : Nat]
    OBVIOUS
  <2>3. saving \in Seq([doc : SUBSET Op, seq : Nat])
    BY EmptySeq
  <2>4. dirty \in BOOLEAN /\ wrote \in BOOLEAN
    OBVIOUS
  <2> QED
    BY <2>1, <2>2, <2>3, <2>4 DEF SaveTypes
<1>3. NetTypes
  BY EmptySeq DEF NetTypes
<1>4. TabTypes
  BY DEF TabTypes, Unseen
<1>5. LinkTypes
  BY DEF LinkTypes
<1>6. WorkTypes
  BY EmptySeq DEF WorkTypes
<1>7. GhostTypes
  BY DEF GhostTypes
<1>8. TypeOK
  BY <1>1, <1>2, <1>3, <1>4, <1>5, <1>6, <1>7 DEF TypeOK
<1>9. LogInOrder
  BY DEF LogInOrder
<1>10. Beginning
  BY DEF Beginning
<1>11. Numbered
  BY DEF Numbered
<1>12. OnTheWay
  BY NothingIn DEF OnTheWay
<1>13. NoWorkLost
  <2>1. \A c \in Client : Made(c) = {}
    BY DEF Made, Own, Op
  <2> QED
    BY <2>1 DEF NoWorkLost
<1>14. Streams
  BY DEF Streams
<1> QED
  BY <1>8, <1>9, <1>10, <1>11, <1>12, <1>13, <1>14 DEF IInv

(* Every step keeps the invariant.                                          *)
LEMMA IInvStep == IInv /\ [Next]_vars => IInv'
<1> SUFFICES ASSUME IInv, [Next]_vars PROVE IInv'
  OBVIOUS
<1> USE DEF IInv
<1>1. RoomTypes /\ SaveTypes /\ NetTypes /\ LinkTypes
  BY DEF TypeOK
<1>2. RoomTypes' /\ LogInOrder'
  BY <1>1, LogKept
<1>3. SaveTypes' /\ LinkTypes'
  BY <1>1, SaveTypesKept, LinkTypesKept
<1>4. NetTypes' /\ TabTypes' /\ GhostTypes'
  BY NetTypesKept, TabTypesKept, GhostTypesKept
<1>5. WorkTypes' /\ Numbered'
  BY WorkKept
<1>6. TypeOK'
  BY <1>2, <1>3, <1>4, <1>5 DEF TypeOK
<1>7. Beginning' /\ OnTheWay' /\ NoWorkLost' /\ Streams'
  BY BeginningKept, OnTheWayKept, WorkNotLost, StreamsKept
<1> QED
  BY <1>2, <1>5, <1>6, <1>7

(* So it always holds.                                                      *)
LEMMA IInvAlways == Spec => []IInv
  BY IInvInit, IInvStep, PTL DEF Spec

(* Every variable keeps its type, however batches, connections, saves and   *)
(* openings of the room interleave (LiveSession, Room).                     *)
THEOREM SyncTypes == Spec => []TypeOK
<1>1. IInv => TypeOK
  BY DEF IInv
<1> QED
  BY <1>1, IInvAlways, PTL

(* No change is lost between the editor and the room, however often the     *)
(* connection breaks and the room is opened again (LiveSession.flush, and   *)
(* receive of "welcome" and "ack").                                         *)
THEOREM WorkIsKept == Spec => []NoWorkLost
<1>1. IInv => NoWorkLost
  BY DEF IInv
<1> QED
  BY <1>1, IInvAlways, PTL

(* Whoever is greeted is sent every batch after the one it has, once each   *)
(* and in order, whatever happens while the file is being sent (Room.greet, *)
(* apply, out).                                                             *)
THEOREM StreamsInOrder == Spec => []StreamInOrder
<1>1. ASSUME IInv PROVE StreamInOrder
  <2>1. ASSUME NEW k \in Conn, peer[k] = "greeted", ~GivenUp(k)
        PROVE  StreamNumbers(k) = [i \in 1 .. seq - cursor[k] |-> cursor[k] + i]
    <3>0. PICK all : all = ToRead(k)
      OBVIOUS
    <3>1. PICK n \in Int, from \in Int : n = seq - cursor[k] /\ from = cursor[k]
      BY <1>1 DEF IInv, TypeOK, RoomTypes, GhostTypes
    <3>2. Runs(all, from, seq) /\ seq - from = n
      BY <1>1, <2>1, <3>0, <3>1 DEF IInv, Streams
    <3>3. StreamNumbers(k) = [i \in 1 .. Len(all) - Skip(all) |-> all[i + Skip(all)].seq]
      BY <3>0 DEF StreamNumbers, ToRead, Skip
    <3>4. Len(all) - Skip(all) = n /\ \A i \in 1 .. n : all[i + Skip(all)].seq = from + i
      BY <3>2 DEF Runs
    <3>5. [i \in 1 .. n |-> all[i + Skip(all)].seq] = [i \in 1 .. n |-> from + i]
      BY <3>4
    <3> QED
      BY <3>1, <3>3, <3>4, <3>5
  <2> QED
    BY <2>1 DEF StreamInOrder
<1> QED
  BY <1>1, IInvAlways, PTL

-----------------------------------------------------------------------------
(* What the room held, and what is stored of it.                           *)

(* The documents of the room, batch after batch.                            *)
Past ==
  /\ past[seq] = roomDoc
  /\ \A m, n \in 0 .. seq : m <= n => past[m] \subseteq past[n]
  /\ \A e \in Range(log) :
       e.seq \in 1 .. seq /\ past[e.seq] = Apply(past[e.seq - 1], e.ops)

(* Every step but the opening of another room keeps what the room was.      *)
PastStays == seq' \in Nat /\ seq <= seq' /\ \A n \in 0 .. seq : past'[n] = past[n]

(* Operations take effect in a larger document if they do in a smaller one, *)
(* and nothing else comes into it.                                          *)
LEMMA ApplyGrows ==
  ASSUME NEW d, NEW e, d \subseteq e, NEW ops
  PROVE  /\ Apply(d, ops) \subseteq Apply(e, ops)
         /\ d \subseteq Apply(d, ops)
         /\ Apply(d, ops) \subseteq d \cup Range(ops)
<1>1. Effective(d, ops) \subseteq DOMAIN ops
  BY DEF Effective
<1>2. ASSUME NEW A \in SUBSET DOMAIN ops,
             \A i \in A : Needs[ops[i]] \subseteq d \cup {ops[j] : j \in {j \in A : j < i}}
      PROVE  \A i \in A : Needs[ops[i]] \subseteq e \cup {ops[j] : j \in {j \in A : j < i}}
  BY <1>2
<1>3. Effective(d, ops) \subseteq Effective(e, ops)
  BY <1>2 DEF Effective
<1> QED
  BY <1>1, <1>3 DEF Apply, Range

(* The document and the numbers of the room change when it takes a batch or *)
(* is opened again, and then only.                                          *)
LEMMA RoomSteps ==
  ASSUME [Next]_vars
  PROVE  UNCHANGED roomVars \/ Reopen \/ \E k \in Conn : Receive(k)
<1>3. ASSUME NEW c \in Client, \/ LoadRecord(c) \/ LoadDocument(c) \/ Edit(c)
                               \/ Connect(c) \/ Flush(c) \/ Read(c) \/ ClientClose(c)
      PROVE  UNCHANGED roomVars
  BY <1>3 DEF LoadRecord, LoadDocument, Edit, Connect, Flush, Read, ReadWelcome,
     ReadSnapshot, ReadOps, ReadAck, ClientClose
<1>4. ASSUME NEW k \in Conn, Greet(k) \/ SendSnapshot(k) \/ ServerClose(k)
      PROVE  UNCHANGED roomVars
  BY <1>4 DEF Greet, SendSnapshot, ServerClose
<1>5. ASSUME Save \/ Write \/ UNCHANGED vars
      PROVE  UNCHANGED roomVars
  BY <1>5 DEF Save, Write, WriteDocument, WriteRecord, vars
<1> QED
  BY <1>3, <1>4, <1>5 DEF Next, Hear

(* So every step but the last keeps what the room was.                      *)
LEMMA PastKeeps ==
  ASSUME RoomTypes, [Next]_vars, ~Reopen
  PROVE  PastStays
<1>0. seq \in Nat
  BY DEF RoomTypes
<1>1. ASSUME NEW k \in Conn, Receive(k) PROVE PastStays
  <2>1. seq' = seq + 1 /\ past' = [n \in 0 .. seq + 1 |-> IF n <= seq THEN past[n] ELSE roomDoc']
    BY <1>1 DEF Receive
  <2> QED
    BY <1>0, <2>1 DEF PastStays
<1>2. ASSUME UNCHANGED roomVars PROVE PastStays
  BY <1>0, <1>2 DEF PastStays, roomVars
<1> QED
  BY <1>1, <1>2, RoomSteps

(* What the log keeps was in it, or is the entry just made.                 *)
LEMMA Latest ==
  ASSUME NEW S, NEW s \in Seq(S)
  PROVE  Range(KeepLatest(s)) \subseteq Range(s)
<1>1. PICK n \in Nat : n = Len(s)
  BY LenProperties
<1>2. CASE ~(n > LogLimit)
  BY <1>1, <1>2 DEF KeepLatest
<1>3. CASE n > LogLimit
  <2>1. PICK from \in 1 .. n + 1 : from = n - LogLimit + 1
    <3>1. n - LogLimit + 1 \in 1 .. n + 1
      BY <1>3
    <3> QED
      BY <3>1
  <2>2. KeepLatest(s) = SubSeq(s, from, n)
    BY <1>1, <1>3, <2>1 DEF KeepLatest
  <2>3. \A i \in from .. n : s[i] \in Range(s)
    <3>1. TAKE i \in from .. n
    <3>2. i \in DOMAIN s
      BY <1>1, LenProperties
    <3> QED
      BY <3>2 DEF Range
  <2>4. SubSeq(s, from, n) \in Seq(Range(s))
    BY <2>3, SubSeqProperties
  <2> QED
    BY <2>2, <2>4, InRange
<1> QED
  BY <1>2, <1>3

(* The room goes on from each document it had to the next.                 *)
LEMMA PastKept ==
  ASSUME TypeOK, Past, [Next]_vars
  PROVE  Past'
<1>0. /\ RoomTypes /\ SaveTypes /\ NetTypes
      /\ seq \in Nat /\ past \in [0 .. seq -> SUBSET Op] /\ roomDoc \in SUBSET Op
  BY DEF TypeOK, RoomTypes
<1>1. ASSUME NEW k \in Conn, Receive(k) PROVE Past'
  <2>1. PICK ops \in Seq(Op) : ops = Head(up[k]).ops
    BY <1>0, <1>1, ToldIs
  <2>2. /\ roomDoc' = Apply(roomDoc, ops) /\ seq' = seq + 1
        /\ log' = KeepLatest(Append(log, [seq |-> seq + 1, ops |-> ops]))
        /\ past' = [n \in 0 .. seq + 1 |-> IF n <= seq THEN past[n] ELSE roomDoc']
    BY <1>1, <2>1 DEF Receive
  <2>3. /\ \A n \in 0 .. seq : past'[n] = past[n]
        /\ past'[seq + 1] = Apply(past[seq], ops)
    BY <1>0, <2>2 DEF Past
  <2>4. past[seq] \subseteq past'[seq + 1]
    BY <2>3, ApplyGrows
  <2>5. ASSUME NEW m \in 0 .. seq + 1, NEW n \in 0 .. seq + 1, m <= n
        PROVE  past'[m] \subseteq past'[n]
    <3>1. CASE n <= seq
      <4>1. m \in 0 .. seq /\ n \in 0 .. seq
        BY <1>0, <2>5, <3>1
      <4> QED
        BY <2>3, <2>5, <4>1 DEF Past
    <3>2. CASE n = seq + 1 /\ m <= seq
      <4>1. m \in 0 .. seq /\ seq \in 0 .. seq
        BY <1>0, <3>2
      <4>2. past[m] \subseteq past[seq] /\ past'[m] = past[m]
        BY <2>3, <4>1 DEF Past
      <4> QED
        BY <2>4, <3>2, <4>2
    <3>3. CASE n = seq + 1 /\ m = seq + 1
      BY <3>3
    <3> QED
      BY <1>0, <2>5, <3>1, <3>2, <3>3
  <2>6. ASSUME NEW e \in Range(log')
        PROVE  e.seq \in 1 .. seq + 1 /\ past'[e.seq] = Apply(past'[e.seq - 1], e.ops)
    <3> DEFINE Entry == [seq : Nat, ops : Seq(Op)]
               entry == [seq |-> seq + 1, ops |-> ops]
    <3>1. entry \in Entry /\ log \in Seq(Entry)
      BY <1>0 DEF RoomTypes
    <3>2. e \in Range(log) \/ e = entry
      <4> HIDE DEF Entry
      <4>1. Append(log, entry) \in Seq(Entry) /\ Range(Append(log, entry)) = Range(log) \cup {entry}
        BY <3>1, Appended
      <4> QED
        BY <2>2, <2>6, <4>1, Latest
    <3>3. CASE e \in Range(log)
      <4>1. e.seq \in 1 .. seq /\ past[e.seq] = Apply(past[e.seq - 1], e.ops)
        BY <3>3 DEF Past
      <4>2. PICK n \in 1 .. seq : n = e.seq
        BY <4>1
      <4>3. n \in 0 .. seq /\ n - 1 \in 0 .. seq /\ n \in 1 .. seq + 1
        BY <1>0
      <4> QED
        BY <2>3, <4>1, <4>2, <4>3
    <3>4. CASE e = entry
      <4>1. e.seq = seq + 1 /\ e.ops = ops /\ (seq + 1) - 1 = seq /\ seq \in 0 .. seq
        BY <1>0, <3>4
      <4> QED
        BY <1>0, <2>3, <4>1
    <3> QED
      BY <3>2, <3>3, <3>4
  <2>7. past'[seq + 1] = roomDoc'
    BY <1>0, <2>2
  <2> QED
    BY <2>2, <2>5, <2>6, <2>7 DEF Past
<1>2. CASE Reopen
  <2>1. seq' = 0 /\ roomDoc' = disk.doc /\ log' = <<>> /\ past' = [n \in 0 .. 0 |-> disk.doc]
    BY <1>2 DEF Reopen
  <2>2. \A m, n \in 0 .. 0 : past'[m] = past'[n]
    BY <2>1
  <2>3. Range(log') = {}
    BY <2>1, NothingIn
  <2>4. past'[0] = roomDoc'
    BY <2>1
  <2> QED
    BY <2>1, <2>2, <2>3, <2>4 DEF Past
<1>3. CASE UNCHANGED roomVars
  BY <1>3 DEF roomVars, Past
<1> QED
  BY <1>1, <1>2, <1>3, RoomSteps

(* The batch the stored document contains up to.                            *)
OnDisk == IF wrote THEN Head(saving).seq ELSE versions[disk.version]

(* What is stored, what is being saved, and what the versions are said to   *)
(* contain are documents of the room, in order.                             *)
Stored ==
  /\ wrote => saving # <<>>
  /\ disk.version \in DOMAIN versions
  /\ OnDisk \in 0 .. seq /\ disk.doc = past[OnDisk]
  /\ \A v \in DOMAIN versions : v <= disk.version /\ versions[v] <= OnDisk
  /\ \A i \in 1 .. Len(saving) :
       /\ saving[i].seq \in OnDisk .. seq /\ saving[i].doc = past[saving[i].seq]
       /\ \A j \in 1 .. i : saving[j].seq <= saving[i].seq

(* Only saving, and the opening of a room, changes what is saved.          *)
LEMMA SavingSteps ==
  ASSUME [Next]_vars
  PROVE  UNCHANGED <<versions, saving, wrote, disk>> \/ Save \/ Write \/ Reopen
<1>3. ASSUME NEW c \in Client, \/ LoadRecord(c) \/ LoadDocument(c) \/ Edit(c)
                               \/ Connect(c) \/ Flush(c) \/ Read(c) \/ ClientClose(c)
      PROVE  UNCHANGED saveVars
  BY <1>3 DEF LoadRecord, LoadDocument, Edit, Connect, Flush, Read, ReadWelcome,
     ReadSnapshot, ReadOps, ReadAck, ClientClose
<1>4. ASSUME NEW k \in Conn, Greet(k) \/ SendSnapshot(k) \/ ServerClose(k)
      PROVE  UNCHANGED saveVars
  BY <1>4 DEF Greet, SendSnapshot, ServerClose
<1>5. ASSUME UNCHANGED vars
      PROVE  UNCHANGED saveVars
  BY <1>5 DEF vars
<1>6. ASSUME NEW k \in Conn, Receive(k)
      PROVE  UNCHANGED <<versions, saving, wrote, disk>>
  BY <1>6 DEF Receive
<1> QED
  BY <1>3, <1>4, <1>5, <1>6 DEF Next, Hear, saveVars

(* What is stored stays one of the documents the room had.                 *)
LEMMA StoredKept ==
  ASSUME TypeOK, Past, Stored, [Next]_vars
  PROVE  Stored'
<1>0. /\ RoomTypes /\ SaveTypes /\ seq \in Nat
      /\ past \in [0 .. seq -> SUBSET Op] /\ roomDoc \in SUBSET Op
      /\ DOMAIN versions \subseteq Nat /\ \A v \in DOMAIN versions : versions[v] \in Nat
      /\ wrote \in BOOLEAN /\ saving \in Seq([doc : SUBSET Op, seq : Nat])
      /\ disk \in [doc : SUBSET Op, version : Nat]
  BY DEF TypeOK, RoomTypes, SaveTypes
<1>1. ASSUME UNCHANGED <<versions, saving, wrote, disk>>, PastStays PROVE Stored'
  <2>1. OnDisk' = OnDisk
    BY <1>1 DEF OnDisk
  <2>2. seq' \in Nat /\ seq <= seq' /\ \A n \in 0 .. seq : past'[n] = past[n]
    BY <1>1 DEF PastStays
  <2>3. ASSUME NEW i \in 1 .. Len(saving)
        PROVE  /\ saving[i].seq \in OnDisk .. seq' /\ saving[i].doc = past'[saving[i].seq]
               /\ \A j \in 1 .. i : saving[j].seq <= saving[i].seq
    <3>1. /\ OnDisk \in 0 .. seq
          /\ saving[i].seq \in OnDisk .. seq /\ saving[i].doc = past[saving[i].seq]
          /\ \A j \in 1 .. i : saving[j].seq <= saving[i].seq
      BY DEF Stored
    <3>2. PICK n \in Nat, from \in Nat : n = saving[i].seq /\ from = OnDisk /\ from <= n /\ n <= seq
      BY <1>0, <3>1
    <3>3. n \in from .. seq' /\ past'[n] = past[n]
      BY <1>0, <2>2, <3>2
    <3> QED
      BY <3>1, <3>2, <3>3
  <2>4. OnDisk \in 0 .. seq' /\ disk.doc = past'[OnDisk]
    <3>1. OnDisk \in 0 .. seq /\ disk.doc = past[OnDisk]
      BY DEF Stored
    <3>2. PICK n \in 0 .. seq : n = OnDisk
      BY <3>1
    <3>3. n \in 0 .. seq' /\ past'[n] = past[n]
      BY <1>0, <2>2
    <3> QED
      BY <3>1, <3>2, <3>3
  <2>5. /\ wrote => saving # <<>>
        /\ disk.version \in DOMAIN versions
        /\ \A v \in DOMAIN versions : v <= disk.version /\ versions[v] <= OnDisk
    BY DEF Stored
  <2>6. /\ versions' = versions /\ saving' = saving /\ wrote' = wrote /\ disk' = disk
    BY <1>1
  <2> HIDE DEF OnDisk
  <2> QED
    BY <2>1, <2>3, <2>4, <2>5, <2>6, Zenon DEF Stored
<1>2. CASE Save
  <2> DEFINE Entry == [doc : SUBSET Op, seq : Nat]
             entry == [doc |-> roomDoc, seq |-> seq]
  <2>1. saving' = Append(saving, entry) /\ UNCHANGED <<versions, wrote, disk, past, seq>>
    BY <1>2 DEF Save, roomVars
  <2>2. entry \in Entry /\ entry.seq = seq /\ entry.doc = past[seq]
    BY <1>0 DEF Past
  <2>3. PICK n \in Nat : n = Len(saving)
    BY <1>0, LenProperties
  <2>4. /\ Len(saving') = n + 1 /\ \A i \in 1 .. n : saving'[i] = saving[i]
        /\ saving'[n + 1] = entry /\ saving' # <<>>
    BY <1>0, <2>1, <2>2, <2>3, AppendProperties
  <2> HIDE DEF entry
  <2>5. OnDisk' = OnDisk
    <3>1. CASE wrote
      <4>1. saving # <<>>
        BY <3>1 DEF Stored
      <4>2. Head(saving') = Head(saving)
        BY <1>0, <2>3, <2>4, <4>1, EmptySeq
      <4> QED
        BY <2>1, <3>1, <4>2 DEF OnDisk
    <3>2. CASE ~wrote
      BY <2>1, <3>2 DEF OnDisk
    <3> QED
      BY <3>1, <3>2
  <2>6. ASSUME NEW i \in 1 .. n + 1
        PROVE  /\ saving'[i].seq \in OnDisk .. seq /\ saving'[i].doc = past[saving'[i].seq]
               /\ \A j \in 1 .. i : saving'[j].seq <= saving'[i].seq
    <3>1. CASE i \in 1 .. n
      <4>1. \A j \in 1 .. i : j \in 1 .. n /\ saving'[j] = saving[j]
        BY <2>3, <2>4, <3>1
      <4>2. saving'[i] = saving[i]
        BY <2>4, <3>1
      <4>3. /\ saving[i].seq \in OnDisk .. seq /\ saving[i].doc = past[saving[i].seq]
            /\ \A j \in 1 .. i : saving[j].seq <= saving[i].seq
        BY <2>3, <3>1 DEF Stored
      <4> QED
        BY <4>1, <4>2, <4>3
    <3>2. CASE i = n + 1
      <4>1. OnDisk <= seq /\ OnDisk \in Int
        BY DEF Stored
      <4>2. ASSUME NEW j \in 1 .. n PROVE saving'[j].seq <= seq
        BY <1>0, <2>3, <2>4 DEF Stored
      <4> QED
        BY <1>0, <2>2, <2>4, <3>2, <4>1, <4>2
    <3> QED
      BY <3>1, <3>2
  <2> QED
    BY <1>0, <2>1, <2>3, <2>4, <2>5, <2>6 DEF Stored
<1>3. CASE WriteDocument
  <2>1. /\ saving # <<>> /\ ~wrote /\ wrote' = TRUE /\ UNCHANGED <<versions, saving, past, seq>>
        /\ disk' = [disk EXCEPT !.doc = Head(saving).doc]
    BY <1>3 DEF WriteDocument, roomVars
  <2>2. PICK first : first = saving[1]
    OBVIOUS
  <2>3. Head(saving) = first /\ 1 \in 1 .. Len(saving)
    BY <1>0, <2>1, <2>2, EmptySeq
  <2>4. first.seq \in OnDisk .. seq /\ first.doc = past[first.seq] /\ OnDisk \in Nat
    BY <2>2, <2>3 DEF Stored
  <2>5. OnDisk' = first.seq /\ disk'.doc = first.doc /\ disk'.version = disk.version
    BY <1>0, <2>1, <2>3 DEF OnDisk
  <2>6. ASSUME NEW v \in DOMAIN versions PROVE v <= disk.version /\ versions[v] <= first.seq
    BY <1>0, <2>4 DEF Stored
  <2>7. ASSUME NEW i \in 1 .. Len(saving) PROVE saving[i].seq \in first.seq .. seq
    BY <1>0, <2>2, <2>4 DEF Stored
  <2> QED
    BY <2>1, <2>4, <2>5, <2>6, <2>7 DEF Stored
<1>4. CASE WriteRecord
  <2>1. /\ saving # <<>> /\ wrote /\ wrote' = FALSE /\ UNCHANGED <<past, seq>>
        /\ disk' = [disk EXCEPT !.version = disk.version + 1]
        /\ saving' = Tail(saving)
        /\ versions' = [v \in DOMAIN versions \cup {disk.version + 1} |->
                         IF v = disk.version + 1 THEN Head(saving).seq ELSE versions[v]]
    BY <1>4 DEF WriteRecord, roomVars
  <2>2. PICK n \in Nat : n = Len(saving) /\ n # 0
    BY <1>0, <2>1, EmptySeq
  <2>3. Len(saving') = n - 1 /\ \A i \in 1 .. n - 1 : saving'[i] = saving[i + 1]
    BY <1>0, <2>1, <2>2, HeadTailProperties
  <2>4. /\ disk'.version = disk.version + 1 /\ disk'.doc = disk.doc
        /\ disk.version + 1 \in DOMAIN versions'
        /\ OnDisk' = Head(saving).seq /\ OnDisk = Head(saving).seq
    BY <1>0, <2>1 DEF OnDisk
  <2>5. ASSUME NEW v \in DOMAIN versions' PROVE v <= disk.version + 1 /\ versions'[v] <= OnDisk
    <3>1. CASE v = disk.version + 1
      BY <1>0, <2>1, <2>4, <3>1 DEF Stored
    <3>2. CASE v # disk.version + 1
      <4>1. v \in DOMAIN versions /\ versions'[v] = versions[v]
        BY <2>1, <3>2
      <4> QED
        BY <1>0, <4>1 DEF Stored
    <3> QED
      BY <3>1, <3>2
  <2>6. ASSUME NEW i \in 1 .. n - 1
        PROVE  /\ saving'[i].seq \in OnDisk .. seq /\ saving'[i].doc = past[saving'[i].seq]
               /\ \A j \in 1 .. i : saving'[j].seq <= saving'[i].seq
    <3>1. i + 1 \in 1 .. n /\ saving'[i] = saving[i + 1]
      BY <2>3
    <3>2. ASSUME NEW j \in 1 .. i PROVE saving'[j] = saving[j + 1] /\ j + 1 \in 1 .. i + 1
      BY <2>3
    <3> QED
      BY <2>2, <3>1, <3>2 DEF Stored
  <2> QED
    BY <2>1, <2>3, <2>4, <2>5, <2>6 DEF Stored
<1>5. CASE Reopen
  <2>1. /\ saving = <<>> /\ UNCHANGED <<saving, wrote, disk>>
        /\ versions' = [v \in {disk.version} |-> 0]
        /\ seq' = 0 /\ past' = [n \in 0 .. 0 |-> disk.doc]
    BY <1>5 DEF Reopen
  <2>2. ~wrote
    BY <2>1 DEF Stored
  <2>3. OnDisk' = 0
    BY <2>1, <2>2 DEF OnDisk
  <2>4. past'[0] = disk.doc /\ 0 \in 0 .. 0
    BY <2>1
  <2>5. Len(saving') = 0
    BY <2>1
  <2> QED
    BY <1>0, <2>1, <2>2, <2>3, <2>4, <2>5 DEF Stored
<1>6. CASE ~Reopen /\ UNCHANGED <<versions, saving, wrote, disk>>
  BY <1>0, <1>1, <1>6, PastKeeps
<1> QED
  BY <1>2, <1>3, <1>4, <1>5, <1>6, SavingSteps DEF Write

-----------------------------------------------------------------------------
(* What a client shows of its own work.                                    *)

(* A client that has not loaded the file has nothing to send and was told   *)
(* nothing; the version it loads is not newer than the stored one.          *)
Loaded ==
  \A c \in Client :
    /\ load[c] # "ready" => /\ outbox[c] = <<>> /\ DOMAIN unacked[c] = {}
                            /\ clientSeq[c] = Unseen /\ ~online[c]
    /\ load[c] # "new" => version[c] <= disk.version

(* A client shows its own work, but for what a snapshot came without.       *)
Shown == \A c \in Client : ~dropped[c] => Pending(c) \subseteq doc[c]

(* The work that client c keeps in batch id and those after.                *)
KeptFrom(c, id) == UNION {Range(unacked[c][i]) : i \in {i \in DOMAIN unacked[c] : i >= id}}

(* What a step does to a client depends on whose step it is.                *)
ClientStep(c) ==
  \/ LoadRecord(c) \/ LoadDocument(c) \/ Edit(c) \/ Connect(c) \/ Flush(c)
  \/ Read(c) \/ ClientClose(c)

(* Nothing about client c changes, but that a gap may open.                *)
Untouched(c) ==
  /\ load'[c] = load[c] /\ doc'[c] = doc[c] /\ version'[c] = version[c]
  /\ clientSeq'[c] = clientSeq[c] /\ outbox'[c] = outbox[c]
  /\ unacked'[c] = unacked[c] /\ nextBatch'[c] = nextBatch[c]
  /\ conn'[c] = conn[c] /\ online'[c] = online[c] /\ dropped'[c] = dropped[c]
  /\ gap[c] => gap'[c]

(* A step of one client leaves the others untouched.                       *)
LEMMA OthersUntouched ==
  ASSUME TypeOK, NEW a \in Client, ClientStep(a), NEW c \in Client, c # a
  PROVE  Untouched(c)
<1>0. TabTypes /\ LinkTypes /\ WorkTypes /\ GhostTypes
  BY DEF TypeOK
<1>1. CASE LoadRecord(a) \/ LoadDocument(a) \/ Edit(a) \/ Connect(a) \/ ClientClose(a)
  BY <1>0, <1>1 DEF LoadRecord, LoadDocument, Edit, Connect, ClientClose, Untouched,
     TabTypes, LinkTypes, WorkTypes, GhostTypes, ghostVars
<1>2. ASSUME NEW kept, NEW ops, Send(a, kept, ops)
      PROVE  /\ outbox'[c] = outbox[c] /\ unacked'[c] = unacked[c]
             /\ nextBatch'[c] = nextBatch[c]
  BY <1>0, <1>2 DEF Send, WorkTypes
<1>3. CASE Flush(a)
  BY <1>2, <1>3 DEF Flush, Untouched, ghostVars
<1>4. CASE ReadWelcome(a)
  <2>1. clientSeq'[c] = clientSeq[c]
    BY <1>0, <1>4 DEF ReadWelcome, TabTypes
  <2>2. /\ outbox'[c] = outbox[c] /\ unacked'[c] = unacked[c]
        /\ nextBatch'[c] = nextBatch[c]
    BY <1>2, <1>4 DEF ReadWelcome
  <2> QED
    BY <1>4, <2>1, <2>2 DEF ReadWelcome, Untouched, ghostVars
<1>5. CASE ReadSnapshot(a) \/ ReadOps(a) \/ ReadAck(a)
  <2>1. doc'[c] = doc[c] /\ clientSeq'[c] = clientSeq[c] /\ unacked'[c] = unacked[c]
    BY <1>0, <1>5 DEF ReadSnapshot, ReadOps, ReadAck, TabTypes, WorkTypes
  <2>2. gap'[c] = gap[c] /\ dropped'[c] = dropped[c]
    BY <1>0, <1>5 DEF ReadSnapshot, ReadOps, ReadAck, GhostTypes
  <2>3. UNCHANGED <<load, version, outbox, nextBatch, conn, online>>
    BY <1>5 DEF ReadSnapshot, ReadOps, ReadAck
  <2> QED
    BY <2>1, <2>2, <2>3 DEF Untouched
<1> QED
  BY <1>1, <1>3, <1>4, <1>5 DEF ClientStep, Read

(* So does a step of the room.                                             *)
LEMMA ServerUntouched ==
  ASSUME TypeOK, [Next]_vars, NEW c \in Client, \A a \in Client : ~ClientStep(a)
  PROVE  Untouched(c)
<1>1. ASSUME NEW k \in Conn, Greet(k) \/ Receive(k) \/ SendSnapshot(k) \/ ServerClose(k)
      PROVE  UNCHANGED <<clientVars, gap, dropped>>
  BY <1>1 DEF Greet, Receive, SendSnapshot, ServerClose, ghostVars
<1>2. ASSUME Save \/ Write \/ UNCHANGED vars
      PROVE  UNCHANGED <<clientVars, gap, dropped>>
  BY <1>2 DEF Save, Write, WriteDocument, WriteRecord, vars, ghostVars
<1>3. CASE Reopen
  <2>1. UNCHANGED <<clientVars, dropped>> /\ (gap[c] => gap'[c])
    BY <1>3 DEF Reopen
  <2> QED
    BY <2>1 DEF clientVars, Untouched
<1>4. CASE UNCHANGED <<clientVars, gap, dropped>>
  BY <1>4 DEF clientVars, Untouched
<1> QED
  BY <1>1, <1>2, <1>3, <1>4 DEF Next, Hear, ClientStep

(* So a step leaves a client alone, or is its own.                          *)
LEMMA ClientSteps ==
  ASSUME TypeOK, [Next]_vars, NEW c \in Client
  PROVE  ClientStep(c) \/ Untouched(c)
  BY OthersUntouched, ServerUntouched

(* A page that is still loading has done nothing.                          *)
LEMMA LoadedKept ==
  ASSUME TypeOK, Stored, Loaded, [Next]_vars
  PROVE  Loaded'
<1>0. TabTypes /\ LinkTypes /\ WorkTypes /\ GhostTypes /\ SaveTypes
  BY DEF TypeOK
<1>1. disk'.version \in Nat /\ disk.version <= disk'.version
  <2>1. CASE WriteRecord
    BY <1>0, <2>1 DEF WriteRecord, SaveTypes
  <2>2. CASE WriteDocument
    BY <1>0, <2>2 DEF WriteDocument, SaveTypes
  <2>3. CASE Save \/ Reopen
    BY <1>0, <2>3 DEF Save, Reopen, SaveTypes
  <2> QED
    BY <1>0, <2>1, <2>2, <2>3, SavingSteps DEF Write, SaveTypes
<1>2. ASSUME NEW c \in Client
      PROVE  /\ load'[c] # "ready" => /\ outbox'[c] = <<>> /\ DOMAIN unacked'[c] = {}
                                      /\ clientSeq'[c] = Unseen /\ ~online'[c]
             /\ load'[c] # "new" => version'[c] <= disk'.version
  <2>0. /\ load[c] # "ready" => /\ outbox[c] = <<>> /\ DOMAIN unacked[c] = {}
                                /\ clientSeq[c] = Unseen /\ ~online[c]
        /\ load[c] # "new" => version[c] <= disk.version
        /\ version[c] \in Nat /\ disk.version \in Nat
    BY <1>0 DEF Loaded, TabTypes, SaveTypes
  <2>1. CASE Untouched(c)
    BY <1>1, <2>0, <2>1 DEF Untouched
  <2>2. CASE LoadRecord(c)
    BY <1>0, <2>0, <2>2 DEF LoadRecord, TabTypes, saveVars
  <2>3. CASE LoadDocument(c)
    BY <1>0, <2>0, <2>3 DEF LoadDocument, TabTypes, saveVars
  <2>4. CASE Edit(c) \/ Connect(c) \/ Flush(c) \/ Read(c) \/ ClientClose(c)
    <3>1. load[c] = "ready"
      <4>1. load[c] = "ready" \/ online[c]
        BY <2>4 DEF Edit, Connect, Flush, Read, ReadWelcome, ReadSnapshot, ReadOps, ReadAck,
           Reads, ClientClose
      <4> QED
        BY <2>0, <4>1
    <3>2. UNCHANGED <<load, version>>
      BY <2>4 DEF Edit, Connect, Flush, Read, ReadWelcome, ReadSnapshot, ReadOps, ReadAck,
           ClientClose
    <3> QED
      BY <1>1, <2>0, <3>1, <3>2
  <2> QED
    BY <2>1, <2>2, <2>3, <2>4, ClientSteps DEF ClientStep
<1> QED
  BY <1>2 DEF Loaded

(* What is sent is kept, after the batches kept before; taking all back     *)
(* puts it into the one batch that is kept.                                 *)
LEMMA SentIsKept ==
  ASSUME WorkTypes, Numbered, NEW c \in Client, NEW kept \in SUBSET DOMAIN unacked[c],
         NEW ops \in Seq(Op), Send(c, kept, ops), Range(ops) \subseteq Pending(c),
         kept = DOMAIN unacked[c] \/ Range(ops) = Pending(c),
         NEW id \in Nat, id <= nextBatch[c] + 1
  PROVE  /\ Pending(c)' \subseteq Pending(c)
         /\ KeptFrom(c, id) \subseteq KeptFrom(c, id)'
         /\ Range(ops) \subseteq KeptFrom(c, id)'
<1>1. PICK n \in Nat : n = nextBatch[c]
  BY DEF WorkTypes
<1>2. /\ outbox'[c] = <<>>
      /\ DOMAIN unacked'[c] = kept \cup {n + 1}
      /\ unacked'[c][n + 1] = ops
      /\ \A i \in kept : unacked'[c][i] = unacked[c][i]
  <2>1. /\ outbox' = [outbox EXCEPT ![c] = <<>>]
        /\ DOMAIN unacked'[c] = kept \cup {n + 1}
        /\ unacked'[c][n + 1] = ops
        /\ \A i \in kept : unacked'[c][i] = unacked[c][i]
    BY <1>1, SendIs
  <2> QED
    BY <2>1 DEF WorkTypes
<1>3. Pending(c)' \subseteq Pending(c)
  <2>1. Range(outbox'[c]) = {}
    BY <1>2, NothingIn
  <2>2. ASSUME NEW i \in DOMAIN unacked'[c] PROVE Range(unacked'[c][i]) \subseteq Pending(c)
    <3>1. CASE i = n + 1
      BY <1>2, <3>1
    <3>2. CASE i \in kept
      BY <1>2, <3>2 DEF Pending
    <3> QED
      BY <1>2, <3>1, <3>2
  <2> QED
    BY <2>1, <2>2 DEF Pending
<1>4. Range(ops) \subseteq KeptFrom(c, id)'
  <2>1. n + 1 \in DOMAIN unacked'[c] /\ n + 1 >= id
    BY <1>1, <1>2
  <2> QED
    BY <1>2, <2>1 DEF KeptFrom
<1>5. CASE Range(ops) = Pending(c)
  <2>1. KeptFrom(c, id) \subseteq Pending(c)
    BY DEF KeptFrom, Pending
  <2> QED
    BY <1>3, <1>4, <1>5, <2>1
<1>6. CASE kept = DOMAIN unacked[c]
  <2>1. \A i \in DOMAIN unacked[c] : i \in DOMAIN unacked'[c] /\ unacked'[c][i] = unacked[c][i]
    BY <1>2, <1>6
  <2>2. KeptFrom(c, id) \subseteq KeptFrom(c, id)'
    BY <2>1 DEF KeptFrom
  <2> QED
    BY <1>3, <1>4, <2>2
<1> QED
  BY <1>5, <1>6

(* A client goes on keeping what it kept, until it is confirmed.            *)
LEMMA KeptOn ==
  ASSUME TypeOK, Numbered, [Next]_vars, NEW c \in Client,
         NEW id \in Nat, id <= nextBatch[c],
         ReadAck(c) => id > Head(down[Current(c)]).id
  PROVE  KeptFrom(c, id) \subseteq KeptFrom(c, id)'
<1>0. TabTypes /\ LinkTypes /\ WorkTypes /\ NetTypes
  BY DEF TypeOK
<1>1. CASE unacked'[c] = unacked[c]
  BY <1>1 DEF KeptFrom
<1>2. CASE Flush(c)
  <2>1. Send(c, DOMAIN unacked[c], outbox[c]) /\ outbox[c] \in Seq(Op)
    BY <1>0, <1>2 DEF Flush, WorkTypes
  <2>2. Range(outbox[c]) \subseteq Pending(c) /\ id <= nextBatch[c] + 1
    BY <1>0 DEF Pending, WorkTypes
  <2> QED
    BY <1>0, <2>1, <2>2, SentIsKept
<1>3. CASE ReadWelcome(c) /\ unacked'[c] # unacked[c]
  <2>1. Send(c, {}, TakenBack(c))
    BY <1>3 DEF ReadWelcome
  <2>2. TakenBack(c) \in Seq(Op) /\ Range(TakenBack(c)) = Pending(c)
    BY TakenBackIs
  <2>3. id <= nextBatch[c] + 1
    BY <1>0 DEF WorkTypes
  <2> QED
    BY <1>0, <2>1, <2>2, <2>3, SentIsKept
<1>4. CASE ReadAck(c)
  <2>1. PICK acked \in Nat : acked = Head(down[Current(c)]).id
    <3>1. Reads(c, "ack")
      BY <1>4 DEF ReadAck
    <3> QED
      BY <1>0, <3>1, ReadIs, Messages
  <2>2. unacked' = [unacked EXCEPT ![c] = [i \in DOMAIN unacked[c] \ {acked} |-> unacked[c][i]]]
    BY <1>4, <2>1 DEF ReadAck
  <2>3. unacked'[c] = [i \in DOMAIN unacked[c] \ {acked} |-> unacked[c][i]]
    BY <1>0, <2>2 DEF WorkTypes
  <2>4. \A i \in DOMAIN unacked[c] : i >= id => i # acked
    BY <1>0, <1>4, <2>1 DEF WorkTypes
  <2>5. \A i \in DOMAIN unacked[c] : i >= id => i \in DOMAIN unacked'[c] /\ unacked'[c][i] = unacked[c][i]
    BY <2>3, <2>4
  <2> QED
    BY <2>5 DEF KeptFrom
<1>5. CASE ClientStep(c) /\ ~Flush(c) /\ ~ReadWelcome(c) /\ ~ReadAck(c)
  <2>1. UNCHANGED unacked
    BY <1>5 DEF ClientStep, LoadRecord, LoadDocument, Edit, Connect, ClientClose, Read,
       ReadSnapshot, ReadOps
  <2> QED
    BY <1>1, <2>1
<1> QED
  BY <1>1, <1>2, <1>3, <1>4, <1>5, ClientSteps DEF Untouched

(* A client goes on showing its own work.                                  *)
LEMMA ShownKept ==
  ASSUME TypeOK, Numbered, Loaded, Shown, [Next]_vars
  PROVE  Shown'
<1>0. TabTypes /\ LinkTypes /\ WorkTypes /\ GhostTypes /\ SaveTypes /\ NetTypes
  BY DEF TypeOK
<1>1. ASSUME NEW c \in Client, ~dropped'[c]
      PROVE  Pending(c)' \subseteq doc'[c]
  <2>1. CASE Untouched(c)
    BY <1>1, <2>1 DEF Shown, Untouched, Pending
  <2>2. ASSUME dropped'[c] = dropped[c], doc[c] \subseteq doc'[c],
               Pending(c)' \subseteq Pending(c)
        PROVE  Pending(c)' \subseteq doc'[c]
    BY <1>1, <2>2 DEF Shown
  <2>3. CASE LoadRecord(c) \/ Connect(c) \/ ClientClose(c)
    <3>1. UNCHANGED <<dropped, doc, outbox, unacked>>
      BY <2>3 DEF LoadRecord, Connect, ClientClose, ghostVars
    <3> QED
      BY <2>2, <3>1 DEF Pending
  <2>4. CASE LoadDocument(c)
    <3>1. outbox[c] = <<>> /\ DOMAIN unacked[c] = {}
      BY <2>4 DEF LoadDocument, Loaded
    <3>2. Pending(c)' = {}
      BY <2>4, <3>1, NothingIn DEF LoadDocument, Pending
    <3> QED
      BY <3>2
  <2>5. CASE Edit(c)
    <3>1. PICK op : op = <<c, made[c] + 1>>
      OBVIOUS
    <3>2. /\ doc'[c] = doc[c] \cup {op}
          /\ outbox'[c] = Append(outbox[c], op)
          /\ UNCHANGED <<dropped, unacked>>
      BY <1>0, <2>5, <3>1 DEF Edit, ghostVars, TabTypes, WorkTypes
    <3>3. op \in Op /\ outbox[c] \in Seq(Op)
      <4>1. made[c] + 1 \in 1 .. Quota[c]
        BY <1>0, <2>5 DEF Edit, TabTypes
      <4> QED
        BY <1>0, <3>1, <4>1, Names DEF WorkTypes
    <3>4. Range(outbox'[c]) = Range(outbox[c]) \cup {op}
      BY <3>2, <3>3, Appended
    <3>5. Pending(c)' = Pending(c) \cup {op}
      BY <3>2, <3>4 DEF Pending
    <3> QED
      BY <1>1, <3>2, <3>5 DEF Shown
  <2>6. CASE Flush(c)
    <3>1. Send(c, DOMAIN unacked[c], outbox[c]) /\ outbox[c] \in Seq(Op)
          /\ UNCHANGED <<doc, dropped>> /\ 0 <= nextBatch[c] + 1
      BY <1>0, <2>6 DEF Flush, WorkTypes, ghostVars
    <3>2. Range(outbox[c]) \subseteq Pending(c)
      BY <1>0 DEF Pending, WorkTypes
    <3>3. Pending(c)' \subseteq Pending(c)
      BY <1>0, <3>1, <3>2, SentIsKept
    <3> QED
      BY <2>2, <3>1, <3>3
  <2>7. CASE ReadWelcome(c)
    <3>1. UNCHANGED <<doc, dropped>> /\ 0 <= nextBatch[c] + 1
          /\ (Send(c, {}, TakenBack(c)) \/ UNCHANGED <<outbox, unacked>>)
      BY <1>0, <2>7 DEF ReadWelcome, WorkTypes, ghostVars
    <3>2. TakenBack(c) \in Seq(Op) /\ Range(TakenBack(c)) = Pending(c)
      BY TakenBackIs
    <3>3. Send(c, {}, TakenBack(c)) => Pending(c)' \subseteq Pending(c)
      BY <1>0, <3>1, <3>2, SentIsKept
    <3>4. UNCHANGED <<outbox, unacked>> => Pending(c)' = Pending(c)
      BY DEF Pending
    <3> QED
      BY <2>2, <3>1, <3>3, <3>4
  <2>8. CASE ReadSnapshot(c)
    <3>1. dropped'[c] = ~(Pending(c) \subseteq doc'[c])
      BY <1>0, <2>8 DEF ReadSnapshot, GhostTypes
    <3>2. Pending(c)' = Pending(c)
      BY <2>8 DEF ReadSnapshot, Pending
    <3> QED
      BY <1>1, <3>1, <3>2
  <2>9. CASE ReadOps(c)
    <3>1. PICK ops : doc' = [doc EXCEPT ![c] = Apply(doc[c], ops)]
      BY <2>9 DEF ReadOps
    <3>2. doc[c] \subseteq doc'[c]
      BY <1>0, <3>1, ApplyGrows DEF TabTypes
    <3>3. UNCHANGED <<dropped, outbox, unacked>>
      BY <2>9 DEF ReadOps
    <3> QED
      BY <2>2, <3>2, <3>3 DEF Pending
  <2>10. CASE ReadAck(c)
    <3>1. PICK acked : unacked' = [unacked EXCEPT ![c] = [i \in DOMAIN unacked[c] \ {acked} |-> unacked[c][i]]]
      BY <2>10 DEF ReadAck
    <3>2. unacked'[c] = [i \in DOMAIN unacked[c] \ {acked} |-> unacked[c][i]]
      BY <1>0, <3>1 DEF WorkTypes
    <3>3. \A i \in DOMAIN unacked'[c] : i \in DOMAIN unacked[c] /\ unacked'[c][i] = unacked[c][i]
      BY <3>2
    <3>4. UNCHANGED <<dropped, doc, outbox>>
      BY <2>10 DEF ReadAck
    <3>5. Pending(c)' \subseteq Pending(c)
      BY <3>3, <3>4 DEF Pending
    <3> QED
      BY <2>2, <3>4, <3>5
  <2> QED
    BY <2>1, <2>3, <2>4, <2>5, <2>6, <2>7, <2>8, <2>9, <2>10, ClientSteps DEF ClientStep, Read
<1> QED
  BY <1>1 DEF Shown

-----------------------------------------------------------------------------
(* What a step does to a connection, and the order of what is to be read.  *)

(* The connection a client uses, once the room has greeted it.             *)
InUse(k) == ~GivenUp(k) /\ peer[k] \in {"greeted", "closed"}

(* What a step does to the messages a client has still to read.             *)
Quiet(k) ==
  /\ InUse(k) /\ peer'[k] = peer[k]
  /\ ToRead(k)' = ToRead(k) /\ cursor'[k] = cursor[k]

ReadsNext(k) ==
  /\ InUse(k) /\ peer'[k] = peer[k] /\ seq' = seq
  /\ Read(k[1]) /\ Current(k[1]) = k
  /\ ToRead(k) # <<>> /\ Head(ToRead(k)) = Head(down[k])
  /\ ToRead(k)' = Tail(ToRead(k))
  /\ cursor'[k] = IF Head(ToRead(k)).type = "welcome" THEN cursor[k] ELSE Head(ToRead(k)).seq

IsTold(k) ==
  /\ ~GivenUp(k) /\ peer[k] = "greeted" /\ peer'[k] = "greeted" /\ cursor'[k] = cursor[k]
  /\ \E q \in Conn : /\ Receive(q)
                     /\ ToRead(k)' = Append(ToRead(k), Told(k, q, Head(up[q])))

Ends(k) ==
  /\ ~GivenUp(k) /\ peer'[k] = "closed" /\ (ServerClose(k) \/ Reopen)
  /\ ToRead(k)' = down[k] /\ cursor'[k] = cursor[k]

StreamStep(k) == Quiet(k) \/ ReadsNext(k) \/ IsTold(k) \/ Ends(k) \/ (Greet(k) /\ ~GivenUp(k))

(* Each step does one of these.                                            *)
LEMMA StreamSteps ==
  ASSUME TypeOK, Beginning, [Next]_vars, NEW k \in Conn,
         ~GivenUp(k)', peer'[k] \in {"greeted", "closed"}
  PROVE  StreamStep(k)
<1>0. /\ RoomTypes /\ SaveTypes /\ NetTypes /\ LinkTypes /\ GhostTypes
  BY DEF TypeOK
<1>1. /\ down[k] \in Seq(DownMsg) /\ held[k] \in Seq(DownMsg)
      /\ ToRead(k) \in Seq(DownMsg) /\ cursor[k] \in Int
  <2>1. down[k] \in Seq(DownMsg) /\ held[k] \in Seq(DownMsg) /\ cursor[k] \in Int
    BY <1>0 DEF NetTypes, GhostTypes
  <2> QED
    BY <2>1, Concat DEF ToRead
<1>2. ASSUME down'[k] = down[k], held'[k] = held[k], cursor'[k] = cursor[k],
             peer'[k] = peer[k], GivenUp(k) => GivenUp(k)'
      PROVE  Quiet(k)
  BY <1>2 DEF Quiet, InUse, ToRead
<1>3. ASSUME NEW c \in Client, Connect(c) PROVE Quiet(k)
  <2>1. /\ UNCHANGED <<down, held>>
        /\ peer' = [peer EXCEPT ![<<c, conn[c] + 1>>] = "joined"]
        /\ cursor' = [cursor EXCEPT ![<<c, conn[c] + 1>>] = clientSeq[c]]
        /\ ~online[c]
        /\ conn' = [conn EXCEPT ![c] = conn[c] + 1]
        /\ online' = [online EXCEPT ![c] = TRUE]
    BY <1>3 DEF Connect
  <2>2. peer'[k] = peer[k] /\ k # <<c, conn[c] + 1>> /\ cursor'[k] = cursor[k]
    BY <1>0, <2>1 DEF NetTypes, GhostTypes
  <2>3. k[1] = c => GivenUp(k)'
    <3>1. conn'[c] = conn[c] + 1
      BY <1>0, <2>1 DEF LinkTypes
    <3> QED
      BY <2>2, <3>1 DEF GivenUp, Current
  <2>4. k[1] # c => ~GivenUp(k)
    <3>1. k[1] \in Client
      BY Names
    <3>2. k[1] # c => conn'[k[1]] = conn[k[1]] /\ online'[k[1]] = online[k[1]]
      BY <1>0, <2>1, <3>1 DEF LinkTypes
    <3> QED
      BY <3>2 DEF GivenUp, Current
  <2> QED
    BY <1>2, <2>1, <2>2, <2>3, <2>4
<1>4. ASSUME NEW c \in Client, NEW type, Reads(c, type), Read(c),
             UNCHANGED <<seq, held, peer, conn, online>>,
             \A q \in Conn \ {Current(c)} : cursor'[q] = cursor[q],
             cursor'[Current(c)] = IF type = "welcome" THEN cursor[Current(c)]
                                   ELSE Head(down[Current(c)]).seq
      PROVE  Quiet(k) \/ ReadsNext(k)
  <2>0. GivenUp(k) <=> GivenUp(k)'
    BY <1>4, GivenUpKept
  <2>1. CASE k = Current(c)
    <3>1. /\ down[k] # <<>> /\ Head(down[k]).type = type
          /\ down' = [down EXCEPT ![k] = Tail(down[k])]
      BY <1>0, <1>4, <2>1, ReadIs
    <3>2. /\ ToRead(k) # <<>> /\ Head(ToRead(k)) = Head(down[k])
          /\ Tail(down[k]) \o held[k] = Tail(ToRead(k))
      BY <1>1, <3>1, Joined DEF ToRead
    <3>3. ToRead(k)' = Tail(ToRead(k))
      BY <1>0, <1>4, <3>1, <3>2 DEF ToRead, NetTypes
    <3>4. k[1] = c
      BY <2>1 DEF Current
    <3> QED
      BY <1>4, <2>0, <2>1, <3>1, <3>2, <3>3, <3>4 DEF ReadsNext, InUse
  <2>2. CASE k # Current(c)
    <3>1. down'[k] = down[k] /\ cursor'[k] = cursor[k]
      <4>1. down' = [down EXCEPT ![Current(c)] = Tail(down[Current(c)])]
        BY <1>0, <1>4, ReadIs
      <4> QED
        BY <1>0, <1>4, <2>2, <4>1 DEF NetTypes
    <3> QED
      BY <1>2, <1>4, <2>0, <3>1
  <2> QED
    BY <2>1, <2>2
<1>5. ASSUME NEW c \in Client, ReadWelcome(c) PROVE Quiet(k) \/ ReadsNext(k)
  <2>1. Reads(c, "welcome") /\ UNCHANGED <<seq, held, peer, conn, online, cursor>> /\ Read(c)
    BY <1>5 DEF ReadWelcome, roomVars, ghostVars, Read
  <2> QED
    BY <1>4, <2>1
<1>6. ASSUME NEW c \in Client, NEW type \in {"snapshot", "ops", "ack"}, Reads(c, type), Read(c),
             cursor' = [cursor EXCEPT ![Current(c)] = Head(down[Current(c)]).seq],
             UNCHANGED <<seq, held, peer, conn, online>>
      PROVE  Quiet(k) \/ ReadsNext(k)
  <2>1. Current(c) \in Conn
    BY <1>0, <1>6, ReadIs
  <2>2. type # "welcome"
    BY <1>6
  <2>3. /\ \A q \in Conn \ {Current(c)} : cursor'[q] = cursor[q]
        /\ cursor'[Current(c)] = IF type = "welcome" THEN cursor[Current(c)]
                                 ELSE Head(down[Current(c)]).seq
    BY <1>0, <1>6, <2>1, <2>2 DEF GhostTypes
  <2> QED
    BY <1>4, <1>6, <2>3
<1>7. ASSUME NEW c \in Client, ReadSnapshot(c) \/ ReadOps(c) \/ ReadAck(c)
      PROVE  Quiet(k) \/ ReadsNext(k)
  <2>1. \E type \in {"snapshot", "ops", "ack"} : Reads(c, type)
    BY <1>7 DEF ReadSnapshot, ReadOps, ReadAck
  <2>2. /\ cursor' = [cursor EXCEPT ![Current(c)] = Head(down[Current(c)]).seq]
        /\ UNCHANGED <<seq, held, peer, conn, online>> /\ Read(c)
    BY <1>7 DEF ReadSnapshot, ReadOps, ReadAck, roomVars, Read
  <2> QED
    BY <1>6, <2>1, <2>2
<1>8. ASSUME NEW c \in Client, ClientClose(c) PROVE Quiet(k)
  <2>1. /\ UNCHANGED <<held, peer, conn, cursor>> /\ online[c]
        /\ online' = [online EXCEPT ![c] = FALSE]
        /\ down' = [down EXCEPT ![Current(c)] = <<>>]
    BY <1>8 DEF ClientClose
  <2>2. k[1] \in Client /\ online'[k[1]]
    BY Names DEF GivenUp
  <2>3. k[1] # c /\ online'[k[1]] = online[k[1]]
    BY <1>0, <2>1, <2>2 DEF LinkTypes
  <2>4. k # Current(c)
    BY <2>3 DEF Current
  <2>5. ~GivenUp(k)
    BY <2>1, <2>2, <2>3 DEF GivenUp, Current
  <2>6. down'[k] = down[k]
    BY <1>0, <2>1, <2>4 DEF NetTypes
  <2> QED
    BY <1>2, <2>1, <2>5, <2>6
<1>9. ASSUME NEW q \in Conn, Greet(q) PROVE Quiet(k) \/ (Greet(k) /\ ~GivenUp(k))
  <2>1. GivenUp(k) <=> GivenUp(k)'
    BY <1>9, GivenUpKept DEF Greet, clientVars
  <2>2. CASE q # k
    <3>1. /\ down'[k] = down[k] /\ held'[k] = held[k]
          /\ cursor'[k] = cursor[k] /\ peer'[k] = peer[k]
      BY <1>0, <1>9, <2>2 DEF Greet, NetTypes, GhostTypes
    <3> QED
      BY <1>2, <2>1, <3>1
  <2> QED
    BY <1>9, <2>1, <2>2
<1>10. ASSUME NEW q \in Conn, SendSnapshot(q) PROVE Quiet(k)
  <2>1. /\ down' = [down EXCEPT ![q] = Delivered(q, held[q])]
        /\ held' = [held EXCEPT ![q] = <<>>]
        /\ UNCHANGED <<peer, conn, online, cursor>>
    BY <1>10 DEF SendSnapshot, clientVars, ghostVars
  <2>2. GivenUp(k) <=> GivenUp(k)'
    BY <2>1, GivenUpKept
  <2>3. CASE q = k
    <3>1. down'[k] = ToRead(k) /\ held'[k] = <<>>
      BY <1>0, <2>1, <2>2, <2>3 DEF NetTypes, Delivered, ToRead
    <3>2. ToRead(k)' = ToRead(k) \o <<>>
      BY <3>1 DEF ToRead
    <3>3. ToRead(k)' = ToRead(k)
      BY <1>1, <3>2, ConcatEmptySeq
    <3> QED
      BY <2>1, <2>2, <3>3 DEF Quiet, InUse
  <2>4. CASE q # k
    <3>1. down'[k] = down[k] /\ held'[k] = held[k]
      BY <1>0, <2>1, <2>4 DEF NetTypes
    <3> QED
      BY <1>2, <2>1, <2>2, <3>1
  <2> QED
    BY <2>3, <2>4
<1>11. ASSUME NEW q \in Conn, Receive(q) PROVE Quiet(k) \/ IsTold(k)
  <2>1. /\ peer[k] = "greeted" =>
             \/ /\ held[k] = <<>> /\ held'[k] = <<>>
                /\ down'[k] = Delivered(k, <<Told(k, q, Head(up[q]))>>)
             \/ /\ held'[k] = Append(held[k], Told(k, q, Head(up[q])))
                /\ down'[k] = down[k]
        /\ peer[k] # "greeted" => down'[k] = down[k] /\ held'[k] = held[k]
        /\ UNCHANGED <<peer, conn, online, cursor>>
    BY <1>11 DEF Receive, clientVars
  <2>2. GivenUp(k) <=> GivenUp(k)'
    BY <2>1, GivenUpKept
  <2>3. CASE peer[k] # "greeted"
    BY <1>2, <2>1, <2>2, <2>3
  <2>4. CASE peer[k] = "greeted"
    <3>2. PICK m \in DownMsg : m = Told(k, q, Head(up[q]))
      BY <1>0, <1>11, ToldIs
    <3>3. ToRead(k)' = Append(ToRead(k), m)
      <4>1. CASE held[k] = <<>> /\ held'[k] = <<>> /\ down'[k] = down[k] \o <<m>>
        <5>1. ToRead(k) = down[k]
          BY <1>1, <4>1, ConcatEmptySeq DEF ToRead
        <5>2. Append(down[k], m) = down[k] \o <<m>> /\ Append(down[k], m) \in Seq(DownMsg)
          BY <1>1, AppendIsConcat, AppendProperties
        <5>3. ToRead(k)' = Append(down[k], m) \o <<>>
          BY <4>1, <5>2 DEF ToRead
        <5> QED
          BY <5>1, <5>2, <5>3, ConcatEmptySeq
      <4>2. CASE held'[k] = Append(held[k], m) /\ down'[k] = down[k]
        <5>1. PICK d \in Seq(DownMsg), h \in Seq(DownMsg) : d = down[k] /\ h = held[k]
          BY <1>1
        <5>2. d \o Append(h, m) = Append(d \o h, m)
          BY Joined
        <5> QED
          BY <4>2, <5>1, <5>2 DEF ToRead
      <4>3. Delivered(k, <<m>>) = down[k] \o <<m>>
        BY <2>2 DEF Delivered
      <4> QED
        BY <2>1, <2>4, <3>2, <4>1, <4>2, <4>3
    <3> QED
      BY <1>11, <2>1, <2>2, <2>4, <3>2, <3>3 DEF IsTold
  <2> QED
    BY <2>3, <2>4
<1>12. ASSUME NEW q \in Conn, ServerClose(q) PROVE Quiet(k) \/ Ends(k)
  <2>1. GivenUp(k) <=> GivenUp(k)'
    BY <1>12, GivenUpKept DEF ServerClose, clientVars
  <2>2. CASE q # k
    <3>1. /\ down'[k] = down[k] /\ held'[k] = held[k]
          /\ cursor'[k] = cursor[k] /\ peer'[k] = peer[k]
      BY <1>0, <1>12, <2>2 DEF ServerClose, NetTypes, ghostVars
    <3> QED
      BY <1>2, <2>1, <3>1
  <2>3. CASE q = k
    <3>1. held'[k] = <<>> /\ down'[k] = down[k] /\ cursor'[k] = cursor[k] /\ peer'[k] = "closed"
      BY <1>0, <1>12, <2>3 DEF ServerClose, NetTypes, ghostVars
    <3>2. ToRead(k)' = down[k]
      BY <1>1, <3>1, ConcatEmptySeq DEF ToRead
    <3> QED
      BY <1>12, <2>1, <2>3, <3>1, <3>2 DEF Ends
  <2> QED
    BY <2>2, <2>3
<1>13. ASSUME Reopen PROVE Ends(k)
  <2>1. GivenUp(k) <=> GivenUp(k)'
    BY <1>13, GivenUpKept DEF Reopen, clientVars
  <2>2. /\ held'[k] = <<>> /\ down'[k] = down[k] /\ cursor'[k] = cursor[k]
        /\ peer'[k] # "greeted"
    BY <1>13 DEF Reopen, OpenPeers
  <2>3. ToRead(k)' = down[k]
    BY <1>1, <2>2, ConcatEmptySeq DEF ToRead
  <2> QED
    BY <1>13, <2>1, <2>2, <2>3 DEF Ends
<1>14. ASSUME UNCHANGED <<down, held, cursor, peer, conn, online>> PROVE Quiet(k)
  BY <1>2, <1>14, GivenUpKept
<1>15. ASSUME NEW c \in Client, LoadRecord(c) \/ LoadDocument(c) \/ Edit(c) \/ Flush(c)
       PROVE  UNCHANGED <<down, held, cursor, peer, conn, online>>
  BY <1>15 DEF LoadRecord, LoadDocument, Edit, Flush, netVars, ghostVars
<1>16. ASSUME Save \/ Write \/ UNCHANGED vars
       PROVE  UNCHANGED <<down, held, cursor, peer, conn, online>>
  BY <1>16 DEF Save, Write, WriteDocument, WriteRecord, vars, netVars, clientVars, ghostVars
<1>17. ASSUME NEW c \in Client, \/ LoadRecord(c) \/ LoadDocument(c) \/ Edit(c)
                               \/ Connect(c) \/ Flush(c) \/ Read(c) \/ ClientClose(c)
       PROVE  StreamStep(k)
  BY <1>3, <1>5, <1>7, <1>8, <1>14, <1>15, <1>17 DEF Read, StreamStep
<1>18. ASSUME NEW q \in Conn, Hear(q) \/ SendSnapshot(q) \/ ServerClose(q)
       PROVE  StreamStep(k)
  BY <1>9, <1>10, <1>11, <1>12, <1>18 DEF Hear, StreamStep
<1>19. CASE Save \/ Write \/ Reopen \/ UNCHANGED vars
  BY <1>13, <1>14, <1>16, <1>19 DEF StreamStep
<1> QED
  BY <1>17, <1>18, <1>19 DEF Next

(* What is read, closed or not, is numbered one by one after the last.      *)
Orderly ==
  \A k \in Conn : InUse(k) =>
    WelcomeFirst(ToRead(k)) /\ \E to \in Int : Runs(ToRead(k), cursor[k], to)

(* If the end of what is to be read is lost, the rest is still in order.   *)
LEMMA PrefixRuns ==
  ASSUME NEW s \in Seq(DownMsg), NEW t \in Seq(DownMsg), NEW from \in Int, NEW to \in Int,
         WelcomeFirst(s \o t), Runs(s \o t, from, to)
  PROVE  WelcomeFirst(s) /\ \E upto \in Int : Runs(s, from, upto)
<1>1. PICK n \in Nat, p \in Nat : n = Len(s) /\ p = Len(t)
  BY LenProperties
<1>2. PICK all : all = s \o t
  OBVIOUS
<1>3. /\ all \in Seq(DownMsg) /\ Len(all) = n + p
      /\ \A i \in 1 .. n : all[i] = s[i]
  BY <1>1, <1>2, ConcatProperties
<1>4. WelcomeFirst(s)
  <2>1. \A i \in 2 .. n : i \in 2 .. n + p /\ i \in 1 .. n
    OBVIOUS
  <2> QED
    BY <1>1, <1>2, <1>3, <2>1 DEF WelcomeFirst
<1>5. CASE n = 0
  <2>1. s = <<>>
    BY <1>1, <1>5, EmptySeq
  <2>2. Skip(s) = 0
    BY <2>1 DEF Skip
  <2>3. Runs(s, from, from)
    BY <1>1, <1>5, <2>2 DEF Runs
  <2> QED
    BY <1>4, <2>3
<1>6. CASE n # 0
  <2>1. Head(s) = s[1] /\ Head(all) = all[1] /\ s # <<>> /\ all # <<>> /\ all[1] = s[1]
    BY <1>1, <1>3, <1>6, EmptySeq
  <2>2. PICK skip \in {0, 1} : skip = Skip(s) /\ skip = Skip(all)
    BY <2>1 DEF Skip
  <2>3. \A i \in 1 .. to - from : all[i + skip].seq = from + i
    BY <1>2, <2>2 DEF Runs
  <2>4. (n + p) - skip = to - from
    BY <1>2, <1>3, <2>2 DEF Runs
  <2>5. PICK upto \in Int : upto = from + n - skip
    OBVIOUS
  <2>6. ASSUME NEW i \in 1 .. upto - from PROVE s[i + skip].seq = from + i
    <3>1. i \in 1 .. to - from /\ i + skip \in 1 .. n
      BY <2>4, <2>5
    <3> QED
      BY <1>3, <2>3, <3>1
  <2>7. n - skip = upto - from
    BY <2>5
  <2>8. Runs(s, from, upto)
    BY <1>1, <2>2, <2>6, <2>7 DEF Runs
  <2> QED
    BY <1>4, <2>8
<1> QED
  BY <1>5, <1>6

(* What is to be read stays in order when the connection has ended, too.   *)
LEMMA OrderlyKept ==
  ASSUME TypeOK, TypeOK', Beginning, Orderly, Streams', [Next]_vars
  PROVE  Orderly'
<1>1. ASSUME NEW k \in Conn, InUse(k)'
      PROVE  (WelcomeFirst(ToRead(k)) /\ \E to \in Int : Runs(ToRead(k), cursor[k], to))'
  <2>0. ~GivenUp(k)' /\ peer'[k] \in {"greeted", "closed"}
    BY <1>1 DEF InUse
  <2>1. /\ down[k] \in Seq(DownMsg) /\ held[k] \in Seq(DownMsg)
        /\ ToRead(k) \in Seq(DownMsg) /\ cursor[k] \in Int /\ seq' \in Int
    <3>1. /\ down[k] \in Seq(DownMsg) /\ held[k] \in Seq(DownMsg)
          /\ cursor[k] \in Int /\ seq' \in Nat
      BY DEF TypeOK, NetTypes, RoomTypes, GhostTypes
    <3> QED
      BY <3>1, Concat DEF ToRead
  <2>2. CASE peer'[k] = "greeted"
    <3>1. (WelcomeFirst(ToRead(k)) /\ Runs(ToRead(k), cursor[k], seq))'
      BY <2>0, <2>2 DEF Streams
    <3> QED
      BY <2>1, <3>1
  <2>3. CASE Quiet(k)
    <3>1. WelcomeFirst(ToRead(k)) /\ \E to \in Int : Runs(ToRead(k), cursor[k], to)
      BY <2>3 DEF Quiet, Orderly
    <3> QED
      BY <2>3, <3>1 DEF Quiet, WelcomeFirst, Runs, Skip
  <2>4. CASE ReadsNext(k)
    <3>1. PICK to \in Int : WelcomeFirst(ToRead(k)) /\ Runs(ToRead(k), cursor[k], to)
      BY <2>4 DEF ReadsNext, Orderly
    <3>2. PICK s \in Seq(DownMsg), from \in Int : s = ToRead(k) /\ from = cursor[k]
      BY <2>1
    <3>3. /\ s # <<>> /\ ToRead(k)' = Tail(s)
          /\ cursor'[k] = IF Head(s).type = "welcome" THEN from ELSE Head(s).seq
      BY <2>4, <3>2 DEF ReadsNext
    <3>4. /\ WelcomeFirst(Tail(s))
          /\ Head(s).type = "welcome" => Runs(Tail(s), from, to)
          /\ Head(s).type # "welcome" => /\ Head(s).seq = from + 1
                                         /\ Runs(Tail(s), from + 1, to)
      BY <3>1, <3>2, <3>3, RunsDown
    <3>5. Runs(Tail(s), cursor'[k], to)
      BY <3>3, <3>4
    <3>6. PICK t : t = Tail(s) /\ t = ToRead(k)'
      BY <3>3
    <3>7. WelcomeFirst(ToRead(k))'
      BY <3>4, <3>6 DEF WelcomeFirst
    <3>8. Runs(ToRead(k), cursor[k], to)'
      BY <3>5, <3>6 DEF Runs, Skip
    <3> QED
      BY <3>7, <3>8
  <2>5. CASE Ends(k)
    <3>1. PICK s \in Seq(DownMsg), t \in Seq(DownMsg), from \in Int :
            s = down[k] /\ t = held[k] /\ from = cursor[k]
      BY <2>1
    <3>2. ToRead(k)' = s /\ cursor'[k] = from /\ ~GivenUp(k)
      BY <2>5, <3>1 DEF Ends
    <3>3. WelcomeFirst(s) /\ \E to \in Int : Runs(s, from, to)
      <4>1. CASE peer[k] \in {"greeted", "closed"}
        <5>1. InUse(k)
          BY <3>2, <4>1 DEF InUse
        <5>2. PICK to \in Int : WelcomeFirst(s \o t) /\ Runs(s \o t, from, to)
          BY <3>1, <5>1 DEF Orderly, ToRead
        <5> QED
          BY <5>2, PrefixRuns
      <4>2. CASE peer[k] \notin {"greeted", "closed"}
        <5>1. s = <<>>
          BY <3>1, <4>2 DEF Beginning, TypeOK, NetTypes
        <5>2. Len(s) = 0 /\ Skip(s) = 0
          BY <5>1 DEF Skip
        <5>3. WelcomeFirst(s) /\ Runs(s, from, from)
          BY <5>2 DEF WelcomeFirst, Runs
        <5> QED
          BY <5>3
      <4> QED
        BY <4>1, <4>2
    <3> QED
      BY <3>2, <3>3 DEF WelcomeFirst, Runs, Skip
  <2>6. CASE Greet(k)
    <3>1. peer'[k] = "greeted"
      BY <2>6 DEF Greet, TypeOK, NetTypes
    <3> QED
      BY <2>2, <3>1
  <2>7. CASE IsTold(k)
    BY <2>2, <2>7 DEF IsTold
  <2> QED
    BY <2>0, <2>2, <2>3, <2>4, <2>5, <2>6, <2>7, StreamSteps DEF StreamStep
<1> QED
  BY <1>1 DEF Orderly

-----------------------------------------------------------------------------
(* Of the messages of one type, each has a larger number than those before. *)
Rising(s, type) ==
  \A i, j \in 1 .. Len(s) :
    i < j /\ s[i].type = type /\ s[j].type = type => s[i].id < s[j].id

(* One message more, with a larger number.                                 *)
LEMMA RisingOn ==
  ASSUME NEW S, NEW s \in Seq(S), NEW type, Rising(s, type), NEW e \in S,
         \A m \in Range(s) : m.type = type /\ e.type = type => m.id < e.id
  PROVE  Rising(Append(s, e), type)
<1>1. PICK n \in Nat : n = Len(s) /\ DOMAIN s = 1 .. n
  BY LenProperties
<1>2. PICK t : t = Append(s, e)
  OBVIOUS
<1>3. /\ Len(t) = n + 1 /\ t[n + 1] = e
      /\ \A i \in 1 .. n : t[i] = s[i]
  BY <1>1, <1>2, AppendProperties
<1>4. ASSUME NEW i \in 1 .. n + 1, NEW j \in 1 .. n + 1,
             i < j, t[i].type = type, t[j].type = type
      PROVE  t[i].id < t[j].id
  <2>1. i \in 1 .. n /\ t[i] = s[i]
    BY <1>3, <1>4
  <2>2. CASE j = n + 1
    <3>1. s[i] \in Range(s)
      BY <1>1, <2>1 DEF Range
    <3> QED
      BY <1>3, <1>4, <2>1, <2>2, <3>1
  <2>3. CASE j \in 1 .. n
    BY <1>1, <1>3, <1>4, <2>1, <2>3 DEF Rising
  <2> QED
    BY <2>2, <2>3
<1> QED
  BY <1>2, <1>3, <1>4 DEF Rising

(* One message less.                                                       *)
LEMMA RisingDown ==
  ASSUME NEW S, NEW s \in Seq(S), s # <<>>, NEW type, Rising(s, type)
  PROVE  /\ Rising(Tail(s), type)
         /\ \A m \in Range(Tail(s)) : m.type = type /\ Head(s).type = type => Head(s).id < m.id
<1>1. PICK n \in Nat : n = Len(s) /\ n # 0
  BY EmptySeq
<1>2. PICK t : t = Tail(s)
  OBVIOUS
<1>3. /\ t \in Seq(S) /\ Len(t) = n - 1
      /\ \A i \in 1 .. n - 1 : t[i] = s[i + 1]
  BY <1>1, <1>2, HeadTailProperties
<1>4. Head(s) = s[1] /\ DOMAIN t = 1 .. n - 1
  BY <1>1, <1>3, LenProperties
<1>5. ASSUME NEW i \in 1 .. n - 1 PROVE i + 1 \in 1 .. n /\ 1 \in 1 .. n /\ 1 < i + 1 /\ t[i] = s[i + 1]
  BY <1>3
<1>6. Rising(t, type)
  <2>1. ASSUME NEW i \in 1 .. n - 1, NEW j \in 1 .. n - 1,
               i < j, t[i].type = type, t[j].type = type
        PROVE  t[i].id < t[j].id
    <3>1. i + 1 < j + 1
      BY <2>1
    <3> QED
      BY <1>1, <1>5, <2>1, <3>1 DEF Rising
  <2> QED
    BY <1>3, <2>1 DEF Rising
<1>7. ASSUME NEW m \in Range(t), m.type = type, s[1].type = type
      PROVE  s[1].id < m.id
  <2>1. PICK i \in 1 .. n - 1 : m = t[i]
    BY <1>4 DEF Range
  <2> QED
    BY <1>1, <1>5, <1>7, <2>1 DEF Rising
<1> QED
  BY <1>2, <1>4, <1>6, <1>7

(* The first of two parts.                                                 *)
LEMMA RisingFirst ==
  ASSUME NEW S, NEW s \in Seq(S), NEW t \in Seq(S), NEW type, Rising(s \o t, type)
  PROVE  Rising(s, type)
<1>1. PICK n \in Nat, p \in Nat : n = Len(s) /\ p = Len(t)
  BY LenProperties
<1>2. PICK all : all = s \o t
  OBVIOUS
<1>3. Len(all) = n + p /\ \A i \in 1 .. n : all[i] = s[i] /\ i \in 1 .. n + p
  BY <1>1, <1>2, ConcatProperties
<1> QED
  BY <1>1, <1>2, <1>3 DEF Rising

(* Nothing of that type.                                                   *)
LEMMA RisingNone ==
  ASSUME NEW S, NEW s \in Seq(S), NEW type, \A m \in Range(s) : m.type # type
  PROVE  Rising(s, type)
<1>1. \A i \in 1 .. Len(s) : s[i] \in Range(s)
  BY LenProperties DEF Range
<1> QED
  BY <1>1 DEF Rising

-----------------------------------------------------------------------------
(* What is on its way to the room, and the greeting.                       *)

(* What a step does to the messages on their way to the room, on the        *)
(* connection in use.                                                       *)
Waits(k) == ~GivenUp(k) /\ up'[k] = up[k]

IsHeard(k) ==
  /\ ~GivenUp(k)
  /\ Greet(k) \/ Receive(k)
  /\ up[k] # <<>> /\ up'[k] = Tail(up[k])

IsSent(k, kept, ops) ==
  /\ ~GivenUp(k) /\ Current(k[1]) = k
  /\ Flush(k[1]) \/ ReadWelcome(k[1])
  /\ kept \in SUBSET DOMAIN unacked[k[1]] /\ ops \in Seq(Op)
  /\ Send(k[1], kept, ops) /\ Range(ops) \subseteq Pending(k[1])
  /\ kept = DOMAIN unacked[k[1]] \/ Range(ops) = Pending(k[1])
  /\ up'[k] = Append(up[k], Batch(nextBatch[k[1]] + 1, ops))

Opens(k) ==
  /\ Connect(k[1]) /\ peer'[k] = "joined"
  /\ up'[k] = <<Hello(IF clientSeq[k[1]] = Unseen THEN version[k[1]] ELSE Unseen,
                      clientSeq[k[1]])>>

UpStep(k) ==
  \/ up'[k] = <<>> \/ Waits(k) \/ IsHeard(k) \/ Opens(k)
  \/ \E kept, ops : IsSent(k, kept, ops)

(* Each step does one of these.                                             *)
LEMMA UpSteps ==
  ASSUME TypeOK, Numbered, [Next]_vars, NEW k \in Conn, ~GivenUp(k)'
  PROVE  UpStep(k)
<1>0. /\ NetTypes /\ LinkTypes /\ WorkTypes /\ k[1] \in Client
  BY Names DEF TypeOK
<1>1. ASSUME up'[k] = up[k], UNCHANGED <<conn, online>> PROVE Waits(k)
  BY <1>1, GivenUpKept DEF Waits
<1>2. ASSUME NEW c \in Client, Connect(c) PROVE Waits(k) \/ Opens(k)
  <2>0. PICK n \in Nat : n = conn[c]
    BY <1>0 DEF LinkTypes
  <2>1. /\ n < MaxConn[c] /\ conn' = [conn EXCEPT ![c] = n + 1]
        /\ online' = [online EXCEPT ![c] = TRUE] /\ ~online[c]
        /\ peer' = [peer EXCEPT ![<<c, n + 1>>] = "joined"]
        /\ up' = [up EXCEPT ![<<c, n + 1>>] =
                   <<Hello(IF clientSeq[c] = Unseen THEN version[c] ELSE Unseen,
                           clientSeq[c])>>]
    BY <1>2, <2>0 DEF Connect
  <2>2. n + 1 \in 1 .. MaxConn[c]
    BY <2>0, <2>1
  <2>3. <<c, n + 1>> \in Conn
    BY <2>2, Names
  <2>4. CASE k[1] = c
    <3>1. conn'[c] = n + 1
      BY <1>0, <2>1 DEF LinkTypes
    <3>2. k = <<c, n + 1>>
      BY <2>4, <3>1 DEF GivenUp, Current
    <3>3. peer'[k] = "joined" /\ up'[k] = <<Hello(IF clientSeq[c] = Unseen THEN version[c] ELSE Unseen,
                           clientSeq[c])>>
      BY <1>0, <2>1, <2>3, <3>2 DEF NetTypes
    <3> QED
      BY <1>2, <2>4, <3>3 DEF Opens
  <2>5. CASE k[1] # c
    <3>1. k # <<c, n + 1>>
      BY <2>5
    <3>2. up'[k] = up[k]
      BY <1>0, <2>1, <3>1 DEF NetTypes
    <3>3. conn'[k[1]] = conn[k[1]] /\ online'[k[1]] = online[k[1]]
      BY <1>0, <2>1, <2>5 DEF LinkTypes
    <3> QED
      BY <3>2, <3>3 DEF Waits, GivenUp, Current
  <2> QED
    BY <2>4, <2>5
<1>3. ASSUME NEW c \in Client, NEW kept \in SUBSET DOMAIN unacked[c], NEW ops \in Seq(Op),
             online[c], Flush(c) \/ ReadWelcome(c), UNCHANGED <<conn, online>>,
             Send(c, kept, ops), Range(ops) \subseteq Pending(c),
             kept = DOMAIN unacked[c] \/ Range(ops) = Pending(c)
      PROVE  UpStep(k)
  <2>1. up' = [up EXCEPT ![Current(c)] =
                 IF peer[Current(c)] = "closed" THEN up[Current(c)]
                 ELSE Append(up[Current(c)], Batch(nextBatch[c] + 1, ops))]
    BY <1>3 DEF Send
  <2>2. Current(c) \in Conn
    BY <1>0, <1>3, CurrentIs
  <2>3. CASE k = Current(c) /\ peer[k] # "closed"
    <3>1. up'[k] = Append(up[k], Batch(nextBatch[c] + 1, ops))
      BY <1>0, <2>1, <2>2, <2>3 DEF NetTypes
    <3>2. k[1] = c /\ ~GivenUp(k)
      BY <1>3, <2>3, GivenUpKept DEF Current
    <3>3. IsSent(k, kept, ops)
      BY <1>3, <2>3, <3>1, <3>2 DEF IsSent
    <3> QED
      BY <3>3 DEF UpStep
  <2>4. CASE k # Current(c) \/ peer[k] = "closed"
    <3>1. up'[k] = up[k]
      BY <1>0, <2>1, <2>2, <2>4 DEF NetTypes
    <3> QED
      BY <1>1, <1>3, <3>1 DEF UpStep
  <2> QED
    BY <2>3, <2>4
<1>4. ASSUME NEW c \in Client, Flush(c) PROVE UpStep(k)
  <2>1. /\ Send(c, DOMAIN unacked[c], outbox[c]) /\ UNCHANGED <<conn, online>>
        /\ online[c] /\ outbox[c] \in Seq(Op)
    BY <1>0, <1>4 DEF Flush, WorkTypes
  <2>2. Range(outbox[c]) \subseteq Pending(c)
    BY DEF Pending
  <2> QED
    BY <1>3, <1>4, <2>1, <2>2
<1>5. ASSUME NEW c \in Client, ReadWelcome(c) PROVE UpStep(k)
  <2>1. /\ UNCHANGED <<conn, online>> /\ online[c]
        /\ up' = up \/ Send(c, {}, TakenBack(c))
    BY <1>5 DEF ReadWelcome, Reads
  <2>2. TakenBack(c) \in Seq(Op) /\ Range(TakenBack(c)) = Pending(c)
    BY TakenBackIs
  <2> QED
    BY <1>1, <1>3, <1>5, <2>1, <2>2 DEF UpStep
<1>6. ASSUME NEW q \in Conn, Greet(q) \/ Receive(q) PROVE UpStep(k)
  <2>1. /\ up' = [up EXCEPT ![q] = Tail(up[q])] /\ up[q] # <<>>
        /\ UNCHANGED <<conn, online>>
    BY <1>6 DEF Greet, Receive, Hears, clientVars
  <2>2. ~GivenUp(k)
    BY <2>1, GivenUpKept
  <2>3. up'[k] = IF k = q THEN Tail(up[k]) ELSE up[k]
    BY <1>0, <2>1 DEF NetTypes
  <2> QED
    BY <1>6, <2>1, <2>2, <2>3 DEF UpStep, IsHeard, Waits
<1>7. ASSUME NEW q \in Conn, ServerClose(q) PROVE UpStep(k)
  <2>1. up' = [up EXCEPT ![q] = <<>>] /\ UNCHANGED <<conn, online>>
    BY <1>7 DEF ServerClose, clientVars
  <2>2. up'[k] = <<>> \/ up'[k] = up[k]
    BY <1>0, <2>1 DEF NetTypes
  <2> QED
    BY <1>1, <2>1, <2>2 DEF UpStep
<1>8. ASSUME NEW q \in Conn, SendSnapshot(q) PROVE UpStep(k)
  BY <1>1, <1>8 DEF SendSnapshot, clientVars, UpStep
<1>9. ASSUME NEW c \in Client, ClientClose(c) PROVE UpStep(k)
  <2>1. up' = up /\ conn' = conn /\ online' = [online EXCEPT ![c] = FALSE]
    BY <1>9 DEF ClientClose
  <2>2. online'[k[1]] /\ online'[k[1]] => online[k[1]]
    BY <1>0, <2>1 DEF GivenUp, LinkTypes
  <2>3. ~GivenUp(k)
    BY <2>1, <2>2 DEF GivenUp, Current
  <2> QED
    BY <2>1, <2>3 DEF UpStep, Waits
<1>10. CASE Reopen
  BY <1>10 DEF Reopen, UpStep
<1>11. ASSUME NEW c \in Client, \/ LoadRecord(c) \/ LoadDocument(c) \/ Edit(c)
                               \/ ReadSnapshot(c) \/ ReadOps(c) \/ ReadAck(c)
       PROVE  UpStep(k)
  <2>1. UNCHANGED <<up, conn, online>>
    BY <1>11 DEF LoadRecord, LoadDocument, Edit, ReadSnapshot, ReadOps, ReadAck, netVars
  <2> QED
    BY <1>1, <2>1 DEF UpStep
<1>12. CASE Save \/ Write \/ UNCHANGED vars
  <2>1. UNCHANGED <<up, conn, online>>
    BY <1>12 DEF Save, Write, WriteDocument, WriteRecord, vars, netVars, clientVars
  <2> QED
    BY <1>1, <2>1 DEF UpStep
<1>13. ASSUME NEW c \in Client, \/ LoadRecord(c) \/ LoadDocument(c) \/ Edit(c)
                               \/ Connect(c) \/ Flush(c) \/ Read(c) \/ ClientClose(c)
       PROVE  UpStep(k)
  BY <1>2, <1>4, <1>5, <1>9, <1>11, <1>13 DEF Read, UpStep
<1>14. ASSUME NEW q \in Conn, Hear(q) \/ SendSnapshot(q) \/ ServerClose(q)
       PROVE  UpStep(k)
  BY <1>6, <1>7, <1>8, <1>14 DEF Hear
<1> QED
  BY <1>10, <1>12, <1>13, <1>14 DEF Next

(* What is on the way on a connection in use.                               *)
LEMMA OnConnection ==
  ASSUME TypeOK, NEW k \in Conn
  PROVE  /\ down[k] \in Seq(DownMsg) /\ held[k] \in Seq(DownMsg)
         /\ ToRead(k) \in Seq(DownMsg) /\ up[k] \in Seq(UpMsg)
         /\ Range(ToRead(k)) = Range(down[k]) \cup Range(held[k])
         /\ Range(ToRead(k)) \subseteq DownMsg /\ Range(up[k]) \subseteq UpMsg
         /\ cursor[k] \in Int /\ k[1] \in Client
<1>1. /\ down[k] \in Seq(DownMsg) /\ held[k] \in Seq(DownMsg) /\ cursor[k] \in Int
      /\ up[k] \in Seq(UpMsg)
  BY DEF TypeOK, NetTypes, GhostTypes
<1>2. /\ ToRead(k) \in Seq(DownMsg) /\ Range(ToRead(k)) = Range(down[k]) \cup Range(held[k])
  BY <1>1, Concat DEF ToRead
<1> QED
  BY <1>1, <1>2, InRange, Names

(* The hello on its way says what the client has.                           *)
HelloTrue ==
  \A k \in Conn : ~GivenUp(k) /\ peer[k] = "joined" =>
    \A m \in Range(up[k]) : m.type = "hello" =>
      /\ m.since = clientSeq[k[1]]
      /\ clientSeq[k[1]] = Unseen => m.version = version[k[1]]

(* The hello on its way tells what its client has: nothing is read meanwhile. *)
LEMMA HelloTrueKept ==
  ASSUME TypeOK, Beginning, Numbered, Loaded, HelloTrue, [Next]_vars
  PROVE  HelloTrue'
<1>1. ASSUME NEW k \in Conn, ~GivenUp(k)', peer'[k] = "joined",
             NEW m \in Range(up'[k]), m.type = "hello"
      PROVE  /\ m.since = clientSeq'[k[1]]
             /\ clientSeq'[k[1]] = Unseen => m.version = version'[k[1]]
  <2>0. k[1] \in Client /\ up[k] \in Seq(UpMsg)
    BY OnConnection
  <2>1. CASE Opens(k)
    <3>1. PICK h : h = Hello(IF clientSeq[k[1]] = Unseen THEN version[k[1]] ELSE Unseen,
                             clientSeq[k[1]])
      OBVIOUS
    <3>2. Range(up'[k]) = {h} /\ UNCHANGED <<clientSeq, version>>
      BY <2>1, <3>1, Single DEF Opens, Connect
    <3> QED
      BY <1>1, <3>1, <3>2 DEF Hello
  <2>2. CASE up'[k] = <<>>
    BY <1>1, <2>2, NothingIn
  <2>3. ASSUME ~GivenUp(k), m \in Range(up[k]), ~Opens(k)
        PROVE  /\ m.since = clientSeq'[k[1]]
               /\ clientSeq'[k[1]] = Unseen => m.version = version'[k[1]]
    <3>0. online[k[1]] /\ Current(k[1]) = k
      BY <2>3 DEF GivenUp
    <3>1. peer[k] = "joined"
      <4>1. CASE \E c \in Client : Connect(c)
        <5>1. PICK c \in Client : Connect(c)
          BY <4>1
        <5>2. peer' = [peer EXCEPT ![<<c, conn[c] + 1>>] = "joined"] /\ ~online[c]
          BY <5>1 DEF Connect
        <5>3. k # <<c, conn[c] + 1>>
          BY <3>0, <5>2
        <5> QED
          BY <1>1, <5>2, <5>3 DEF TypeOK, NetTypes
      <4>2. ASSUME NEW q \in Conn, Greet(q) \/ ServerClose(q) PROVE peer[k] = "joined"
        BY <1>1, <4>2 DEF Greet, ServerClose, TypeOK, NetTypes
      <4>3. ASSUME NEW q \in Conn, Receive(q) \/ SendSnapshot(q) PROVE peer[k] = "joined"
        BY <1>1, <4>3 DEF Receive, SendSnapshot
      <4>4. CASE Reopen
        BY <1>1, <4>4 DEF Reopen, OpenPeers
      <4>5. CASE Save \/ Write \/ UNCHANGED vars
        BY <1>1, <4>5 DEF Save, Write, WriteDocument, WriteRecord, vars, netVars
      <4>6. ASSUME NEW c \in Client, \/ LoadRecord(c) \/ LoadDocument(c) \/ Edit(c)
                                     \/ Flush(c) \/ Read(c) \/ ClientClose(c)
            PROVE  peer[k] = "joined"
        <5>1. peer' = peer
          BY <4>6 DEF LoadRecord, LoadDocument, Edit, Flush, Read, ReadWelcome,
             ReadSnapshot, ReadOps, ReadAck, ClientClose, netVars
        <5> QED
          BY <1>1, <5>1
      <4> QED
        BY <4>1, <4>2, <4>3, <4>4, <4>5, <4>6 DEF Next, Hear
    <3>2. /\ m.since = clientSeq[k[1]]
          /\ clientSeq[k[1]] = Unseen => m.version = version[k[1]]
      BY <1>1, <2>3, <3>1 DEF HelloTrue
    <3>3. down[k] = <<>>
      BY <3>1 DEF Beginning
    <3>4. ~Read(k[1]) /\ ~LoadRecord(k[1])
      <4>1. load[k[1]] = "ready"
        BY <2>0, <3>0 DEF Loaded
      <4>2. Read(k[1]) => \E type : Reads(k[1], type)
        BY DEF Read, ReadWelcome, ReadSnapshot, ReadOps, ReadAck
      <4> QED
        BY <3>0, <3>3, <4>1, <4>2 DEF LoadRecord, Reads
    <3>5. CASE Untouched(k[1])
      BY <3>2, <3>5 DEF Untouched
    <3>6. CASE ClientStep(k[1])
      <4>1. UNCHANGED <<clientSeq, version>>
        BY <3>4, <3>6 DEF ClientStep, LoadDocument, Edit, Connect, Flush, ClientClose
      <4> QED
        BY <3>2, <4>1
    <3> QED
      BY <2>0, <3>5, <3>6, ClientSteps
  <2>4. CASE Waits(k) /\ ~Opens(k)
    BY <1>1, <2>3, <2>4 DEF Waits
  <2>5. CASE IsHeard(k) /\ ~Opens(k)
    <3>1. m \in Range(up[k])
      BY <1>1, <2>0, <2>5, Shortened DEF IsHeard
    <3> QED
      BY <2>3, <2>5, <3>1 DEF IsHeard
  <2>6. ASSUME NEW kept, NEW ops, IsSent(k, kept, ops), ~Opens(k)
        PROVE  /\ m.since = clientSeq'[k[1]]
               /\ clientSeq'[k[1]] = Unseen => m.version = version'[k[1]]
    <3>1. PICK b \in UpMsg : b = Batch(nextBatch[k[1]] + 1, ops)
      <4>1. nextBatch[k[1]] + 1 \in Nat /\ ops \in Seq(Op)
        BY <2>0, <2>6 DEF IsSent, TypeOK, WorkTypes
      <4> QED
        BY <4>1, Written
    <3>2. Range(up'[k]) = Range(up[k]) \cup {b}
      BY <2>0, <2>6, <3>1, Appended DEF IsSent
    <3>3. m # b
      BY <1>1, <3>1 DEF Batch
    <3> QED
      BY <1>1, <2>3, <2>6, <3>2, <3>3 DEF IsSent
  <2> QED
    BY <1>1, <2>1, <2>2, <2>4, <2>5, <2>6, UpSteps DEF UpStep
<1> QED
  BY <1>1 DEF HelloTrue

(* What a greeted client has to read first.                                 *)
LEMMA Greeted ==
  ASSUME TypeOK, LogInOrder, Beginning, NEW k \in Conn, Greet(k), ~GivenUp(k),
         NEW from, from = UpTo(Head(up[k]))
  PROVE  /\ CanReplay(from) => /\ ToRead(k)' = <<Welcome>> \o Missed(from)
                               /\ cursor'[k] = from
         /\ ~CanReplay(from) => /\ ToRead(k)' = <<Welcome>> \o <<Snapshot(seq, roomDoc)>>
                                /\ cursor'[k] = seq - 1
<1>0. RoomTypes /\ SaveTypes /\ NetTypes /\ GhostTypes
  BY DEF TypeOK
<1>1. down[k] = <<>> /\ held[k] = <<>>
  BY DEF Greet, Beginning
<1>2. PICK w \in DownMsg : w = Welcome
  BY <1>0, Written DEF RoomTypes
<1>3. \A msgs \in Seq(DownMsg) : Delivered(k, msgs) = msgs
  BY <1>1, ConcatEmptySeq DEF Delivered
<1>4. <<w>> \in Seq(DownMsg)
  BY Single
<1>5. ASSUME CanReplay(from)
      PROVE  ToRead(k)' = <<w>> \o Missed(from) /\ cursor'[k] = from
  <2>1. Missed(from) \in Seq(DownMsg)
    BY <1>0, <1>5, HelloIs, MissedIs
  <2>2. PICK msgs \in Seq(DownMsg) : msgs = <<w>> \o Missed(from)
    BY <1>4, <2>1, Concat
  <2>3. /\ down' = [down EXCEPT ![k] = Delivered(k, msgs)]
        /\ cursor' = [cursor EXCEPT ![k] = from] /\ held' = held
    BY <1>2, <1>5, <2>2 DEF Greet
  <2>4. down'[k] = msgs /\ held'[k] = <<>> /\ cursor'[k] = from
    BY <1>0, <1>1, <1>3, <2>3 DEF NetTypes, GhostTypes
  <2>5. ToRead(k)' = msgs
    BY <2>4, ConcatEmptySeq DEF ToRead
  <2> QED
    BY <2>2, <2>4, <2>5
<1>6. ASSUME ~CanReplay(from)
      PROVE  ToRead(k)' = <<w>> \o <<Snapshot(seq, roomDoc)>> /\ cursor'[k] = seq - 1
  <2>1. PICK m : m = Snapshot(seq, roomDoc)
    OBVIOUS
  <2>2. /\ down' = [down EXCEPT ![k] = Delivered(k, <<w>>)]
        /\ cursor' = [cursor EXCEPT ![k] = seq - 1]
        /\ held' = [held EXCEPT ![k] = <<m>>]
    BY <1>2, <1>6, <2>1 DEF Greet
  <2>3. down'[k] = <<w>> /\ held'[k] = <<m>> /\ cursor'[k] = seq - 1
    BY <1>0, <1>3, <1>4, <2>2 DEF NetTypes, GhostTypes
  <2> QED
    BY <2>1, <2>3 DEF ToRead
<1> QED
  BY <1>2, <1>5, <1>6

(* What is in it.                                                           *)
LEMMA GreetedWith ==
  ASSUME TypeOK, LogInOrder, Beginning, NEW k \in Conn, Greet(k), ~GivenUp(k),
         NEW m, m \in Range(ToRead(k))'
  PROVE  \/ m = Welcome \/ m = Snapshot(seq, roomDoc)
         \/ \E e \in Range(log) : m = Relayed(e.seq, e.ops)
<1>0. RoomTypes /\ SaveTypes /\ NetTypes /\ GhostTypes /\ seq \in Nat
  BY DEF TypeOK, RoomTypes
<1>1. PICK from \in Int : from = UpTo(Head(up[k]))
  BY <1>0, HelloIs
<1>2. PICK w \in DownMsg : w = Welcome
  BY <1>0, Written
<1>3. PICK ws \in Seq(DownMsg) : ws = <<w>> /\ Range(ws) = {w}
  BY Single
<1>4. CASE CanReplay(from)
  <2>1. /\ seq - from \in Nat /\ Missed(from) \in Seq(DownMsg)
        /\ Len(Missed(from)) = seq - from
    BY <1>0, <1>4, MissedIs
  <2>2. ToRead(k)' = ws \o Missed(from)
    BY <1>1, <1>2, <1>3, <1>4, Greeted
  <2>3. m = w \/ m \in Range(Missed(from))
    <3>1. Range(ws \o Missed(from)) = Range(ws) \cup Range(Missed(from))
      BY <1>3, <2>1, Concat
    <3>2. m \in Range(ws \o Missed(from))
      BY <2>2
    <3> QED
      BY <1>3, <3>1, <3>2
  <2>4. ASSUME m \in Range(Missed(from))
        PROVE  \E e \in Range(log) : m = Relayed(e.seq, e.ops)
    <3>1. PICK i \in 1 .. seq - from : m = Missed(from)[i]
      BY <2>1, <2>4, LenProperties DEF Range
    <3>2. PICK n \in Nat : n = Len(log) /\ log \in Seq([seq : Nat, ops : Seq(Op)])
      BY <1>0, LenProperties DEF RoomTypes
    <3>3. \A j \in 1 .. n : log[j].seq = seq - n + j /\ j \in DOMAIN log
      BY <3>2, LenProperties DEF LogInOrder
    <3>4. from >= FirstLogged - 1 /\ FirstLogged = seq - n + 1
      <4>1. from >= FirstLogged - 1
        BY <1>4 DEF CanReplay
      <4>2. CASE log = <<>>
        <5>1. n = 0 /\ FirstLogged = seq + 1
          BY <3>2, <4>2, EmptySeq DEF FirstLogged
        <5> QED
          BY <1>0, <4>1, <5>1
      <4>3. CASE log # <<>>
        <5>1. n # 0 /\ Head(log) = log[1]
          BY <3>2, <4>3, EmptySeq
        <5>2. FirstLogged = log[1].seq
          BY <4>3, <5>1 DEF FirstLogged
        <5> QED
          BY <1>0, <3>2, <3>3, <4>1, <5>1, <5>2
      <4> QED
        BY <4>1, <4>2, <4>3
    <3>5. PICK j \in 1 .. n : j = from + i - FirstLogged + 1
      <4>1. from + i - FirstLogged + 1 \in 1 .. n
        BY <1>0, <3>1, <3>2, <3>4
      <4> QED
        BY <4>1
    <3>6. m = Relayed(from + i, log[j].ops)
      BY <3>1, <3>5 DEF Missed
    <3>7. log[j] \in Range(log)
      BY <3>3, <3>5 DEF Range
    <3>8. log[j].seq = from + i
      <4>1. j = from + i - (seq - n + 1) + 1
        BY <3>4, <3>5
      <4>2. log[j].seq = seq - n + j
        BY <3>3
      <4> QED
        BY <1>0, <3>1, <3>2, <4>1, <4>2
    <3> QED
      BY <3>6, <3>7, <3>8
  <2> QED
    BY <1>2, <2>3, <2>4
<1>5. CASE ~CanReplay(from)
  <2>1. PICK s \in DownMsg : s = Snapshot(seq, roomDoc)
    BY <1>0, Written DEF RoomTypes
  <2>2. PICK ss \in Seq(DownMsg) : ss = <<s>> /\ Range(ss) = {s}
    BY Single
  <2>3. ToRead(k)' = ws \o ss
    BY <1>1, <1>2, <1>3, <1>5, <2>1, <2>2, Greeted
  <2>4. m = w \/ m = s
    <3>0. ws \in Seq(DownMsg) /\ ss \in Seq(DownMsg)
      BY <1>3, <2>2
    <3>1. Range(ws \o ss) = Range(ws) \cup Range(ss)
      BY <3>0, Concat
    <3>2. m \in Range(ws \o ss)
      BY <2>3
    <3> QED
      BY <1>3, <2>2, <3>1, <3>2
  <2> QED
    BY <1>2, <2>1, <2>4
<1> QED
  BY <1>4, <1>5

(* On a connection in use, confirmations and batches go by their numbers:   *)
(* what is confirmed comes before what waits for the room, and a client     *)
(* keeps what waits for the room under its number or has taken it back into *)
(* a later batch.                                                           *)
InLine(k) ==
  /\ Rising(ToRead(k), "ack") /\ Rising(up[k], "ops")
  /\ \A m \in Range(ToRead(k)), b \in Range(up[k]) :
       m.type = "ack" /\ b.type = "ops" => m.id < b.id
  /\ \A b \in Range(up[k]) : b.type = "ops" => Range(b.ops) \subseteq KeptFrom(k[1], b.id)

(* So on every connection in use.                                          *)
Lined == \A k \in Conn : ~GivenUp(k) => InLine(k)

(* A confirmation to be read was to be read before, or is for the batch the *)
(* room takes.                                                              *)
LEMMA AcksFrom ==
  ASSUME TypeOK, TypeOK', LogInOrder, Beginning, Beginning', [Next]_vars,
         NEW k \in Conn, ~GivenUp(k)',
         NEW m, m \in Range(ToRead(k))', m.type = "ack"
  PROVE  /\ ~GivenUp(k)
         /\ m \in Range(ToRead(k)) \/ (Receive(k) /\ m.id = Head(up[k]).id)
<1>0. /\ down[k] \in Seq(DownMsg) /\ held[k] \in Seq(DownMsg)
      /\ ToRead(k) \in Seq(DownMsg)
      /\ Range(ToRead(k)) = Range(down[k]) \cup Range(held[k])
  BY OnConnection
<1>1. peer'[k] \in {"greeted", "closed"}
  <2>1. peer'[k] \in {"none", "joined"} => ToRead(k)' = <<>> \o <<>>
    BY DEF Beginning, ToRead
  <2>2. <<>> \o <<>> = <<>>
    BY EmptySeq, ConcatEmptySeq
  <2>3. peer'[k] \in {"none", "joined"} => FALSE
    BY <2>1, <2>2, NothingIn
  <2> QED
    BY <2>3 DEF TypeOK, NetTypes
<1>2. CASE Quiet(k)
  BY <1>2 DEF Quiet, InUse
<1>3. CASE ReadsNext(k)
  BY <1>0, <1>3, Shortened DEF ReadsNext, InUse
<1>4. CASE IsTold(k)
  <2>1. PICK q \in Conn : Receive(q) /\ ToRead(k)' = Append(ToRead(k), Told(k, q, Head(up[q])))
    BY <1>4 DEF IsTold
  <2>2. PICK t \in DownMsg : t = Told(k, q, Head(up[q]))
    BY <2>1, ToldIs DEF TypeOK
  <2>3. m \in Range(ToRead(k)) \/ m = t
    BY <1>0, <2>1, <2>2, Appended
  <2>4. m = t => q = k /\ m.id = Head(up[k]).id
    BY <2>2 DEF Told, Ack, Relayed
  <2> QED
    BY <1>4, <2>1, <2>3, <2>4 DEF IsTold
<1>5. CASE Ends(k)
  BY <1>0, <1>5 DEF Ends
<1>6. CASE Greet(k) /\ ~GivenUp(k)
  <2>1. \/ m = Welcome \/ m = Snapshot(seq, roomDoc)
        \/ \E e \in Range(log) : m = Relayed(e.seq, e.ops)
    BY <1>6, GreetedWith
  <2>2. m.type # "ack"
    BY <2>1 DEF Welcome, Snapshot, Relayed
  <2> QED
    BY <2>2
<1> QED
  BY <1>1, <1>2, <1>3, <1>4, <1>5, <1>6, StreamSteps DEF StreamStep

(* A batch on its way to the room was on its way before, or is sent now.    *)
LEMMA BatchesFrom ==
  ASSUME TypeOK, Numbered, [Next]_vars, NEW k \in Conn, ~GivenUp(k)',
         NEW b, b \in Range(up'[k]), b.type = "ops"
  PROVE  /\ ~GivenUp(k)
         /\ \/ b \in Range(up[k])
            \/ \E kept, ops : IsSent(k, kept, ops) /\ b = Batch(nextBatch[k[1]] + 1, ops)
<1>0. up[k] \in Seq(UpMsg) /\ k[1] \in Client
  BY OnConnection
<1>1. CASE up'[k] = <<>>
  BY <1>1, NothingIn
<1>2. CASE Waits(k)
  BY <1>2 DEF Waits
<1>3. CASE IsHeard(k)
  BY <1>0, <1>3, Shortened DEF IsHeard
<1>4. CASE Opens(k)
  <2>1. PICK h : h = Hello(IF clientSeq[k[1]] = Unseen THEN version[k[1]] ELSE Unseen,
                           clientSeq[k[1]])
    OBVIOUS
  <2>2. Range(up'[k]) = {h}
    BY <1>4, <2>1, Single DEF Opens
  <2>3. h.type = "hello"
    BY <2>1 DEF Hello
  <2> QED
    BY <2>2, <2>3
<1>5. ASSUME NEW kept, NEW ops, IsSent(k, kept, ops)
      PROVE  /\ ~GivenUp(k)
             /\ b \in Range(up[k]) \/ b = Batch(nextBatch[k[1]] + 1, ops)
  <2>1. PICK s \in UpMsg : s = Batch(nextBatch[k[1]] + 1, ops)
    <3>1. nextBatch[k[1]] + 1 \in Nat /\ ops \in Seq(Op)
      BY <1>0, <1>5 DEF IsSent, TypeOK, WorkTypes
    <3> QED
      BY <3>1, Written
  <2>2. Range(up'[k]) = Range(up[k]) \cup {s}
    BY <1>0, <1>5, <2>1, Appended DEF IsSent
  <2> QED
    BY <1>5, <2>1, <2>2 DEF IsSent
<1> QED
  BY <1>1, <1>2, <1>3, <1>4, <1>5, UpSteps DEF UpStep

(* Confirmations stay in the order of the batches.                         *)
LEMMA LinedKept ==
  ASSUME TypeOK, TypeOK', LogInOrder, Beginning, Beginning', Numbered, OnTheWay, Lined,
         [Next]_vars
  PROVE  Lined'
<1>1. ASSUME NEW k \in Conn, ~GivenUp(k)' PROVE InLine(k)'
  <2>0. /\ down[k] \in Seq(DownMsg) /\ held[k] \in Seq(DownMsg)
        /\ ToRead(k) \in Seq(DownMsg) /\ up[k] \in Seq(UpMsg)
        /\ Range(ToRead(k)) = Range(down[k]) \cup Range(held[k])
        /\ Range(ToRead(k)) \subseteq DownMsg /\ Range(up[k]) \subseteq UpMsg
        /\ k[1] \in Client /\ up'[k] \in Seq(UpMsg) /\ ToRead(k)' \in Seq(DownMsg)
    <3>1. /\ down'[k] \in Seq(DownMsg) /\ held'[k] \in Seq(DownMsg)
          /\ up'[k] \in Seq(UpMsg)
      BY DEF TypeOK, NetTypes
    <3>2. ToRead(k)' \in Seq(DownMsg)
      BY <3>1, Concat DEF ToRead
    <3> QED
      BY <3>1, <3>2, OnConnection
  <2>1. PICK n \in Nat : n = nextBatch[k[1]]
    BY <2>0 DEF TypeOK, WorkTypes
  <2>2. /\ \A b \in Range(up[k]) : b.type = "ops" => b.id \in Nat /\ b.id <= n
        /\ \A m \in Range(ToRead(k)) : m.type = "ack" => m.id \in Nat /\ m.id <= n
    <3>1. /\ \A b \in Range(up[k]) : Known(k[1], b)
          /\ \A m \in Range(ToRead(k)) : Earned(k[1], m)
      BY <2>0 DEF OnTheWay
    <3> QED
      BY <2>0, <2>1, <3>1, Messages DEF Known, Earned
  <2>3. ~GivenUp(k) => InLine(k)
    BY DEF Lined
  <2>4. ~GivenUp(k) => Current(k[1]) = k
    BY DEF GivenUp
  <2>5. Rising(ToRead(k), "ack")'
    <3>0. PICK t \in Seq(DownMsg) : t = ToRead(k)'
      BY <2>0
    <3>1. ASSUME \A m \in Range(t) : m.type # "ack"
          PROVE  Rising(t, "ack")
      BY <3>1, RisingNone
    <3>2. ASSUME \E m \in Range(t) : m.type = "ack"
          PROVE  Rising(t, "ack")
      <4>1. ~GivenUp(k) /\ InLine(k)
        <5>1. PICK m : m \in Range(ToRead(k))' /\ m.type = "ack"
          BY <3>0, <3>2
        <5> QED
          BY <1>1, <2>3, <5>1, AcksFrom
      <4>2. Rising(ToRead(k), "ack")
        BY <4>1 DEF InLine
      <4>3. CASE Quiet(k)
        BY <3>0, <4>2, <4>3 DEF Quiet
      <4>4. CASE ReadsNext(k)
        BY <2>0, <3>0, <4>2, <4>4, RisingDown DEF ReadsNext
      <4>5. CASE Ends(k)
        <5>1. PICK d \in Seq(DownMsg), h \in Seq(DownMsg) : d = down[k] /\ h = held[k]
          BY <2>0
        <5>2. Rising(d, "ack")
          BY <4>2, <5>1, RisingFirst DEF ToRead
        <5> QED
          BY <3>0, <4>5, <5>1, <5>2 DEF Ends
      <4>6. CASE IsTold(k)
        <5>1. PICK q \in Conn : Receive(q) /\ t = Append(ToRead(k), Told(k, q, Head(up[q])))
          BY <3>0, <4>6 DEF IsTold
        <5>2. PICK e \in DownMsg : e = Told(k, q, Head(up[q]))
          BY <5>1, ToldIs DEF TypeOK
        <5>3. ASSUME NEW m \in Range(ToRead(k)), m.type = "ack", e.type = "ack"
              PROVE  m.id < e.id
          <6>1. q = k /\ e.id = Head(up[k]).id
            BY <5>2, <5>3 DEF Told, Relayed, Ack
          <6>2. Head(up[k]) \in Range(up[k]) /\ Head(up[k]).type = "ops"
            BY <2>0, <5>1, <6>1, Shortened DEF Receive, Hears
          <6> QED
            BY <4>1, <5>3, <6>1, <6>2 DEF InLine
        <5> QED
          BY <2>0, <4>2, <5>1, <5>2, <5>3, RisingOn
      <4>7. CASE Greet(k)
        <5>1. PICK m : m \in Range(ToRead(k))' /\ m.type = "ack"
          BY <3>0, <3>2
        <5>2. \/ m = Welcome \/ m = Snapshot(seq, roomDoc)
              \/ \E e \in Range(log) : m = Relayed(e.seq, e.ops)
          BY <4>1, <4>7, <5>1, GreetedWith
        <5> QED
          BY <5>1, <5>2 DEF Welcome, Snapshot, Relayed
      <4>8. peer'[k] \in {"greeted", "closed"}
        <5>1. peer'[k] \in {"none", "joined"} => t = <<>> \o <<>>
          BY <3>0 DEF Beginning, ToRead
        <5>2. <<>> \o <<>> = <<>>
          BY EmptySeq, ConcatEmptySeq
        <5>3. peer'[k] \in {"none", "joined"} => FALSE
          BY <3>2, <5>1, <5>2, NothingIn
        <5> QED
          BY <5>3 DEF TypeOK, NetTypes
      <4> QED
        BY <1>1, <4>3, <4>4, <4>5, <4>6, <4>7, <4>8, StreamSteps DEF StreamStep
    <3>3. Rising(t, "ack")
      BY <3>1, <3>2
    <3> QED
      BY <3>0, <3>3 DEF Rising
  <2>6. Rising(up[k], "ops")'
    <3>0. PICK u \in Seq(UpMsg) : u = up'[k]
      BY <2>0
    <3>1. ASSUME \A m \in Range(u) : m.type # "ops"
          PROVE  Rising(u, "ops")
      BY <3>1, RisingNone
    <3>2. ASSUME \E m \in Range(u) : m.type = "ops"
          PROVE  Rising(u, "ops")
      <4>1. ~GivenUp(k) /\ InLine(k)
        BY <1>1, <2>3, <3>0, <3>2, BatchesFrom
      <4>2. Rising(up[k], "ops")
        BY <4>1 DEF InLine
      <4>3. CASE Waits(k)
        BY <3>0, <4>2, <4>3 DEF Waits
      <4>4. CASE IsHeard(k)
        BY <2>0, <3>0, <4>2, <4>4, RisingDown DEF IsHeard
      <4>5. ASSUME NEW kept, NEW ops, IsSent(k, kept, ops)
            PROVE  Rising(u, "ops")
        <5>1. PICK b \in UpMsg : b = Batch(n + 1, ops) /\ b.id = n + 1
          <6>1. ops \in Seq(Op)
            BY <4>5 DEF IsSent
          <6>2. Batch(n + 1, ops) \in UpMsg
            BY <6>1, Written
          <6>3. Batch(n + 1, ops).id = n + 1
            BY DEF Batch
          <6> QED
            BY <6>2, <6>3
        <5>2. u = Append(up[k], b)
          BY <2>1, <3>0, <4>5, <5>1 DEF IsSent
        <5>3. \A m \in Range(up[k]) : m.type = "ops" /\ b.type = "ops" => m.id < b.id
          BY <2>2, <5>1
        <5> QED
          BY <2>0, <4>2, <5>2, <5>3, RisingOn
      <4>6. CASE Opens(k)
        <5>1. PICK h : h = Hello(IF clientSeq[k[1]] = Unseen THEN version[k[1]] ELSE Unseen,
                                 clientSeq[k[1]])
          OBVIOUS
        <5>2. Range(u) = {h}
          BY <3>0, <4>6, <5>1, Single DEF Opens
        <5>3. h.type = "hello"
          BY <5>1 DEF Hello
        <5> QED
          BY <3>2, <5>2, <5>3
      <4>7. u # <<>>
        BY <3>2, NothingIn
      <4> QED
        BY <1>1, <3>0, <4>3, <4>4, <4>5, <4>6, <4>7, UpSteps DEF UpStep
    <3>3. Rising(u, "ops")
      BY <3>1, <3>2
    <3> QED
      BY <3>0, <3>3 DEF Rising
  <2>7. ASSUME NEW m, m \in Range(ToRead(k))', m.type = "ack",
               NEW b, b \in Range(up'[k]), b.type = "ops"
        PROVE  m.id < b.id
    <3>1. ~GivenUp(k) /\ InLine(k)
      BY <1>1, <2>3, <2>7, BatchesFrom
    <3>2. CASE m \in Range(ToRead(k))
      <4>1. CASE b \in Range(up[k])
        BY <2>7, <3>1, <3>2, <4>1 DEF InLine
      <4>2. ASSUME NEW ops, b = Batch(nextBatch[k[1]] + 1, ops)
            PROVE  m.id < b.id
        <5>1. b.id = n + 1
          BY <2>1, <4>2 DEF Batch
        <5> QED
          BY <2>2, <2>7, <3>2, <5>1
      <4> QED
        BY <1>1, <2>7, <4>1, <4>2, BatchesFrom
    <3>3. CASE Receive(k) /\ m.id = Head(up[k]).id
      <4>1. up[k] # <<>> /\ Head(up[k]).type = "ops" /\ up'[k] = Tail(up[k])
        BY <3>3 DEF Receive, Hears, TypeOK, NetTypes
      <4>2. Rising(up[k], "ops")
        BY <3>1 DEF InLine
      <4>3. b \in Range(Tail(up[k]))
        BY <2>7, <4>1
      <4>4. Head(up[k]).id < b.id
        BY <2>0, <2>7, <4>1, <4>2, <4>3, RisingDown
      <4> QED
        BY <3>3, <4>4
    <3> QED
      BY <1>1, <2>7, <3>2, <3>3, AcksFrom
  <2>8. ASSUME NEW b, b \in Range(up'[k]), b.type = "ops"
        PROVE  Range(b.ops) \subseteq KeptFrom(k[1], b.id)'
    <3>1. ~GivenUp(k) /\ InLine(k)
      BY <1>1, <2>3, <2>8, BatchesFrom
    <3>2. CASE b \in Range(up[k])
      <4>1. PICK id \in Nat : id = b.id /\ id <= n
        BY <2>2, <2>8, <3>2
      <4>2. Range(b.ops) \subseteq KeptFrom(k[1], id)
        BY <2>8, <3>1, <3>2, <4>1 DEF InLine
      <4>3. ASSUME ReadAck(k[1]) PROVE id > Head(down[Current(k[1])]).id
        <5>1. Reads(k[1], "ack") /\ Current(k[1]) = k
          BY <2>4, <3>1, <4>3 DEF ReadAck
        <5>2. Head(down[k]) \in Range(down[k]) /\ Head(down[k]).type = "ack"
          BY <2>0, <5>1, ReadIs DEF TypeOK
        <5>3. PICK h \in Range(ToRead(k)) : h = Head(down[k]) /\ h.type = "ack"
          BY <2>0, <5>2
        <5>4. h.id < id /\ h.id \in Nat
          BY <2>2, <2>8, <3>1, <3>2, <4>1, <5>3 DEF InLine
        <5> QED
          BY <5>1, <5>3, <5>4
      <4>4. KeptFrom(k[1], id) \subseteq KeptFrom(k[1], id)'
        BY <2>0, <2>1, <4>1, <4>3, KeptOn
      <4> QED
        BY <4>1, <4>2, <4>4
    <3>3. ASSUME NEW kept, NEW ops, IsSent(k, kept, ops), b = Batch(nextBatch[k[1]] + 1, ops)
          PROVE  Range(b.ops) \subseteq KeptFrom(k[1], b.id)'
      <4>1. b.ops = ops /\ b.id = n + 1
        BY <2>1, <3>3 DEF Batch
      <4>2. /\ kept \in SUBSET DOMAIN unacked[k[1]] /\ ops \in Seq(Op)
            /\ Send(k[1], kept, ops) /\ Range(ops) \subseteq Pending(k[1])
            /\ kept = DOMAIN unacked[k[1]] \/ Range(ops) = Pending(k[1])
        BY <3>3 DEF IsSent
      <4>3. n + 1 \in Nat /\ n + 1 <= nextBatch[k[1]] + 1 /\ WorkTypes
        BY <2>1 DEF TypeOK
      <4>4. Range(ops) \subseteq KeptFrom(k[1], n + 1)'
        BY <2>0, <4>2, <4>3, SentIsKept
      <4> QED
        BY <4>1, <4>4
    <3> QED
      BY <1>1, <2>8, <3>2, <3>3, BatchesFrom
  <2> QED
    BY <2>5, <2>6, <2>7, <2>8 DEF InLine
<1> QED
  BY <1>1 DEF Lined

-----------------------------------------------------------------------------
(* What the messages say is what the room held.                            *)

(* A message is right if it leads from the document the room had to the one *)
(* it had next; a confirmation stands for what its client keeps.            *)
Right(m, c) ==
  /\ m.seq \in 0 .. seq
  /\ m.type = "snapshot" => m.doc = past[m.seq]
  /\ m.type = "ops" => m.seq \in 1 .. seq /\ past[m.seq] = Apply(past[m.seq - 1], m.ops)
  /\ m.type = "ack" => /\ m.seq \in 1 .. seq
                       /\ past[m.seq] \subseteq past[m.seq - 1] \cup KeptFrom(c, m.id)

(* What comes from the room that is open now.                               *)
Fresh(k) ==
  \/ ~GivenUp(k) /\ peer[k] = "greeted"
  \/ ~GivenUp(k) /\ peer[k] = "closed" /\ ~gap[k[1]]

(* All that is still to be read from this room is right.                   *)
Contents == \A k \in Conn : Fresh(k) => \A m \in Range(ToRead(k)) : Right(m, k[1])

(* A message that was right stays right, as long as its batch is kept.      *)
LEMMA RightStays ==
  ASSUME seq \in Nat, PastStays, NEW m \in DownMsg, NEW c, Right(m, c),
         m.type = "ack" => KeptFrom(c, m.id) \subseteq KeptFrom(c, m.id)'
  PROVE  Right(m, c)'
<1>0. seq' \in Nat /\ seq <= seq' /\ \A n \in 0 .. seq : past'[n] = past[n]
  BY DEF PastStays
<1>1. PICK n \in 0 .. seq : n = m.seq
  BY DEF Right
<1>2. n \in 0 .. seq' /\ past'[n] = past[n]
  BY <1>0, <1>1
<1>3. n \in 1 .. seq => n - 1 \in 0 .. seq /\ n \in 1 .. seq'
  BY <1>0, <1>1
<1>4. n \in 1 .. seq => past'[n - 1] = past[n - 1] /\ n \in 1 .. seq'
  BY <1>0, <1>3
<1> QED
  BY <1>1, <1>2, <1>4 DEF Right

(* What the log tells is right, and the whole file as well.                 *)
LEMMA LogIsRight ==
  ASSUME RoomTypes, Past, NEW c
  PROVE  /\ Right(Welcome, c) /\ Right(Snapshot(seq, roomDoc), c)
         /\ \A e \in Range(log) : Right(Relayed(e.seq, e.ops), c)
<1>0. seq \in Nat
  BY DEF RoomTypes
<1>1. Right(Welcome, c)
  BY <1>0 DEF Right, Welcome
<1>2. Right(Snapshot(seq, roomDoc), c)
  BY <1>0 DEF Right, Snapshot, Past
<1>3. ASSUME NEW e \in Range(log) PROVE Right(Relayed(e.seq, e.ops), c)
  <2>1. e.seq \in 1 .. seq /\ past[e.seq] = Apply(past[e.seq - 1], e.ops)
    BY DEF Past
  <2>2. e.seq \in 0 .. seq
    BY <1>0, <2>1
  <2> QED
    BY <2>1, <2>2 DEF Right, Relayed
<1> QED
  BY <1>1, <1>2, <1>3

(* So is what is told of a batch.                                           *)
LEMMA ToldIsRight ==
  ASSUME TypeOK, Past, NEW k \in Conn, NEW q \in Conn, Receive(q), ~GivenUp(k), InLine(k),
         NEW m, m = Told(k, q, Head(up[q]))
  PROVE  Right(m, k[1])'
<1>0. RoomTypes /\ NetTypes /\ seq \in Nat /\ up[q] \in Seq(UpMsg)
  BY DEF TypeOK, RoomTypes, NetTypes
<1>1. PICK ops \in Seq(Op), id \in Nat : ops = Head(up[q]).ops /\ id = Head(up[q]).id
  BY <1>0, ToldIs
<1>2. /\ roomDoc' = Apply(roomDoc, ops) /\ seq' = seq + 1
      /\ past' = [n \in 0 .. seq + 1 |-> IF n <= seq THEN past[n] ELSE roomDoc']
      /\ unacked' = unacked
  BY <1>1 DEF Receive, clientVars
<1>3. past'[seq + 1] = Apply(past[seq], ops) /\ past'[(seq + 1) - 1] = past[seq]
  BY <1>0, <1>2 DEF Past
<1>4. seq + 1 \in 0 .. seq + 1 /\ seq + 1 \in 1 .. seq + 1
  BY <1>0
<1>5. CASE k = q
  <2>2. m.type = "ack" /\ m.id = id /\ m.seq = seq + 1
    BY <1>1, <1>5 DEF Told, Ack
  <2>3. Range(ops) \subseteq KeptFrom(k[1], id)
    <3>1. Head(up[q]).type = "ops" /\ Head(up[q]) \in Range(up[q])
      BY <1>0, Shortened DEF Receive, Hears
    <3> QED
      BY <1>1, <1>5, <3>1 DEF InLine
  <2>4. KeptFrom(k[1], id)' = KeptFrom(k[1], id)
    BY <1>2 DEF KeptFrom
  <2>5. past'[seq + 1] \subseteq past[seq] \cup KeptFrom(k[1], id)'
    BY <1>3, <2>3, <2>4, ApplyGrows
  <2> QED
    BY <1>2, <1>3, <1>4, <2>2, <2>5 DEF Right
<1>6. CASE k # q
  <2>2. m.type = "ops" /\ m.ops = ops /\ m.seq = seq + 1
    BY <1>1, <1>6 DEF Told, Relayed
  <2> QED
    BY <1>2, <1>3, <1>4, <2>2 DEF Right
<1> QED
  BY <1>5, <1>6

(* Only a snapshot from the room that is open closes a gap.                 *)
LEMMA GapStays ==
  ASSUME TypeOK, [Next]_vars, NEW c \in Client, gap[c], ~gap'[c]
  PROVE  ReadSnapshot(c) /\ peer[Current(c)] = "greeted"
<1>0. gap \in [Client -> BOOLEAN]
  BY DEF TypeOK, GhostTypes
<1>1. ASSUME UNCHANGED gap PROVE FALSE
  BY <1>1
<1>2. ASSUME LoadRecord(c) \/ LoadDocument(c) \/ Edit(c) \/ Connect(c) \/ Flush(c)
      PROVE  UNCHANGED gap
  BY <1>2 DEF LoadRecord, LoadDocument, Edit, Connect, Flush, ghostVars
<1>3. ASSUME ReadWelcome(c) \/ ReadOps(c) \/ ReadAck(c) PROVE UNCHANGED gap
  BY <1>3 DEF ReadWelcome, ReadOps, ReadAck, ghostVars
<1>4. CASE ClientClose(c)
  BY <1>0, <1>4 DEF ClientClose
<1>5. CASE ReadSnapshot(c)
  BY <1>0, <1>5 DEF ReadSnapshot
<1>6. CASE Untouched(c)
  BY <1>6 DEF Untouched
<1> QED
  BY <1>1, <1>2, <1>3, <1>4, <1>5, <1>6, ClientSteps DEF ClientStep, Read

(* What the client has still to read stays right.                           *)
LEMMA ContentsKept ==
  ASSUME TypeOK, TypeOK', LogInOrder, Beginning, Beginning', Numbered, OnTheWay, Past,
         Lined, Contents, [Next]_vars
  PROVE  Contents'
<1>1. ASSUME NEW k \in Conn, Fresh(k)', NEW m, m \in Range(ToRead(k))'
      PROVE  Right(m, k[1])'
  <2>0. /\ down[k] \in Seq(DownMsg) /\ held[k] \in Seq(DownMsg)
        /\ ToRead(k) \in Seq(DownMsg) /\ Range(ToRead(k)) \subseteq DownMsg
        /\ Range(ToRead(k)) = Range(down[k]) \cup Range(held[k])
        /\ k[1] \in Client /\ RoomTypes /\ seq \in Nat
    BY OnConnection DEF TypeOK, RoomTypes
  <2>1. ~GivenUp(k)' /\ peer'[k] \in {"greeted", "closed"}
    BY <1>1 DEF Fresh
  <2>2. peer'[k] = "greeted" \/ ~gap'[k[1]]
    BY <1>1 DEF Fresh
  <2>3. ~GivenUp(k) => Current(k[1]) = k
    BY DEF GivenUp
  <2>4. ASSUME ~GivenUp(k), ReadAck(k[1])
        PROVE  /\ ToRead(k) # <<>> /\ Head(ToRead(k)).type = "ack"
               /\ Head(ToRead(k)) = Head(down[Current(k[1])])
               /\ ToRead(k)' = Tail(ToRead(k))
    <3>1. Reads(k[1], "ack") /\ Current(k[1]) = k /\ held' = held
      BY <2>3, <2>4 DEF ReadAck
    <3>2. PICK q \in Conn : q = Current(k[1]) /\ q = k
      BY <3>1
    <3>4. /\ Head(down[q]).type = "ack" /\ down[q] # <<>>
          /\ down' = [down EXCEPT ![q] = Tail(down[q])]
      BY <3>1, <3>2 DEF Reads
    <3>5. down'[q] = Tail(down[q])
      BY <3>2, <3>4 DEF TypeOK, NetTypes
    <3>3. /\ down'[k] = Tail(down[k]) /\ down[k] # <<>>
          /\ Head(down[k]) = Head(down[Current(k[1])]) /\ Head(down[k]).type = "ack"
      BY <3>2, <3>4, <3>5
    <3> QED
      BY <2>0, <3>1, <3>3, Joined DEF ToRead
  <2>5. ASSUME ~Reopen, ~GivenUp(k), m \in Range(ToRead(k)),
               peer[k] = "greeted" \/ (peer[k] = "closed" /\ peer'[k] = "closed")
        PROVE  Right(m, k[1])'
    <3>1. Fresh(k)
      <4>1. peer[k] = "closed" => ~gap[k[1]]
        BY <2>0, <2>2, <2>3, <2>5, GapStays
      <4> QED
        BY <2>5, <4>1 DEF Fresh
    <3>2. m \in DownMsg /\ Right(m, k[1])
      BY <2>0, <2>5, <3>1 DEF Contents
    <3>3. PastStays
      BY <2>0, <2>5, PastKeeps
    <3>4. ASSUME m.type = "ack"
          PROVE  KeptFrom(k[1], m.id) \subseteq KeptFrom(k[1], m.id)'
      <4>0. PICK id \in Nat : id = m.id
        BY <3>2, <3>4, Messages
      <4>1. id <= nextBatch[k[1]]
        BY <2>0, <2>5, <3>4, <4>0 DEF OnTheWay, Earned
      <4>2. ASSUME ReadAck(k[1]) PROVE id > Head(down[Current(k[1])]).id
        <5>1. PICK s \in Seq(DownMsg) : s = ToRead(k) /\ s # <<>>
          BY <2>0, <2>4, <2>5, <4>2
        <5>2. /\ Head(s).type = "ack" /\ Head(s) = Head(down[Current(k[1])])
              /\ m \in Range(Tail(s))
          BY <1>1, <2>4, <2>5, <4>2, <5>1
        <5>3. Rising(s, "ack")
          BY <2>5, <5>1 DEF Lined, InLine
        <5>4. Head(s).id < m.id
          BY <3>4, <5>1, <5>2, <5>3, RisingDown
        <5>5. Head(s).id \in Nat
          BY <5>1, <5>2, Shortened, Messages
        <5> QED
          BY <4>0, <5>2, <5>4, <5>5
      <4>3. KeptFrom(k[1], id) \subseteq KeptFrom(k[1], id)'
        BY <2>0, <4>1, <4>2, KeptOn
      <4> QED
        BY <4>0, <4>3
    <3> QED
      BY <2>0, <3>2, <3>3, <3>4, RightStays
  <2>6. ASSUME Reopen PROVE FALSE
    <3>1. /\ peer'[k] # "greeted" /\ held'[k] = <<>> /\ down' = down
          /\ UNCHANGED <<conn, online>>
          /\ gap' = [c \in Client |-> \/ gap[c] \/ clientSeq[c] # Unseen
                                      \/ online[c] /\ down[Current(c)] # <<>>]
      BY <2>6 DEF Reopen, OpenPeers, clientVars
    <3>2. ~GivenUp(k)
      BY <2>1, <3>1, GivenUpKept
    <3>3. online[k[1]] /\ Current(k[1]) = k
      BY <3>2 DEF GivenUp
    <3>4. down[k] = <<>>
      BY <2>0, <2>2, <3>1, <3>3
    <3>5. ToRead(k)' = <<>> \o <<>>
      BY <3>1, <3>4 DEF ToRead
    <3>6. <<>> \o <<>> = <<>>
      BY EmptySeq, ConcatEmptySeq
    <3> QED
      BY <1>1, <3>5, <3>6, NothingIn
  <2>7. ASSUME Quiet(k) PROVE Right(m, k[1])'
    <3>1. ~GivenUp(k) /\ peer[k] \in {"greeted", "closed"} /\ peer'[k] = peer[k]
          /\ ToRead(k)' = ToRead(k)
      BY <2>7 DEF Quiet, InUse
    <3> QED
      BY <1>1, <2>5, <2>6, <3>1
  <2>8. ASSUME ReadsNext(k) PROVE Right(m, k[1])'
    <3>1. ~GivenUp(k) /\ peer[k] \in {"greeted", "closed"} /\ peer'[k] = peer[k]
          /\ ToRead(k) # <<>> /\ ToRead(k)' = Tail(ToRead(k))
      BY <2>8 DEF ReadsNext, InUse
    <3>2. m \in Range(ToRead(k))
      BY <1>1, <2>0, <3>1, Shortened
    <3> QED
      BY <2>5, <2>6, <3>1, <3>2
  <2>9. ASSUME IsTold(k) PROVE Right(m, k[1])'
    <3>1. ~GivenUp(k) /\ peer[k] = "greeted"
      BY <2>9 DEF IsTold
    <3>2. PICK q \in Conn : Receive(q) /\ ToRead(k)' = Append(ToRead(k), Told(k, q, Head(up[q])))
      BY <2>9 DEF IsTold
    <3>3. PICK t \in DownMsg : t = Told(k, q, Head(up[q]))
      BY <3>2, ToldIs DEF TypeOK
    <3>4. m \in Range(ToRead(k)) \/ m = t
      BY <1>1, <2>0, <3>2, <3>3, Appended
    <3>5. InLine(k)
      BY <3>1 DEF Lined
    <3>6. m = t => Right(m, k[1])'
      BY <3>1, <3>2, <3>3, <3>5, ToldIsRight
    <3> QED
      BY <2>5, <2>6, <3>1, <3>4, <3>6
  <2>10. ASSUME Ends(k) PROVE Right(m, k[1])'
    <3>1. ~GivenUp(k) /\ peer'[k] = "closed" /\ ServerClose(k) /\ ToRead(k)' = down[k]
      BY <2>6, <2>10 DEF Ends
    <3>2. peer[k] \in {"joined", "greeted"}
      BY <3>1 DEF ServerClose
    <3>3. peer[k] # "joined"
      BY <1>1, <3>1, NothingIn DEF Beginning
    <3> QED
      BY <1>1, <2>0, <2>5, <2>6, <3>1, <3>2, <3>3
  <2>11. ASSUME Greet(k), ~GivenUp(k) PROVE Right(m, k[1])'
    <3>1. \/ m = Welcome \/ m = Snapshot(seq, roomDoc)
          \/ \E e \in Range(log) : m = Relayed(e.seq, e.ops)
      BY <1>1, <2>11, GreetedWith
    <3>2. Right(m, k[1])
      BY <2>0, <3>1, LogIsRight
    <3>3. UNCHANGED <<seq, past, unacked>>
      BY <2>11 DEF Greet, roomVars, clientVars
    <3> QED
      BY <3>2, <3>3 DEF Right, KeptFrom
  <2> QED
    BY <2>1, <2>7, <2>8, <2>9, <2>10, <2>11, StreamSteps DEF StreamStep
<1> QED
  BY <1>1 DEF Contents

-----------------------------------------------------------------------------
(* What each client has.                                                   *)

(* What is still to be read goes on from what its client has, and does not  *)
(* start with the whole file; p is the state of the connection.             *)
GoesOn(s, p) ==
  IF Skip(s) < Len(s) THEN s[1 + Skip(s)].type # "snapshot" ELSE p = "greeted"

(* With one message more.                                                   *)
LEMMA GoesOnMore ==
  ASSUME NEW s \in Seq(DownMsg), NEW m \in DownMsg, m.type # "welcome"
  PROVE  /\ Skip(Append(s, m)) = Skip(s)
         /\ Skip(s) = 1 => Head(Append(s, m)) = Head(s)
         /\ GoesOn(Append(s, m), "greeted") => GoesOn(s, "greeted")
<1>1. PICK n \in Nat : n = Len(s)
  BY LenProperties
<1>2. PICK t : t = Append(s, m)
  OBVIOUS
<1>3. /\ t \in Seq(DownMsg) /\ t # <<>> /\ Len(t) = n + 1
      /\ \A i \in 1 .. n : t[i] = s[i]
      /\ t[n + 1] = m /\ Head(t) = t[1]
  BY <1>1, <1>2, AppendProperties
<1>4. PICK skip \in {0, 1} : skip = Skip(s)
  BY DEF Skip
<1>5. CASE s = <<>>
  <2>1. n = 0 /\ skip = 0
    BY <1>1, <1>4, <1>5 DEF Skip
  <2>2. Skip(t) = 0
    BY <1>3, <2>1 DEF Skip
  <2> QED
    BY <1>1, <1>2, <1>4, <2>1, <2>2 DEF GoesOn
<1>6. CASE s # <<>>
  <2>1. n \in Nat \ {0} /\ Head(s) = s[1]
    BY <1>1, <1>6, EmptySeq
  <2>2. Head(t) = Head(s)
    BY <1>3, <2>1
  <2>3. Skip(t) = skip
    BY <1>3, <1>4, <1>6, <2>2 DEF Skip
  <2>4. skip < n => 1 + skip \in 1 .. n /\ skip < n + 1
    BY <2>1
  <2>5. GoesOn(t, "greeted") => GoesOn(s, "greeted")
    BY <1>1, <1>3, <1>4, <2>3, <2>4 DEF GoesOn
  <2> QED
    BY <1>2, <1>4, <2>2, <2>3, <2>5
<1> QED
  BY <1>5, <1>6

(* With one message less.                                                   *)
LEMMA GoesOnDown ==
  ASSUME NEW s \in Seq(DownMsg), s # <<>>, WelcomeFirst(s), NEW p
  PROVE  /\ Skip(Tail(s)) = 0
         /\ Head(s).type = "welcome" => Skip(s) = 1 /\ (GoesOn(Tail(s), p) => GoesOn(s, p))
         /\ Head(s).type \notin {"welcome", "snapshot"} => GoesOn(s, p)
<1>1. PICK n \in Nat : n = Len(s) /\ n # 0
  BY EmptySeq
<1>2. PICK t : t = Tail(s)
  OBVIOUS
<1>3. /\ t \in Seq(DownMsg) /\ Len(t) = n - 1
      /\ \A i \in 1 .. n - 1 : t[i] = s[i + 1]
      /\ Head(s) = s[1]
  BY <1>1, <1>2, HeadTailProperties
<1>4. Skip(t) = 0
  <2>1. CASE t = <<>>
    BY <2>1 DEF Skip
  <2>2. CASE t # <<>>
    <3>1. n - 1 \in Nat \ {0} /\ Head(t) = t[1]
      BY <1>3, <2>2, EmptySeq
    <3>2. t[1] = s[2] /\ 2 \in 2 .. n
      BY <1>3, <3>1
    <3>3. t[1].type # "welcome"
      BY <1>1, <3>2 DEF WelcomeFirst
    <3> QED
      BY <3>1, <3>3 DEF Skip
  <2> QED
    BY <2>1, <2>2
<1>5. ASSUME Head(s).type = "welcome"
      PROVE  Skip(s) = 1 /\ (GoesOn(t, p) => GoesOn(s, p))
  <2>1. Skip(s) = 1
    BY <1>5 DEF Skip
  <2>2. 0 < n - 1 <=> 1 < n
    BY <1>1
  <2>3. 0 < n - 1 => t[1 + 0] = s[1 + 1]
    <3>1. 0 < n - 1 => 1 \in 1 .. n - 1
      BY <1>1
    <3> QED
      BY <1>3, <3>1
  <2> QED
    BY <1>1, <1>3, <1>4, <2>1, <2>2, <2>3 DEF GoesOn
<1>6. ASSUME Head(s).type \notin {"welcome", "snapshot"} PROVE GoesOn(s, p)
  <2>1. Skip(s) = 0
    BY <1>6 DEF Skip
  <2>2. 0 < n /\ s[1 + 0].type # "snapshot"
    BY <1>1, <1>3, <1>6
  <2> QED
    BY <1>1, <2>1, <2>2 DEF GoesOn
<1> QED
  BY <1>2, <1>4, <1>5, <1>6

(* When the end of it is lost.                                              *)
LEMMA GoesOnFirst ==
  ASSUME NEW s \in Seq(DownMsg), NEW t \in Seq(DownMsg), NEW p
  PROVE  /\ GoesOn(s, "closed") => GoesOn(s \o t, p)
         /\ Skip(s) = 1 => Skip(s \o t) = 1 /\ Head(s \o t) = Head(s)
<1>1. PICK n \in Nat, l \in Nat : n = Len(s) /\ l = Len(t)
  BY LenProperties
<1>2. PICK all : all = s \o t
  OBVIOUS
<1>3. /\ all \in Seq(DownMsg) /\ Len(all) = n + l
      /\ \A i \in 1 .. n + l : all[i] = IF i <= n THEN s[i] ELSE t[i - n]
  BY <1>1, <1>2, ConcatProperties
<1>4. PICK skip \in {0, 1} : skip = Skip(s)
  BY DEF Skip
<1>5. CASE s = <<>>
  <2>1. skip = 0 /\ n = 0
    BY <1>1, <1>4, <1>5 DEF Skip
  <2>2. ~GoesOn(s, "closed")
    BY <1>1, <1>4, <2>1 DEF GoesOn
  <2> QED
    BY <1>4, <2>1, <2>2
<1>6. CASE s # <<>>
  <2>1. n \in Nat \ {0} /\ Head(s) = s[1]
    BY <1>1, <1>6, EmptySeq
  <2>2. all # <<>> /\ Head(all) = all[1]
    BY <1>3, <2>1, EmptySeq
  <2>3. all[1] = s[1]
    <3>1. 1 \in 1 .. n + l /\ 1 <= n
      BY <2>1
    <3> QED
      BY <1>3, <3>1
  <2>4. Skip(all) = skip /\ Head(all) = Head(s)
    BY <1>4, <1>6, <2>1, <2>2, <2>3 DEF Skip
  <2>5. skip < n => 1 + skip \in 1 .. n + l /\ 1 + skip <= n /\ skip < n + l
    OBVIOUS
  <2>6. skip < n => all[1 + skip] = s[1 + skip]
    BY <1>3, <2>5
  <2>7. GoesOn(s, "closed") => skip < n /\ s[1 + skip].type # "snapshot"
    BY <1>1, <1>4 DEF GoesOn
  <2>8. GoesOn(s, "closed") => GoesOn(all, p)
    BY <1>3, <2>4, <2>5, <2>6, <2>7 DEF GoesOn
  <2> QED
    BY <1>2, <1>4, <2>4, <2>8
<1> QED
  BY <1>5, <1>6

(* When a greeting begins it.                                               *)
LEMMA GoesOnGreeted ==
  ASSUME NEW w \in DownMsg, w.type = "welcome", NEW msgs \in Seq(DownMsg)
  PROVE  /\ Skip(<<w>> \o msgs) = 1 /\ Head(<<w>> \o msgs) = w
         /\ \A m \in DownMsg : msgs = <<m>> /\ m.type = "snapshot" => ~GoesOn(<<w>> \o msgs, "greeted")
<1>0. PICK l \in Nat : l = Len(msgs)
  BY LenProperties
<1>1. PICK ws \in Seq(DownMsg) : ws = <<w>> /\ Len(ws) = 1 /\ ws[1] = w
  <2>1. <<w>> \in Seq(DownMsg) /\ Len(<<w>>) = 1 /\ <<w>>[1] = w
    BY Single
  <2> QED
    BY <2>1
<1>2. PICK all : all = ws \o msgs
  OBVIOUS
<1>3. /\ all \in Seq(DownMsg) /\ Len(all) = 1 + l
      /\ \A i \in 1 .. 1 + l : all[i] = IF i <= 1 THEN ws[i] ELSE msgs[i - 1]
  BY <1>0, <1>1, <1>2, ConcatProperties
<1>4. all # <<>> /\ Head(all) = w
  <2>1. 1 \in 1 .. 1 + l /\ 1 <= 1 /\ 1 + l # 0
    OBVIOUS
  <2>2. all[1] = w
    BY <1>1, <1>3, <2>1
  <2> QED
    BY <1>3, <2>1, <2>2, EmptySeq
<1>5. Skip(all) = 1
  BY <1>4 DEF Skip
<1>6. ASSUME NEW m \in DownMsg, msgs = <<m>>, m.type = "snapshot"
      PROVE  ~GoesOn(all, "greeted")
  <2>1. l = 1 /\ msgs[1] = m
    BY <1>0, <1>6
  <2>2. 2 \in 1 .. 1 + l /\ ~(2 <= 1) /\ 2 - 1 = 1
    BY <2>1
  <2>3. all[1 + 1] = m
    BY <1>3, <2>1, <2>2
  <2> QED
    BY <1>3, <1>5, <1>6, <2>1, <2>3 DEF GoesOn
<1> QED
  BY <1>1, <1>2, <1>4, <1>5, <1>6

(* Client c has the document of the room as batch n left it.                *)
Has(c, n) == n \in 0 .. seq /\ past[n] \subseteq doc[c]

(* What a client has of what it was loaded with, of what it says it has, of *)
(* what it has read, and of what the welcome it has still to read tells.    *)
HasLoaded(c) ==
  clientSeq[c] = Unseen /\ version[c] \in DOMAIN versions => Has(c, versions[version[c]])

(* Nothing from the room is on the way to the client, or it is not connected. *)
Behind(c) == ~online[c] \/ peer[Current(c)] \notin {"greeted", "closed"}

(* The batch it says it has, unless it comes only with what is to be read. *)
HasSaid(c) ==
  clientSeq[c] # Unseen /\ (Behind(c) \/ clientSeq[c] <= cursor[Current(c)])
    => Has(c, clientSeq[c])

(* The batch it has read up to, unless the whole file comes next.          *)
HasRead(c) ==
  ~Behind(c) /\ GoesOn(ToRead(Current(c)), peer[Current(c)]) => Has(c, cursor[Current(c)])

(* The batch it has read up to, if the welcome will not take it further.   *)
HasGreeting(c) ==
  /\ ~Behind(c) /\ Skip(ToRead(Current(c))) = 1
  /\ Head(ToRead(Current(c))).seq <= cursor[Current(c)]
  => Has(c, cursor[Current(c)])

Follows(c) == HasLoaded(c) /\ HasSaid(c) /\ HasRead(c) /\ HasGreeting(c)

(* All this of every client that is not behind a gap.                      *)
Holds ==
  \A c \in Client : load[c] = "ready" /\ ~gap[c] /\ ~dropped[c] => Follows(c)

(* What a client has it keeps.                                              *)
LEMMA HasStays ==
  ASSUME seq \in Nat, PastStays, NEW c, NEW n, Has(c, n), doc[c] \subseteq doc'[c]
  PROVE  Has(c, n)'
<1>1. n \in 0 .. seq' /\ past'[n] = past[n]
  BY DEF PastStays, Has
<1> QED
  BY <1>1 DEF Has

(* A client that has a batch has those before it.                           *)
LEMMA HasBefore ==
  ASSUME seq \in Nat, Past, NEW c, NEW n, Has(c, n), NEW m \in Nat, m <= n
  PROVE  Has(c, m)
<1>1. m \in 0 .. seq /\ n \in 0 .. seq
  BY DEF Has
<1>2. past[m] \subseteq past[n]
  BY <1>1 DEF Past
<1> QED
  BY <1>1, <1>2 DEF Has

(* A connection in use stays in use.                                        *)
LEMMA InUseStays ==
  ASSUME TypeOK, Beginning, [Next]_vars, NEW k \in Conn, peer[k] \in {"greeted", "closed"}
  PROVE  peer'[k] \in {"greeted", "closed"}
<1>0. NetTypes /\ LinkTypes
  BY DEF TypeOK
<1>1. ASSUME UNCHANGED peer PROVE peer'[k] \in {"greeted", "closed"}
  BY <1>1
<1>2. ASSUME NEW c \in Client, Connect(c) PROVE peer'[k] \in {"greeted", "closed"}
  <2>1. peer' = [peer EXCEPT ![<<c, conn[c] + 1>>] = "joined"]
    BY <1>2 DEF Connect
  <2>2. k # <<c, conn[c] + 1>>
    <3>1. PICK n \in Nat : n = conn[c]
      BY <1>0 DEF LinkTypes
    <3>2. k = <<c, n + 1>> => k[2] > conn[k[1]]
      BY <3>1
    <3> QED
      BY <3>1, <3>2 DEF Beginning
  <2> QED
    BY <1>0, <2>1, <2>2 DEF NetTypes
<1>3. ASSUME NEW q \in Conn, Greet(q) \/ ServerClose(q)
      PROVE  peer'[k] \in {"greeted", "closed"}
  BY <1>0, <1>3 DEF Greet, ServerClose, NetTypes
<1>4. ASSUME Reopen PROVE peer'[k] \in {"greeted", "closed"}
  BY <1>4 DEF Reopen, OpenPeers
<1>5. ASSUME NEW c \in Client, \/ LoadRecord(c) \/ LoadDocument(c) \/ Edit(c) \/ Flush(c)
                              \/ ReadWelcome(c) \/ ReadSnapshot(c) \/ ReadOps(c) \/ ReadAck(c)
                              \/ ClientClose(c)
      PROVE  UNCHANGED peer
  BY <1>5 DEF LoadRecord, LoadDocument, Edit, Flush, ReadWelcome, ReadSnapshot, ReadOps,
     ReadAck, ClientClose, netVars
<1>6. ASSUME NEW q \in Conn, Receive(q) \/ SendSnapshot(q) PROVE UNCHANGED peer
  BY <1>6 DEF Receive, SendSnapshot
<1>7. ASSUME Save \/ Write \/ UNCHANGED vars PROVE UNCHANGED peer
  BY <1>7 DEF Save, Write, WriteDocument, WriteRecord, vars, netVars
<1> QED
  BY <1>1, <1>2, <1>3, <1>4, <1>5, <1>6, <1>7 DEF Next, Read, Hear

(* A saved version, once told, keeps the batch it was said to contain.      *)
LEMMA VersionStays ==
  ASSUME TypeOK, Loaded, [Next]_vars, ~Reopen, NEW c \in Client, load[c] = "ready",
         version[c] \in DOMAIN versions'
  PROVE  version[c] \in DOMAIN versions /\ versions'[version[c]] = versions[version[c]]
<1>1. PICK v \in Nat, last \in Nat : v = version[c] /\ last = disk.version
  BY DEF TypeOK, TabTypes, SaveTypes
<1>2. v <= last
  BY <1>1 DEF Loaded
<1>3. CASE versions' = versions
  BY <1>3
<1>4. CASE WriteRecord
  <2>1. versions' = [n \in DOMAIN versions \cup {last + 1} |->
                       IF n = last + 1 THEN Head(saving).seq ELSE versions[n]]
    BY <1>1, <1>4 DEF WriteRecord
  <2>2. v # last + 1
    BY <1>1, <1>2
  <2> QED
    BY <1>1, <2>1, <2>2
<1> QED
  BY <1>3, <1>4, SavingSteps DEF Save, Write, WriteDocument

(* What the greeting goes on from is what its client has.                   *)
LEMMA GreetedFromHas ==
  ASSUME TypeOK, Beginning, HelloTrue, NEW c \in Client, online[c], Follows(c),
         NEW k \in Conn, k = Current(c), Greet(k),
         NEW from, from = UpTo(Head(up[k])), CanReplay(from)
  PROVE  Has(c, from)
<1>0. k[1] = c /\ ~GivenUp(k) /\ peer[k] = "joined"
  BY DEF Current, GivenUp, Greet
<1>1. Head(up[k]) \in Range(up[k]) /\ Head(up[k]).type = "hello"
  BY OnConnection, Shortened DEF Greet, Hears
<1>2. /\ Head(up[k]).since = clientSeq[c]
      /\ clientSeq[c] = Unseen => Head(up[k]).version = version[c]
  BY <1>0, <1>1 DEF HelloTrue
<1>3. from # Unseen
  BY DEF CanReplay
<1>4. CASE clientSeq[c] # Unseen
  <2>1. from = clientSeq[c]
    BY <1>2, <1>4 DEF UpTo
  <2>2. Behind(c)
    BY <1>0 DEF Behind
  <2> QED
    BY <1>4, <2>1, <2>2 DEF Follows, HasSaid
<1>5. CASE clientSeq[c] = Unseen
  <2>1. version[c] \in DOMAIN versions /\ from = versions[version[c]]
    BY <1>2, <1>3, <1>5 DEF UpTo
  <2> QED
    BY <1>5, <2>1 DEF Follows, HasLoaded
<1> QED
  BY <1>4, <1>5

(* What others do leaves a client with what it has.                         *)
LEMMA FollowsOn ==
  ASSUME TypeOK, TypeOK', LogInOrder, Beginning, Beginning', Loaded, HelloTrue, [Next]_vars,
         ~Reopen, NEW c \in Client, ~ClientStep(c), load[c] = "ready", Follows(c)
  PROVE  Follows(c)'
<1>0. Untouched(c)
  BY ClientSteps
<1>1. /\ RoomTypes /\ seq \in Nat /\ LinkTypes
  BY DEF TypeOK, RoomTypes
<1>2. PastStays /\ doc'[c] = doc[c]
  BY <1>0, <1>1, PastKeeps DEF Untouched
<1>3. ASSUME NEW n, Has(c, n) PROVE Has(c, n)'
  BY <1>1, <1>2, <1>3, HasStays
<1>4. PICK k : k = Current(c)
  OBVIOUS
<1>5. /\ Current(c)' = k /\ online'[c] = online[c]
      /\ clientSeq'[c] = clientSeq[c] /\ version'[c] = version[c]
  BY <1>0, <1>4 DEF Untouched, Current
<1>6. HasLoaded(c)'
  <2>1. ASSUME clientSeq'[c] = Unseen, version'[c] \in DOMAIN versions'
        PROVE  Has(c, versions[version[c]])'
    <3>1. version[c] \in DOMAIN versions /\ versions'[version[c]] = versions[version[c]]
      BY <1>5, <2>1, VersionStays
    <3>2. PICK n : n = versions[version[c]]
      OBVIOUS
    <3>3. Has(c, n)
      BY <1>5, <2>1, <3>1, <3>2 DEF Follows, HasLoaded
    <3>4. Has(c, n)'
      BY <1>3, <3>3
    <3> QED
      BY <1>5, <3>1, <3>2, <3>4 DEF Has
  <2> QED
    BY <2>1 DEF HasLoaded
<1>7. CASE ~online[c]
  <2>1. clientSeq[c] # Unseen => Has(c, clientSeq[c])
    BY <1>7 DEF Follows, HasSaid, Behind
  <2>2. PICK n : n = clientSeq[c]
    OBVIOUS
  <2>3. clientSeq'[c] # Unseen => Has(c, n)'
    BY <1>3, <1>5, <2>1, <2>2
  <2>4. HasSaid(c)'
    BY <1>5, <2>2, <2>3 DEF HasSaid, Has
  <2>5. Behind(c)'
    BY <1>5, <1>7 DEF Behind
  <2> QED
    BY <1>6, <2>4, <2>5 DEF Follows, HasRead, HasGreeting
<1>8. CASE online[c]
  <2>0. /\ k \in Conn /\ k[1] = c /\ ~GivenUp(k) /\ ~GivenUp(k)'
        /\ ToRead(k) \in Seq(DownMsg) /\ down[k] \in Seq(DownMsg)
        /\ held[k] \in Seq(DownMsg) /\ cursor[k] \in Int
    <3>1. k \in Conn /\ k[1] = c
      BY <1>1, <1>4, <1>8, CurrentIs DEF Current
    <3>2. ~GivenUp(k) /\ ~GivenUp(k)'
      BY <1>4, <1>5, <1>8, <3>1 DEF GivenUp
    <3> QED
      BY <3>1, <3>2, OnConnection
  <2>1. CASE peer'[k] \notin {"greeted", "closed"}
    <3>1. peer[k] \notin {"greeted", "closed"}
      BY <2>0, <2>1, InUseStays
    <3>2. Behind(c) /\ Behind(c)'
      BY <1>4, <1>5, <2>1, <3>1 DEF Behind
    <3>3. PICK n : n = clientSeq[c]
      OBVIOUS
    <3>4. clientSeq'[c] # Unseen => Has(c, n)'
      BY <1>3, <1>5, <3>2, <3>3 DEF Follows, HasSaid
    <3>5. HasSaid(c)'
      BY <1>5, <3>3, <3>4 DEF HasSaid, Has
    <3> QED
      BY <1>6, <3>2, <3>5 DEF Follows, HasRead, HasGreeting
  <2>2. CASE peer'[k] \in {"greeted", "closed"}
    <3>0. PICK since, from \in Int : since = clientSeq[c] /\ from = cursor[k]
      BY <2>0 DEF TypeOK, TabTypes
    <3>1. ~ReadsNext(k) /\ StreamStep(k)
      <4>1. ~ReadsNext(k)
        BY <2>0 DEF ReadsNext, ClientStep
      <4> QED
        BY <2>0, <2>2, <4>1, StreamSteps
    <3>2. CASE Quiet(k) \/ IsTold(k) \/ Ends(k)
      <4>1. cursor'[k] = from
        BY <3>0, <3>2 DEF Quiet, IsTold, Ends
      <4>2. clientSeq'[c] # Unseen /\ since <= from => Has(c, since)'
        BY <1>3, <1>4, <1>5, <3>0 DEF Follows, HasSaid
      <4>3. ASSUME GoesOn(ToRead(k)', peer'[k])
            PROVE  peer[k] \in {"greeted", "closed"} /\ GoesOn(ToRead(k), peer[k])
        <5>1. CASE Quiet(k)
          BY <4>3, <5>1 DEF Quiet, InUse
        <5>2. CASE IsTold(k)
          <6>1. PICK q \in Conn : /\ Receive(q)
                                  /\ ToRead(k)' = Append(ToRead(k), Told(k, q, Head(up[q])))
            BY <5>2 DEF IsTold
          <6>2. PICK m \in DownMsg : m = Told(k, q, Head(up[q])) /\ m.type # "welcome"
            BY <2>0, <6>1, ToldIs DEF TypeOK
          <6>3. peer[k] = "greeted" /\ peer'[k] = "greeted"
            BY <5>2 DEF IsTold
          <6> QED
            BY <2>0, <4>3, <6>1, <6>2, <6>3, GoesOnMore
        <5>3. CASE Ends(k)
          <6>1. ToRead(k)' = down[k] /\ peer'[k] = "closed" /\ peer[k] \in {"joined", "greeted"}
            BY <5>3 DEF Ends, ServerClose
          <6>2. GoesOn(down[k], "closed")
            BY <4>3, <6>1
          <6>3. peer[k] # "joined"
            <7>1. peer[k] = "joined" => down[k] = <<>>
              BY <2>0 DEF Beginning
            <7>2. ~GoesOn(<<>>, "closed")
              BY DEF GoesOn, Skip
            <7> QED
              BY <6>2, <7>1, <7>2
          <6> QED
            BY <2>0, <6>1, <6>2, <6>3, GoesOnFirst DEF ToRead
        <5> QED
          BY <3>2, <5>1, <5>2, <5>3
      <4>4. ASSUME Skip(ToRead(k)') = 1
            PROVE  /\ peer[k] \in {"greeted", "closed"}
                   /\ Skip(ToRead(k)) = 1 /\ Head(ToRead(k)) = Head(ToRead(k)')
        <5>1. CASE Quiet(k)
          BY <4>4, <5>1 DEF Quiet, InUse
        <5>2. CASE IsTold(k)
          <6>1. PICK q \in Conn : /\ Receive(q)
                                  /\ ToRead(k)' = Append(ToRead(k), Told(k, q, Head(up[q])))
            BY <5>2 DEF IsTold
          <6>2. PICK m \in DownMsg : m = Told(k, q, Head(up[q])) /\ m.type # "welcome"
            BY <2>0, <6>1, ToldIs DEF TypeOK
          <6>3. peer[k] = "greeted"
            BY <5>2 DEF IsTold
          <6> QED
            BY <2>0, <4>4, <6>1, <6>2, <6>3, GoesOnMore
        <5>3. CASE Ends(k)
          <6>1. ToRead(k)' = down[k] /\ peer[k] \in {"joined", "greeted"}
            BY <5>3 DEF Ends, ServerClose
          <6>2. peer[k] # "joined"
            <7>1. peer[k] = "joined" => down[k] = <<>>
              BY <2>0 DEF Beginning
            <7>2. Skip(<<>>) = 0
              BY DEF Skip
            <7> QED
              BY <4>4, <6>1, <7>1, <7>2
          <6>3. Skip(down[k]) = 1
            BY <4>4, <6>1
          <6>4. Skip(down[k] \o held[k]) = 1 /\ Head(down[k] \o held[k]) = Head(down[k])
            BY <2>0, <6>3, GoesOnFirst
          <6> QED
            BY <6>1, <6>2, <6>4 DEF ToRead
        <5> QED
          BY <3>2, <5>1, <5>2, <5>3
      <4>5. GoesOn(ToRead(k)', peer'[k]) => Has(c, from)'
        <5>1. GoesOn(ToRead(k)', peer'[k]) => Has(c, from)
          BY <1>4, <1>8, <3>0, <4>3 DEF Follows, HasRead, Behind
        <5> QED
          BY <1>3, <5>1
      <4>6. Skip(ToRead(k)') = 1 /\ Head(ToRead(k)').seq <= from => Has(c, from)'
        <5>1. Skip(ToRead(k)') = 1 /\ Head(ToRead(k)').seq <= from => Has(c, from)
          BY <1>4, <1>8, <3>0, <4>4 DEF Follows, HasGreeting, Behind
        <5> QED
          BY <1>3, <5>1
      <4>7. ~Behind(c)'
        BY <1>5, <1>8, <2>2 DEF Behind
      <4>8. HasSaid(c)'
        BY <1>5, <3>0, <4>1, <4>2, <4>7 DEF HasSaid, Has
      <4>9. HasRead(c)'
        BY <1>5, <4>1, <4>5 DEF HasRead, Has, GoesOn, Skip, ToRead
      <4>10. HasGreeting(c)'
        BY <1>5, <4>1, <4>6 DEF HasGreeting, Has, Skip, ToRead
      <4> QED
        BY <1>6, <4>8, <4>9, <4>10 DEF Follows
    <3>3. CASE Greet(k)
      <4>0. PICK start : start = UpTo(Head(up[k]))
        OBVIOUS
      <4>1. clientSeq'[c] # Unseen => Has(c, since)'
        <5>1. Behind(c)
          BY <1>4, <3>3 DEF Greet, Behind
        <5> QED
          BY <1>3, <1>5, <3>0, <5>1 DEF Follows, HasSaid
      <4>2. HasSaid(c)'
        BY <1>5, <3>0, <4>1 DEF HasSaid, Has
      <4>3. CASE CanReplay(start)
        <5>1. Has(c, start)'
          BY <1>3, <1>4, <1>8, <2>0, <3>3, <4>0, <4>3, GreetedFromHas
        <5>2. cursor'[k] = start
          BY <2>0, <3>3, <4>0, <4>3, Greeted
        <5>3. HasRead(c)' /\ HasGreeting(c)'
          BY <1>5, <5>1, <5>2 DEF HasRead, HasGreeting, Has
        <5> QED
          BY <1>6, <4>2, <5>3 DEF Follows
      <4>4. CASE ~CanReplay(start)
        <5>1. /\ ToRead(k)' = <<Welcome>> \o <<Snapshot(seq, roomDoc)>>
              /\ cursor'[k] = seq - 1
          BY <2>0, <3>3, <4>0, <4>4, Greeted
        <5>2. PICK w \in DownMsg, m \in DownMsg, n \in Nat :
                /\ w = Welcome /\ w.type = "welcome" /\ w.seq = n /\ n = seq
                /\ m = Snapshot(seq, roomDoc) /\ m.type = "snapshot"
          BY <1>1, Written DEF RoomTypes, Welcome, Snapshot
        <5>3. ToRead(k)' = <<w>> \o <<m>> /\ cursor'[k] = n - 1 /\ <<m>> \in Seq(DownMsg)
          BY <5>1, <5>2
        <5>4. PICK all : all = <<w>> \o <<m>> /\ Skip(all) = 1 /\ Head(all) = w /\ ~GoesOn(all, "greeted")
          BY <5>2, <5>3, GoesOnGreeted
        <5>5. peer'[k] = "greeted"
          BY <3>3 DEF Greet, TypeOK, NetTypes
        <5>6. HasRead(c)'
          BY <1>5, <5>3, <5>4, <5>5 DEF HasRead, GoesOn, Skip, ToRead
        <5>7. ~(n <= n - 1)
          BY <5>2
        <5>8. HasGreeting(c)'
          BY <1>5, <5>2, <5>3, <5>4, <5>7 DEF HasGreeting, Skip, ToRead
        <5> QED
          BY <1>6, <4>2, <5>6, <5>8 DEF Follows
      <4> QED
        BY <4>3, <4>4
    <3> QED
      BY <2>0, <3>1, <3>2, <3>3 DEF StreamStep
  <2> QED
    BY <2>1, <2>2
<1> QED
  BY <1>7, <1>8

(* Another room begins with the document that was saved, and nothing of the *)
(* one before is still to be read by a client without a gap.                *)
LEMMA FollowsReopened ==
  ASSUME TypeOK, Stored, Reopen, NEW c \in Client, ~gap'[c], Follows(c)
  PROVE  Follows(c)'
<1>0. NetTypes /\ LinkTypes /\ GhostTypes
  BY DEF TypeOK
<1>1. /\ seq' = 0 /\ past' = [n \in 0 .. 0 |-> disk.doc] /\ saving = <<>>
      /\ versions' = [v \in {disk.version} |-> 0]
      /\ down' = down /\ held' = [k \in Conn |-> <<>>]
      /\ peer' = [k \in Conn |-> IF k \in OpenPeers THEN "closed" ELSE peer[k]]
      /\ gap' = [a \in Client |-> \/ gap[a] \/ clientSeq[a] # Unseen
                                  \/ online[a] /\ down[Current(a)] # <<>>]
      /\ UNCHANGED <<doc, version, clientSeq, conn, online>>
  BY DEF Reopen, clientVars
<1>2. clientSeq[c] = Unseen /\ (online[c] => down[Current(c)] = <<>>)
  BY <1>1
<1>3. clientSeq'[c] = Unseen /\ Current(c)' = Current(c) /\ online'[c] = online[c]
  BY <1>1, <1>2 DEF Current
<1>4. HasLoaded(c)'
  <2>1. ASSUME version'[c] \in DOMAIN versions' PROVE Has(c, versions[version[c]])'
    <3>1. version[c] = disk.version /\ version[c] \in DOMAIN versions
      BY <1>1, <2>1 DEF Stored
    <3>2. disk.doc = past[versions[version[c]]]
      BY <1>1, <3>1 DEF Stored, OnDisk
    <3>3. disk.doc \subseteq doc[c]
      BY <1>2, <3>1, <3>2 DEF Follows, HasLoaded, Has
    <3>4. versions'[version'[c]] = 0 /\ past'[0] = disk.doc /\ 0 \in 0 .. seq'
      BY <1>1, <3>1
    <3> QED
      BY <1>1, <3>3, <3>4 DEF Has
  <2> QED
    BY <2>1 DEF HasLoaded
<1>5. HasSaid(c)'
  BY <1>3 DEF HasSaid
<1>6. HasRead(c)' /\ HasGreeting(c)'
  <2>1. CASE ~online[c]
    BY <1>3, <2>1 DEF HasRead, HasGreeting, Behind
  <2>2. CASE online[c]
    <3>1. PICK k \in Conn : k = Current(c)
      BY <1>0, <2>2, CurrentIs
    <3>2. ToRead(k)' = <<>> \o <<>>
      <4>1. down'[k] = <<>> /\ held'[k] = <<>>
        BY <1>1, <1>2, <2>2, <3>1
      <4> QED
        BY <4>1 DEF ToRead
    <3>3. PICK none : none = <<>> /\ ToRead(k)' = none
      BY <3>2, EmptySeq, ConcatEmptySeq
    <3>4. peer'[k] # "greeted"
      BY <1>1 DEF OpenPeers
    <3>5. Len(none) = 0 /\ none = <<>>
      BY <3>3
    <3>6. ~GoesOn(none, peer'[k]) /\ Skip(none) = 0
      BY <3>4, <3>5 DEF GoesOn, Skip
    <3> QED
      BY <1>3, <3>1, <3>3, <3>6 DEF HasRead, HasGreeting, GoesOn, Skip, ToRead
  <2> QED
    BY <2>1, <2>2
<1> QED
  BY <1>4, <1>5, <1>6 DEF Follows

(* A client reads on the connection it uses.                                *)
LEMMA ReadingIs ==
  ASSUME TypeOK, Beginning, NEW c \in Client, NEW type, Reads(c, type), held' = held,
         NEW k, k = Current(c)
  PROVE  /\ k \in Conn /\ k[1] = c /\ ~GivenUp(k) /\ online[c]
         /\ peer[k] \in {"greeted", "closed"}
         /\ ToRead(k) \in Seq(DownMsg) /\ ToRead(k) # <<>>
         /\ Head(ToRead(k)) = Head(down[k]) /\ Head(ToRead(k)).type = type
         /\ Head(ToRead(k)) \in DownMsg /\ Head(ToRead(k)) \in Range(ToRead(k))
         /\ ToRead(k)' = Tail(ToRead(k))
<1>0. NetTypes /\ LinkTypes
  BY DEF TypeOK
<1>1. /\ online[c] /\ k \in Conn /\ k[1] = c
      /\ down[k] # <<>> /\ Head(down[k]).type = type
      /\ down'[k] = Tail(down[k])
  <2>1. online[c] /\ k \in Conn
    BY <1>0, ReadIs
  <2>2. /\ down[k] # <<>> /\ Head(down[k]).type = type
        /\ down' = [down EXCEPT ![k] = Tail(down[k])]
    BY DEF Reads
  <2>3. down'[k] = Tail(down[k])
    BY <1>0, <2>1, <2>2 DEF NetTypes
  <2> QED
    BY <2>1, <2>2, <2>3 DEF Current
<1>2. ~GivenUp(k)
  BY <1>1 DEF GivenUp
<1>3. peer[k] \in {"greeted", "closed"}
  BY <1>0, <1>1 DEF Beginning, NetTypes
<1>4. down[k] \in Seq(DownMsg) /\ held[k] \in Seq(DownMsg) /\ ToRead(k) \in Seq(DownMsg)
  BY <1>1, OnConnection
<1>5. down'[k] = Tail(down[k]) /\ held'[k] = held[k]
  BY <1>1
<1>6. /\ ToRead(k) # <<>> /\ Head(ToRead(k)) = Head(down[k])
      /\ ToRead(k)' = Tail(ToRead(k))
  <2>1. PICK d \in Seq(DownMsg), h \in Seq(DownMsg) : d = down[k] /\ h = held[k] /\ d # <<>>
    BY <1>1, <1>4
  <2>2. d \o h # <<>> /\ Head(d \o h) = Head(d) /\ Tail(d) \o h = Tail(d \o h)
    BY <2>1, Joined
  <2>3. ToRead(k) = d \o h /\ ToRead(k)' = Tail(d) \o h
    BY <1>5, <2>1 DEF ToRead
  <2> QED
    BY <2>1, <2>2, <2>3
<1> QED
  BY <1>1, <1>2, <1>3, <1>4, <1>6, Shortened

(* A client that has what it has just read has what it says.                *)
LEMMA FollowsRead ==
  ASSUME NEW c \in Client, NEW k, Current(c)' = k, NEW n \in Nat, NEW since \in Nat,
         Has(c, n)', cursor'[k] = n, clientSeq'[c] = since, n <= since,
         ~Behind(c)', Skip(ToRead(k)') = 0
  PROVE  Follows(c)'
<1>1. clientSeq'[c] # Unseen
  BY DEF Unseen
<1>2. HasSaid(c)'
  <2>1. since <= n => since = n
    OBVIOUS
  <2> QED
    BY <2>1 DEF HasSaid
<1>3. Skip(ToRead(k)') # 1
  OBVIOUS
<1> QED
  BY <1>1, <1>2, <1>3 DEF Follows, HasLoaded, HasRead, HasGreeting, Skip, ToRead

(* What a client does by itself, reading apart.                             *)
LEMMA FollowsAlone ==
  ASSUME TypeOK, Beginning, Past, Stored, Loaded, NEW c \in Client,
         \/ LoadRecord(c) \/ LoadDocument(c) \/ Edit(c) \/ Connect(c) \/ Flush(c)
         \/ ClientClose(c),
         load'[c] = "ready", ~gap'[c], ~dropped'[c],
         load[c] = "ready" /\ ~gap[c] /\ ~dropped[c] => Follows(c)
  PROVE  Follows(c)'
<1>0. /\ RoomTypes /\ NetTypes /\ SaveTypes /\ TabTypes /\ LinkTypes /\ GhostTypes /\ seq \in Nat
  BY DEF TypeOK, RoomTypes
<1>1. UNCHANGED <<seq, past, versions>>
  BY DEF LoadRecord, LoadDocument, Edit, Connect, Flush, ClientClose, roomVars, saveVars
<1>2. PastStays
  BY <1>0, <1>1 DEF PastStays
<1>3. ~LoadRecord(c)
  BY <1>0 DEF LoadRecord, TabTypes
<1>4. ASSUME LoadDocument(c) PROVE Follows(c)'
  <2>1. /\ load[c] = "loading" /\ doc' = [doc EXCEPT ![c] = disk.doc]
        /\ UNCHANGED <<version, clientSeq, online>>
    BY <1>4 DEF LoadDocument
  <2>2. doc'[c] = disk.doc /\ clientSeq'[c] = Unseen /\ ~online'[c]
    BY <1>0, <2>1 DEF Loaded, TabTypes
  <2>3. ASSUME version[c] \in DOMAIN versions
        PROVE  Has(c, versions[version[c]])'
    <3>1. PICK n \in Nat, last \in 0 .. seq :
            n = versions[version[c]] /\ last = OnDisk /\ n <= last
      BY <1>0, <2>3 DEF SaveTypes, Stored
    <3>2. n \in 0 .. seq
      BY <1>0, <3>1
    <3>3. past[n] \subseteq past[last] /\ disk.doc = past[last]
      BY <3>1, <3>2 DEF Past, Stored
    <3> QED
      BY <1>1, <2>1, <2>2, <3>1, <3>2, <3>3 DEF Has
  <2> QED
    BY <1>1, <2>1, <2>2, <2>3 DEF Follows, HasLoaded, HasSaid, HasRead, HasGreeting, Behind
<1>5. ASSUME Edit(c) \/ Flush(c) PROVE Follows(c)'
  <2>1. /\ doc[c] \subseteq doc'[c]
        /\ UNCHANGED <<load, version, clientSeq, conn, online, down, held, peer, cursor, gap, dropped>>
    <3>1. CASE Edit(c)
      BY <1>0, <3>1 DEF Edit, TabTypes, netVars, ghostVars
    <3>2. CASE Flush(c)
      BY <3>2 DEF Flush, ghostVars
    <3> QED
      BY <1>5, <3>1, <3>2
  <2>2. Follows(c)
    BY <2>1
  <2>3. ASSUME NEW n, Has(c, n) PROVE Has(c, n)'
    BY <1>0, <1>2, <2>1, <2>3, HasStays
  <2>4. PICK k : k = Current(c) /\ Current(c)' = k
    BY <2>1 DEF Current
  <2>5. PICK loaded, since, read : /\ loaded = versions[version[c]] /\ loaded = versions'[version'[c]]
                                   /\ since = clientSeq[c] /\ read = cursor[k]
    BY <1>1, <2>1
  <2>6. Behind(c)' <=> Behind(c)
    BY <2>1, <2>4 DEF Behind
  <2>7. ToRead(k)' = ToRead(k)
    BY <2>1 DEF ToRead
  <2>8. HasLoaded(c)'
    <3>1. clientSeq'[c] = Unseen /\ version'[c] \in DOMAIN versions' => Has(c, loaded)'
      BY <1>1, <2>1, <2>2, <2>3, <2>5 DEF Follows, HasLoaded
    <3> QED
      BY <2>5, <3>1 DEF HasLoaded, Has
  <2>9. HasSaid(c)'
    <3>1. clientSeq'[c] # Unseen /\ (Behind(c)' \/ clientSeq'[c] <= cursor'[k]) => Has(c, since)'
      BY <2>1, <2>2, <2>3, <2>4, <2>5, <2>6 DEF Follows, HasSaid
    <3> QED
      BY <2>1, <2>4, <2>5, <3>1 DEF HasSaid, Has
  <2>10. HasRead(c)'
    <3>1. ~Behind(c)' /\ GoesOn(ToRead(k), peer[k]) => Has(c, read)'
      BY <2>2, <2>3, <2>4, <2>5, <2>6 DEF Follows, HasRead
    <3> QED
      BY <2>1, <2>4, <2>5, <2>7, <3>1 DEF HasRead, Has, GoesOn, Skip, ToRead
  <2>11. HasGreeting(c)'
    <3>1. ~Behind(c)' /\ Skip(ToRead(k)) = 1 /\ Head(ToRead(k)).seq <= cursor[k] => Has(c, read)'
      BY <2>2, <2>3, <2>4, <2>5, <2>6 DEF Follows, HasGreeting
    <3> QED
      BY <2>1, <2>4, <2>5, <2>7, <3>1 DEF HasGreeting, Has, Skip, ToRead
  <2> QED
    BY <2>8, <2>9, <2>10, <2>11 DEF Follows
<1>6. ASSUME Connect(c) \/ ClientClose(c) PROVE Follows(c)'
  <2>1. UNCHANGED <<load, doc, version, clientSeq, dropped>> /\ (gap[c] => gap'[c])
    BY <1>0, <1>6 DEF Connect, ClientClose, GhostTypes
  <2>2. Follows(c)
    BY <2>1
  <2>3. HasLoaded(c)'
    BY <1>1, <2>1, <2>2 DEF Follows, HasLoaded, Has
  <2>4. Behind(c)'
    <3>1. CASE Connect(c)
      <4>1. PICK n \in Nat : n = conn[c]
        BY <1>0 DEF LinkTypes
      <4>2. /\ n < MaxConn[c] /\ conn' = [conn EXCEPT ![c] = n + 1]
            /\ peer' = [peer EXCEPT ![<<c, n + 1>>] = "joined"]
        BY <3>1, <4>1 DEF Connect
      <4>3. n + 1 \in 1 .. MaxConn[c]
        BY <4>1, <4>2
      <4>4. <<c, n + 1>> \in Conn
        BY <4>3, Names
      <4>5. Current(c)' = <<c, n + 1>>
        BY <1>0, <4>2 DEF Current, LinkTypes
      <4>6. peer'[<<c, n + 1>>] = "joined"
        BY <1>0, <4>2, <4>4 DEF NetTypes
      <4> QED
        BY <4>5, <4>6 DEF Behind
    <3>2. CASE ClientClose(c)
      BY <1>0, <3>2 DEF ClientClose, LinkTypes, Behind
    <3> QED
      BY <1>6, <3>1, <3>2
  <2>5. clientSeq[c] # Unseen => Has(c, clientSeq[c])
    <3>1. CASE Connect(c)
      BY <2>2, <3>1 DEF Follows, HasSaid, Connect, Behind
    <3>2. CASE ClientClose(c)
      <4>1. ~(clientSeq[c] > cursor[Current(c)])
        BY <1>0, <3>2 DEF ClientClose, GhostTypes
      <4>2. clientSeq[c] \in Int /\ cursor[Current(c)] \in Int
        <5>1. Current(c) \in Conn
          BY <1>0, <3>2, CurrentIs DEF ClientClose
        <5> QED
          BY <1>0, <5>1 DEF TabTypes, GhostTypes
      <4>3. clientSeq[c] <= cursor[Current(c)]
        BY <4>1, <4>2
      <4> QED
        BY <2>2, <4>3 DEF Follows, HasSaid
    <3> QED
      BY <1>6, <3>1, <3>2
  <2>6. HasSaid(c)'
    BY <1>1, <2>1, <2>5 DEF HasSaid, Has
  <2> QED
    BY <2>3, <2>4, <2>6 DEF Follows, HasRead, HasGreeting
<1> QED
  BY <1>3, <1>4, <1>5, <1>6

(* What a client reads leads on from what it has.                           *)
LEMMA FollowsReading ==
  ASSUME TypeOK, Beginning, Past, Shown, Orderly, Contents, NEW c \in Client, Read(c),
         load'[c] = "ready", ~gap'[c], ~dropped'[c],
         load[c] = "ready" /\ ~gap[c] /\ ~dropped[c] => Follows(c)
  PROVE  Follows(c)'
<1>0. /\ RoomTypes /\ NetTypes /\ TabTypes /\ LinkTypes /\ GhostTypes /\ WorkTypes /\ seq \in Nat
  BY DEF TypeOK, RoomTypes
<1>1. UNCHANGED <<seq, past, versions, held, peer, load, version, conn, online>>
  BY DEF Read, ReadWelcome, ReadSnapshot, ReadOps, ReadAck, roomVars, saveVars
<1>2. PICK k : k = Current(c)
  OBVIOUS
<1>3. PICK type : Reads(c, type)
  BY DEF Read, ReadWelcome, ReadSnapshot, ReadOps, ReadAck
<1>4. /\ k \in Conn /\ k[1] = c /\ ~GivenUp(k) /\ online[c]
      /\ peer[k] \in {"greeted", "closed"}
      /\ ToRead(k) \in Seq(DownMsg) /\ ToRead(k) # <<>>
      /\ Head(ToRead(k)) = Head(down[k])
      /\ Head(ToRead(k)) \in DownMsg /\ Head(ToRead(k)) \in Range(ToRead(k))
      /\ ToRead(k)' = Tail(ToRead(k))
  BY <1>1, <1>2, <1>3, ReadingIs
<1>5. PICK s \in Seq(DownMsg), msg \in DownMsg :
        /\ s = ToRead(k) /\ s # <<>> /\ msg = Head(s) /\ msg = Head(down[k])
        /\ msg \in Range(ToRead(k)) /\ ToRead(k)' = Tail(s)
  BY <1>4
<1>6. WelcomeFirst(s) /\ \E to \in Int : Runs(s, cursor[k], to)
  BY <1>4, <1>5 DEF Orderly, InUse
<1>7. /\ Skip(Tail(s)) = 0
      /\ msg.type = "welcome" => Skip(s) = 1 /\ (GoesOn(Tail(s), peer[k]) => GoesOn(s, peer[k]))
      /\ msg.type \notin {"welcome", "snapshot"} => GoesOn(s, peer[k])
  BY <1>5, <1>6, GoesOnDown
<1>8. PICK from \in Int : from = cursor[k]
  BY <1>0, <1>4 DEF GhostTypes
<1>9. msg.type # "welcome" => msg.seq = from + 1
  BY <1>5, <1>6, <1>8, RunsDown
<1>10. /\ Current(c)' = k /\ ~Behind(c) /\ ~Behind(c)'
  BY <1>1, <1>2, <1>4 DEF Current, Behind
<1>11. msg.seq \in Nat
  BY <1>5, Messages
<1>12. PICK since \in Int : since = clientSeq[c]
  BY <1>0 DEF TabTypes
<1>13. ASSUME ReadWelcome(c) PROVE Follows(c)'
  <2>1. /\ msg.type = "welcome" /\ UNCHANGED <<doc, cursor, gap, dropped>>
        /\ clientSeq' = [clientSeq EXCEPT ![c] = IF clientSeq[c] = Unseen THEN msg.seq ELSE clientSeq[c]]
    BY <1>2, <1>5, <1>13 DEF ReadWelcome, Reads, ghostVars
  <2>2. clientSeq'[c] = IF since = Unseen THEN msg.seq ELSE since
    BY <1>0, <1>12, <2>1 DEF TabTypes
  <2>3. Follows(c)
    BY <1>1, <2>1
  <2>4. clientSeq'[c] # Unseen
    BY <1>11, <2>2 DEF Unseen
  <2>5. ASSUME NEW n, Has(c, n) PROVE Has(c, n)'
    BY <1>1, <2>1, <2>5 DEF Has
  <2>6. HasSaid(c)'
    <3>1. since # Unseen /\ since <= from => Has(c, since)
      BY <1>2, <1>8, <1>12, <2>3 DEF Follows, HasSaid
    <3>2. since = Unseen /\ msg.seq <= from => Has(c, msg.seq)
      <4>1. ASSUME msg.seq <= from PROVE Has(c, msg.seq)
        <5>1. Has(c, from)
          BY <1>2, <1>5, <1>7, <1>8, <1>10, <2>1, <2>3, <4>1 DEF Follows, HasGreeting
        <5> QED
          BY <1>0, <1>11, <4>1, <5>1, HasBefore
      <4> QED
        BY <4>1
    <3>3. PICK now : now = clientSeq'[c]
      OBVIOUS
    <3>4. now <= from => Has(c, now)'
      BY <2>2, <2>5, <3>1, <3>2, <3>3
    <3> QED
      BY <1>8, <1>10, <2>1, <3>3, <3>4 DEF HasSaid, Has
  <2>7. HasRead(c)'
    <3>1. GoesOn(s, peer[k]) => Has(c, from)
      BY <1>2, <1>5, <1>8, <1>10, <2>3 DEF Follows, HasRead
    <3>2. GoesOn(Tail(s), peer[k]) => Has(c, from)'
      BY <1>7, <2>1, <2>5, <3>1
    <3> QED
      BY <1>1, <1>5, <1>8, <1>10, <2>1, <3>2 DEF HasRead, Has, GoesOn, Skip, ToRead
  <2>8. HasGreeting(c)'
    <3>1. Skip(ToRead(k)') # 1
      BY <1>5, <1>7
    <3> QED
      BY <1>10, <3>1 DEF HasGreeting, Skip, ToRead
  <2> QED
    BY <2>4, <2>6, <2>7, <2>8 DEF Follows, HasLoaded
<1>14. Skip(ToRead(k)') = 0
  BY <1>5, <1>7
<1>15. ASSUME peer[k] = "greeted" \/ ~gap[c] PROVE Right(msg, c)
  BY <1>4, <1>5, <1>15 DEF Contents, Fresh
<1>16. ASSUME ReadSnapshot(c) PROVE Follows(c)'
  <2>1. /\ msg.type = "snapshot"
        /\ doc' = [doc EXCEPT ![c] = Apply(msg.doc, outbox[c])]
        /\ clientSeq' = [clientSeq EXCEPT ![c] = msg.seq]
        /\ cursor' = [cursor EXCEPT ![k] = msg.seq]
        /\ gap' = [gap EXCEPT ![c] = gap[c] /\ peer[k] # "greeted"]
    BY <1>2, <1>5, <1>16 DEF ReadSnapshot, Reads
  <2>2. /\ doc'[c] = Apply(msg.doc, outbox[c]) /\ clientSeq'[c] = msg.seq
        /\ cursor'[k] = msg.seq /\ (peer[k] = "greeted" \/ ~gap[c])
    BY <1>0, <1>4, <2>1 DEF TabTypes, GhostTypes
  <2>3. msg.seq \in 0 .. seq /\ msg.doc = past[msg.seq]
    BY <1>15, <2>1, <2>2 DEF Right
  <2>4. msg.doc \subseteq Apply(msg.doc, outbox[c])
    BY ApplyGrows
  <2>5. PICK n \in Nat : n = msg.seq
    BY <1>11
  <2>6. Has(c, n)'
    BY <1>1, <2>2, <2>3, <2>4, <2>5 DEF Has
  <2>7. n <= n
    OBVIOUS
  <2> QED
    BY <1>10, <1>14, <2>2, <2>5, <2>6, <2>7, FollowsRead
<1>17. ASSUME ReadOps(c) \/ ReadAck(c) PROVE Follows(c)'
  <2>1. /\ msg.type \in {"ops", "ack"}
        /\ clientSeq' = [clientSeq EXCEPT ![c] = Max2(Max2(clientSeq[c], 0), msg.seq)]
        /\ cursor' = [cursor EXCEPT ![k] = msg.seq]
        /\ UNCHANGED <<gap, dropped>>
    BY <1>2, <1>5, <1>17 DEF ReadOps, ReadAck, Reads
  <2>2. PICK n \in Nat, now \in Nat : n = msg.seq /\ now = Max2(Max2(since, 0), n) /\ n <= now
    <3>1. PICK n \in Nat : n = msg.seq
      BY <1>11
    <3>2. Max2(Max2(since, 0), n) \in Nat /\ n <= Max2(Max2(since, 0), n)
      BY DEF Max2
    <3> QED
      BY <3>1, <3>2
  <2>3. clientSeq'[c] = now /\ cursor'[k] = n
    BY <1>0, <1>4, <1>12, <2>1, <2>2 DEF TabTypes, GhostTypes
  <2>4. ~gap[c] /\ ~dropped[c] /\ Follows(c)
    BY <1>1, <2>1
  <2>5. Right(msg, c) /\ n \in 1 .. seq /\ n - 1 = from
    <3>1. Right(msg, c)
      BY <1>15, <2>4
    <3>2. n \in 1 .. seq
      BY <2>1, <2>2, <3>1 DEF Right
    <3> QED
      BY <1>9, <2>1, <2>2, <3>1, <3>2
  <2>6. past[from] \subseteq doc[c]
    <3>1. GoesOn(s, peer[k])
      BY <1>7, <2>1
    <3> QED
      BY <1>2, <1>5, <1>8, <1>10, <2>4, <3>1 DEF Follows, HasRead, Has
  <2>7. past[n] \subseteq doc'[c]
    <3>1. CASE ReadOps(c)
      <4>1. PICK ops : ops = msg.ops
        OBVIOUS
      <4>2. doc' = [doc EXCEPT ![c] = Apply(doc[c], ops)] /\ msg.type = "ops"
        BY <1>2, <1>5, <3>1, <4>1 DEF ReadOps, Reads
      <4>3. doc'[c] = Apply(doc[c], ops)
        BY <1>0, <4>2 DEF TabTypes
      <4>4. past[n] = Apply(past[from], ops)
        BY <2>2, <2>5, <4>1, <4>2 DEF Right
      <4> QED
        BY <2>6, <4>3, <4>4, ApplyGrows
    <3>2. CASE ReadAck(c)
      <4>1. msg.type = "ack" /\ doc' = doc
        BY <1>2, <1>5, <3>2 DEF ReadAck, Reads
      <4>2. past[n] \subseteq past[from] \cup KeptFrom(c, msg.id)
        BY <2>2, <2>5, <4>1 DEF Right
      <4>3. KeptFrom(c, msg.id) \subseteq Pending(c)
        BY DEF KeptFrom, Pending
      <4>4. Pending(c) \subseteq doc[c]
        BY <2>4 DEF Shown
      <4> QED
        BY <2>6, <4>1, <4>2, <4>3, <4>4
    <3> QED
      BY <1>17, <3>1, <3>2
  <2>8. Has(c, n)'
    <3>1. n \in 0 .. seq
      BY <1>0, <2>5
    <3> QED
      BY <1>1, <2>7, <3>1 DEF Has
  <2> QED
    BY <1>10, <1>14, <2>2, <2>3, <2>8, FollowsRead
<1> QED
  BY <1>13, <1>16, <1>17 DEF Read

(* Each client without a gap goes on having what it says it has.            *)
LEMMA HoldsKept ==
  ASSUME TypeOK, TypeOK', LogInOrder, Beginning, Beginning', Past, Stored, Loaded, Shown,
         Orderly, HelloTrue, Contents, Holds, [Next]_vars
  PROVE  Holds'
<1>1. ASSUME NEW c \in Client, load'[c] = "ready", ~gap'[c], ~dropped'[c]
      PROVE  Follows(c)'
  <2>1. load[c] = "ready" /\ ~gap[c] /\ ~dropped[c] => Follows(c)
    BY DEF Holds
  <2>2. CASE ClientStep(c)
    BY <1>1, <2>1, <2>2, FollowsAlone, FollowsReading DEF ClientStep
  <2>3. CASE ~ClientStep(c)
    <3>1. load[c] = "ready" /\ ~gap[c] /\ ~dropped[c]
      BY <1>1, <2>3, ClientSteps DEF Untouched
    <3>2. CASE Reopen
      BY <1>1, <2>1, <3>1, <3>2, FollowsReopened
    <3>3. CASE ~Reopen
      BY <2>1, <2>3, <3>1, <3>3, FollowsOn
    <3> QED
      BY <3>2, <3>3
  <2> QED
    BY <2>2, <2>3
<1> QED
  BY <1>1 DEF Holds

-----------------------------------------------------------------------------
(* All together.                                                           *)

(* The invariant of what is where.                                          *)
AInv ==
  /\ IInv /\ Past /\ Stored /\ Loaded /\ Shown /\ Orderly /\ HelloTrue /\ Lined
  /\ Contents /\ Holds

(* It holds at first.                                                       *)
LEMMA AInvInit == Init => AInv
<1> SUFFICES ASSUME Init PROVE AInv
  OBVIOUS
<1>0. IInv
  BY IInvInit
<1>1. /\ seq = 0 /\ roomDoc = {} /\ log = <<>> /\ past = [n \in 0 .. 0 |-> {}]
      /\ versions = [v \in {1} |-> 0] /\ saving = <<>> /\ wrote = FALSE
      /\ disk = [doc |-> {}, version |-> 1]
      /\ load = [c \in Client |-> "new"] /\ doc = [c \in Client |-> {}]
      /\ clientSeq = [c \in Client |-> Unseen] /\ outbox = [c \in Client |-> <<>>]
      /\ unacked = [c \in Client |-> <<>>] /\ online = [c \in Client |-> FALSE]
  BY DEF Init
<1>2. Past
  BY <1>1, NothingIn DEF Past
<1>3. Stored
  <2>1. OnDisk = 0 /\ past[0] = {} /\ disk.doc = {} /\ disk.version = 1
    BY <1>1 DEF OnDisk
  <2>2. Len(saving) = 0
    BY <1>1
  <2> QED
    BY <1>1, <2>1, <2>2 DEF Stored
<1>4. Loaded
  BY <1>1 DEF Loaded
<1>5. Shown
  <2>1. \A c \in Client : Pending(c) = {}
    BY <1>1, NothingIn DEF Pending
  <2> QED
    BY <2>1 DEF Shown
<1>6. \A k \in Conn : GivenUp(k)
  BY <1>1, Names DEF GivenUp
<1>7. Orderly /\ HelloTrue /\ Lined /\ Contents
  BY <1>6 DEF Orderly, InUse, HelloTrue, Lined, Contents, Fresh
<1>8. Holds
  BY <1>1 DEF Holds
<1> QED
  BY <1>0, <1>2, <1>3, <1>4, <1>5, <1>7, <1>8 DEF AInv

(* Every step keeps it.                                                     *)
LEMMA AInvStep == AInv /\ [Next]_vars => AInv'
<1> SUFFICES ASSUME AInv, [Next]_vars PROVE AInv'
  OBVIOUS
<1> USE DEF AInv
<1>1. IInv'
  BY IInvStep
<1>2. /\ TypeOK /\ LogInOrder /\ Beginning /\ Numbered /\ OnTheWay
      /\ TypeOK' /\ Beginning' /\ Streams'
  BY <1>1 DEF IInv
<1>3. Past' /\ Stored' /\ Loaded' /\ Shown'
  BY <1>2, PastKept, StoredKept, LoadedKept, ShownKept
<1>4. Orderly' /\ HelloTrue' /\ Lined'
  BY <1>2, OrderlyKept, HelloTrueKept, LinedKept
<1>5. Contents' /\ Holds'
  BY <1>2, ContentsKept, HoldsKept
<1> QED
  BY <1>1, <1>3, <1>4, <1>5

(* Whoever is connected and has read all that was sent has everything the   *)
(* room has, whatever depends on what and whenever the file was saved, but  *)
(* for the two gaps (Room.greet, apply and persist, LiveSession.receive).   *)
THEOREM AllWorkIsThere == Spec => []AllWorkArrives
<1>1. AInv => AllWorkArrives
  <2> SUFFICES ASSUME AInv, NEW c \in Client, CaughtUp(c), ~gap[c], ~dropped[c]
               PROVE  roomDoc \subseteq doc[c]
    BY DEF AllWorkArrives
  <2>1. /\ TypeOK /\ Past /\ Loaded /\ Streams /\ Follows(c) /\ seq \in Nat
    <3>1. load[c] = "ready"
      BY DEF AInv, Loaded, CaughtUp
    <3> QED
      BY <3>1 DEF AInv, IInv, Holds, TypeOK, RoomTypes
  <2>2. PICK k \in Conn : k = Current(c) /\ online[c] /\ peer[k] = "greeted" /\ ~GivenUp(k)
    <3>1. Current(c) \in Conn /\ online[c]
      BY <2>1, CurrentIs DEF CaughtUp, TypeOK
    <3> QED
      BY <3>1 DEF CaughtUp, GivenUp, Current
  <2>3. PICK from \in Int : from = cursor[k]
    BY <2>1 DEF TypeOK, GhostTypes
  <2>4. PICK none : none = <<>> /\ ToRead(k) = none
    <3>1. ToRead(k) = <<>> \o <<>>
      BY <2>2 DEF CaughtUp, ToRead
    <3> QED
      BY <3>1, EmptySeq, ConcatEmptySeq
  <2>5. Len(none) = 0 /\ Skip(none) = 0
    BY <2>4 DEF Skip
  <2>6. from = seq
    <3>1. Runs(none, from, seq)
      BY <2>1, <2>2, <2>3, <2>4 DEF Streams
    <3> QED
      BY <2>1, <2>5, <3>1 DEF Runs
  <2>7. GoesOn(none, "greeted")
    BY <2>5 DEF GoesOn
  <2>8. Has(c, seq)
    BY <2>1, <2>2, <2>3, <2>4, <2>6, <2>7 DEF Follows, HasRead, Behind
  <2> QED
    BY <2>1, <2>8 DEF Has, Past
<1>2. Spec => []AInv
  BY AInvInit, AInvStep, PTL DEF Spec
<1> QED
  BY <1>1, <1>2, PTL

=============================================================================
