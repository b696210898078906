---------------------------- MODULE LiveSync ----------------------------
(***************************************************************************)
(* Live editing of one file: the browser side, class LiveSession           *)
(* (packages/editor/src/live.ts), and the server side, class Room          *)
(* (packages/server/src/live.ts), talking over WebSocket connections.      *)
(*                                                                         *)
(* A client numbers the batches it sends and keeps each until the room     *)
(* acknowledges it; the room numbers the batches it applies, keeps a log   *)
(* of the latest, and tells every other peer. When a connection breaks     *)
(* the client goes on editing, connects again and says up to which batch   *)
(* it has the file; the room answers with the batches it missed or with    *)
(* the whole file.                                                         *)
(*                                                                         *)
(* An operation is <<c, n>>, the n-th change made by client c.  A document *)
(* is the set of operations that have taken effect in it: the core merges  *)
(* operations by time, so only WHICH took effect matters here.             *)
(* Needs[op] are the operations without which op is rejected (a property   *)
(* of a node is set, or a child put in it, only once the node exists).     *)
(* Every client here is an editor; roles and presence are left out.        *)
(***************************************************************************)
EXTENDS Integers, Sequences, Functions

CONSTANTS
  Client,       \* browser tabs with the file open
  Quota,        \* Quota[c]: how many changes client c makes (bound)
  Needs,        \* Needs[op]: the operations op depends on
  Pictures,     \* the operations that carry a picture ("blob")
  LogLimit,     \* batches kept for people who reconnect (LOG_LIMIT)
  MaxConn,      \* MaxConn[c]: connections client c opens at most (bound)
  MaxVersion,   \* version of the file at which saving stops (bound)
  MaxEpoch      \* times the room is opened (bound)

Op   == UNION {{c} \X (1 .. Quota[c]) : c \in Client}
Conn == UNION {{c} \X (1 .. MaxConn[c]) : c \in Client}

ASSUME SyncAssumption ==
  /\ Quota \in [Client -> Nat]
  /\ MaxConn \in [Client -> Nat]
  /\ Needs \in [Op -> SUBSET Op]
  /\ Pictures \subseteq Op
  /\ LogLimit \in Nat /\ MaxVersion \in Nat /\ MaxEpoch \in Nat

VARIABLES
  (* the room: in memory, one incarnation at a time *)
  epoch,      \* which opening of the room this is
  roomDoc,    \* the document the room holds
  seq,        \* number of the last batch applied
  log,        \* the latest batches, [seq, ops]
  versions,   \* which batch each saved version contains up to
  dirty,      \* changed since the last save began
  saving,     \* saves under way in order, [doc, seq] as they were at the call
  wrote,      \* the document of the first of them is written, its record not yet
  disk,       \* the stored file, [doc, version]
  (* connections, on the server side *)
  peer,       \* "none", "joined" (no hello yet), "greeted" or "closed"
  held,       \* while a snapshot is prepared: it, and the messages to go after it
  up, down,   \* messages on the way to the room and to the client
  (* the clients *)
  load,       \* "new", "loading" (the record is read) or "ready"
  doc,        \* the document of the client
  version,    \* version of the file it was loaded at
  clientSeq,  \* the batch the client says it has the file up to, or Unseen
  you,        \* a welcome came at least once
  outbox,     \* operations not sent yet
  unacked,    \* batches sent and not confirmed, by their number
  nextBatch,  \* number of the last batch sent
  conn,       \* number of the current connection
  online,     \* the current connection is open as far as the client knows
  made,       \* how many changes the client made
  (* observation only: nothing in the code depends on these *)
  received,   \* operations some incarnation of the room took and confirmed
  cursor,     \* number of the last batch the client has read on a connection
  gap,        \* clientSeq claims batches that no connection will bring
  dropped,    \* a snapshot came without work the client was not told of yet
  past        \* past[n]: the document of the room as its batch n left it

roomVars   == <<epoch, roomDoc, seq, log, past>>
saveVars   == <<versions, dirty, saving, wrote, disk>>
netVars    == <<peer, held, up, down>>
clientVars == <<load, doc, version, clientSeq, you, outbox, unacked, nextBatch,
                conn, online, made>>
ghostVars  == <<received, cursor, gap, dropped>>
vars       == <<roomVars, saveVars, netVars, clientVars, ghostVars>>

Unseen == -1

Hello(v, since)   == [type |-> "hello", version |-> v, since |-> since]
Batch(id, ops)    == [type |-> "ops", id |-> id, ops |-> ops]
Welcome           == [type |-> "welcome", seq |-> seq]
EarlySnapshot(n, d) == [type |-> "snapshot", seq |-> n - 1, doc |-> d] \* slip
Snapshot(n, d)    == [type |-> "snapshot", seq |-> n, doc |-> d]
Relayed(n, ops)   == [type |-> "ops", seq |-> n, ops |-> ops]
Ack(id, n)        == [type |-> "ack", id |-> id, seq |-> n]

OpenPeers == {k \in Conn : peer[k] \in {"joined", "greeted"}}
Current(c) == <<c, conn[c]>>
Own(c) == {op \in Op : op[1] = c}
Made(c) == {op \in Own(c) : op[2] <= made[c]}

(* Only the last connection a client may open is sure to hold: otherwise the *)
(* bound on connections would cut a client off for good.                     *)
MayBreak(k) == k[2] < MaxConn[k[1]]

(* The client has given this connection up (or never opened it).             *)
GivenUp(k) == ~(online[k[1]] /\ Current(k[1]) = k)

(* Operations of a client waiting to be sent or to be confirmed: pendingOps(). *)
Pending(c) ==
  Range(outbox[c]) \cup UNION {Range(unacked[c][i]) : i \in DOMAIN unacked[c]}

(* The positions of ops that take effect in document d, applied in order:    *)
(* an operation counts as present for the ones after it only if it took      *)
(* effect itself.  (Sets closed under the condition are closed under union.) *)
Effective(d, ops) ==
  UNION {A \in SUBSET DOMAIN ops :
           \A i \in A : Needs[ops[i]] \subseteq
                          d \cup {ops[j] : j \in {j \in A : j < i}}}

Apply(d, ops) == d \cup {ops[i] : i \in Effective(d, ops)}

Init ==
  /\ epoch = 1 /\ roomDoc = {} /\ seq = 0 /\ log = <<>> /\ past = [n \in 0 .. 0 |-> {}]
  /\ versions = [v \in {1} |-> 0] /\ dirty = FALSE /\ saving = <<>>
  /\ wrote = FALSE /\ disk = [doc |-> {}, version |-> 1]
  /\ peer = [k \in Conn |-> "none"]
  /\ held = [k \in Conn |-> <<>>]
  /\ up = [k \in Conn |-> <<>>] /\ down = [k \in Conn |-> <<>>]
  /\ load = [c \in Client |-> "new"]
  /\ doc = [c \in Client |-> {}]
  /\ version = [c \in Client |-> 1]
  /\ clientSeq = [c \in Client |-> Unseen]
  /\ you = [c \in Client |-> FALSE]
  /\ outbox = [c \in Client |-> <<>>]
  /\ unacked = [c \in Client |-> <<>>]
  /\ nextBatch = [c \in Client |-> 0]
  /\ conn = [c \in Client |-> 0]
  /\ online = [c \in Client |-> FALSE]
  /\ made = [c \in Client |-> 0]
  /\ received = {}
  /\ cursor = [k \in Conn |-> 0]
  /\ gap = [c \in Client |-> FALSE] /\ dropped = [c \in Client |-> FALSE]

-----------------------------------------------------------------------------
(* The client: LiveSession, and the loading of the page that creates it.    *)

(* GET /api/files/:id reads the record of the file first...                 *)
LoadRecord(c) ==
  /\ load[c] = "new"
  /\ load' = [load EXCEPT ![c] = "loading"]
  /\ version' = [version EXCEPT ![c] = disk.version]
  /\ UNCHANGED <<roomVars, saveVars, netVars, doc, clientSeq, you, outbox,
                 unacked, nextBatch, conn, online, made, ghostVars>>

(* ...and the document after it, which may already be of a later version.   *)
LoadDocument(c) ==
  /\ load[c] = "loading"
  /\ load' = [load EXCEPT ![c] = "ready"]
  /\ doc' = [doc EXCEPT ![c] = disk.doc]
  /\ UNCHANGED <<roomVars, saveVars, netVars, version, clientSeq, you, outbox,
                 unacked, nextBatch, conn, online, made, ghostVars>>

(* A change made in the editor: it shows at once and waits in the outbox.   *)
Edit(c) ==
  /\ load[c] = "ready" /\ made[c] < Quota[c]
  /\ LET op == <<c, made[c] + 1>> IN
       /\ Needs[op] \subseteq doc[c]
       /\ doc' = [doc EXCEPT ![c] = @ \cup {op}]
       /\ outbox' = [outbox EXCEPT ![c] = Append(@, op)]
  /\ made' = [made EXCEPT ![c] = @ + 1]
  /\ UNCHANGED <<roomVars, saveVars, netVars, load, version, clientSeq, you,
                 unacked, nextBatch, conn, online, ghostVars>>

(* The socket opens and "hello" goes first, whatever waits in the outbox.   *)
Connect(c) ==
  /\ load[c] = "ready" /\ ~online[c] /\ conn[c] < MaxConn[c]
  /\ LET k == <<c, conn[c] + 1>> IN
       /\ peer' = [peer EXCEPT ![k] = "joined"]
       /\ up' = [up EXCEPT ![k] =
                   <<Hello(IF clientSeq[c] = Unseen THEN version[c] ELSE Unseen,
                           clientSeq[c])>>]
       /\ cursor' = [cursor EXCEPT ![k] = clientSeq[c]]
  /\ conn' = [conn EXCEPT ![c] = @ + 1]
  /\ online' = [online EXCEPT ![c] = TRUE]
  /\ UNCHANGED <<roomVars, saveVars, held, down, load, doc, version, clientSeq,
                 you, outbox, unacked, nextBatch, made, received, gap, dropped>>

(* Slip: the batch sent is not kept until it is confirmed.                  *)
SendAndForget(c, kept, ops) ==
  LET id == nextBatch[c] + 1
  IN  /\ nextBatch' = [nextBatch EXCEPT ![c] = id]
      /\ outbox' = [outbox EXCEPT ![c] = <<>>]
      /\ up' = [up EXCEPT ![Current(c)] =
                  IF peer[Current(c)] = "closed" THEN @ ELSE Append(@, Batch(id, ops))]
      /\ UNCHANGED unacked

(* flush: ops, the outbox, goes as one batch and joins those kept until they *)
(* are confirmed; on a connection the server has closed it goes nowhere.    *)
Send(c, kept, ops) ==
  LET k == Current(c)
      id == nextBatch[c] + 1
  IN  /\ nextBatch' = [nextBatch EXCEPT ![c] = id]
      /\ unacked' = [unacked EXCEPT ![c] = [i \in kept \cup {id} |->
                                              IF i = id THEN ops ELSE @[i]]]
      /\ outbox' = [outbox EXCEPT ![c] = <<>>]
      /\ up' = [up EXCEPT ![k] =
                  IF peer[k] = "closed" THEN @ ELSE Append(@, Batch(id, ops))]

(* The flush timer.  Once a welcome came (you) it does not wait for the one *)
(* of a new connection.                                                     *)
Flush(c) ==
  /\ online[c] /\ you[c] /\ outbox[c] # <<>>
  /\ Send(c, DOMAIN unacked[c], outbox[c])
  /\ UNCHANGED <<roomVars, saveVars, peer, held, down, load, doc, version,
                 clientSeq, you, conn, online, made, ghostVars>>

(* The client reads the next message of its current connection.             *)
Reads(c, type) ==
  /\ online[c]
  /\ down[Current(c)] # <<>> /\ Head(down[Current(c)]).type = type
  /\ down' = [down EXCEPT ![Current(c)] = Tail(@)]

Max2(a, b) == IF a > b THEN a ELSE b

(* The batches not confirmed, each put in front of the outbox, the oldest   *)
(* first: so the newest ends up at the very front.                          *)
PutBack(c) ==
  LET front[n \in 0 .. nextBatch[c]] ==
        IF n = 0 THEN outbox[c]
        ELSE IF n \in DOMAIN unacked[c] THEN unacked[c][n] \o front[n - 1]
        ELSE front[n - 1]
  IN  front

TakenBack(c) == PutBack(c)[nextBatch[c]]

(* "welcome": whatever was not confirmed is taken back and sent as one batch. *)
ReadWelcome(c) ==
  /\ Reads(c, "welcome")
  /\ you' = [you EXCEPT ![c] = TRUE]
  /\ clientSeq' = [clientSeq EXCEPT ![c] =
                     IF @ = Unseen THEN Head(down[Current(c)]).seq ELSE @]
  /\ IF TakenBack(c) = <<>>
       THEN UNCHANGED <<outbox, unacked, nextBatch, up>>
       ELSE Send(c, {}, TakenBack(c))
  /\ UNCHANGED <<roomVars, saveVars, peer, held, load, doc, version, conn,
                 online, made, ghostVars>>

(* The whole file: the document is replaced, and only what is still in the  *)
(* outbox is put back into it.                                              *)
ReadSnapshot(c) ==
  /\ Reads(c, "snapshot")
  /\ LET msg == Head(down[Current(c)]) IN
       /\ doc' = [doc EXCEPT ![c] = Apply(msg.doc, outbox[c])]
       /\ clientSeq' = [clientSeq EXCEPT ![c] = msg.seq]
       /\ cursor' = [cursor EXCEPT ![Current(c)] = msg.seq]
       /\ dropped' = [dropped EXCEPT ![c] = ~(Pending(c) \subseteq doc'[c])]
  /\ gap' = [gap EXCEPT ![c] = @ /\ peer[Current(c)] # "greeted"]
  /\ UNCHANGED <<roomVars, saveVars, peer, held, up, load, version, you, outbox,
                 unacked, nextBatch, conn, online, made, received>>

ReadOps(c) ==
  /\ Reads(c, "ops")
  /\ LET msg == Head(down[Current(c)]) IN
       /\ doc' = [doc EXCEPT ![c] = Apply(@, msg.ops)]
       /\ clientSeq' = [clientSeq EXCEPT ![c] = Max2(Max2(@, 0), msg.seq)]
       /\ cursor' = [cursor EXCEPT ![Current(c)] = msg.seq]
  /\ UNCHANGED <<roomVars, saveVars, peer, held, up, load, version, you, outbox,
                 unacked, nextBatch, conn, online, made, received, gap,
                 dropped>>

ReadAck(c) ==
  /\ Reads(c, "ack")
  /\ LET msg == Head(down[Current(c)]) IN
       /\ unacked' = [unacked EXCEPT ![c] = [i \in DOMAIN @ \ {msg.id} |-> @[i]]]
       /\ clientSeq' = [clientSeq EXCEPT ![c] = Max2(Max2(@, 0), msg.seq)]
       /\ cursor' = [cursor EXCEPT ![Current(c)] = msg.seq]
  /\ UNCHANGED <<roomVars, saveVars, peer, held, up, load, doc, version, you,
                 outbox, nextBatch, conn, online, made, received, gap, dropped>>

(* The connection ends as the client sees it: what was on the way to it is  *)
(* lost; it keeps its work and connects again later.                        *)
ClientClose(c) ==
  /\ online[c]
  /\ MayBreak(Current(c))
  /\ online' = [online EXCEPT ![c] = FALSE]
  /\ down' = [down EXCEPT ![Current(c)] = <<>>]
  /\ gap' = [gap EXCEPT ![c] = @ \/ clientSeq[c] > cursor[Current(c)]]
  /\ UNCHANGED <<roomVars, saveVars, peer, held, up, load, doc, version,
                 clientSeq, you, outbox, unacked, nextBatch, conn, made,
                 received, cursor, dropped>>

-----------------------------------------------------------------------------
(* The server: Room.                                                        *)

(* The room reads the next message of a connection.                         *)
Hears(k, type) ==
  /\ peer[k] \in {"joined", "greeted"}
  /\ up[k] # <<>> /\ Head(up[k]).type = type

(* What is sent on a connection its client has given up goes nowhere.       *)
Delivered(k, msgs) == IF GivenUp(k) THEN down[k] ELSE down[k] \o msgs

FirstLogged == IF log = <<>> THEN seq + 1 ELSE Head(log).seq

(* The batch a newcomer has the file up to, by the hello it sent; Unseen if *)
(* the room cannot tell.                                                    *)
UpTo(hello) ==
  IF hello.since # Unseen THEN hello.since
  ELSE IF hello.version \in DOMAIN versions THEN versions[hello.version]
  ELSE Unseen

(* The log has every batch after from, none of them with a picture.         *)
CanReplay(from) ==
  /\ from # Unseen /\ from >= FirstLogged - 1 /\ from <= seq
  /\ \A i \in DOMAIN log : log[i].seq > from => Range(log[i].ops) \cap Pictures = {}

(* Slip: the log is replayed from its start, whatever the newcomer has.     *)
WholeLog(from) == [i \in DOMAIN log |-> Relayed(log[i].seq, log[i].ops)]

Missed(from) ==
  [i \in 1 .. seq - from |->
     Relayed(from + i, log[from + i - FirstLogged + 1].ops)]

(* "hello": welcome, then the batches missed; or welcome, and the whole     *)
(* file as soon as its text is put together.                                *)
Greet(k) ==
  /\ peer[k] = "joined" /\ Hears(k, "hello")
  /\ peer' = [peer EXCEPT ![k] = "greeted"]
  /\ up' = [up EXCEPT ![k] = Tail(@)]
  /\ LET from == UpTo(Head(up[k])) IN
       IF CanReplay(from)
         THEN /\ down' = [down EXCEPT ![k] = Delivered(k, <<Welcome>> \o Missed(from))]
              /\ cursor' = [cursor EXCEPT ![k] = from]
              /\ UNCHANGED held
         ELSE /\ down' = [down EXCEPT ![k] = Delivered(k, <<Welcome>>)]
              /\ held' = [held EXCEPT ![k] = <<Snapshot(seq, roomDoc)>>]
              /\ cursor' = [cursor EXCEPT ![k] = seq - 1]
  /\ UNCHANGED <<roomVars, saveVars, clientVars, received, gap, dropped>>

(* Slip: what was held while the snapshot was prepared is forgotten.        *)
SendSnapshotOnly(k) ==
  /\ peer[k] = "greeted" /\ held[k] # <<>>
  /\ down' = [down EXCEPT ![k] = Delivered(k, <<Head(held[k])>>)]
  /\ held' = [held EXCEPT ![k] = <<>>]
  /\ UNCHANGED <<roomVars, saveVars, peer, up, clientVars, ghostVars>>

(* The snapshot is put together: it goes, and what was held follows it.     *)
SendSnapshot(k) ==
  /\ peer[k] = "greeted" /\ held[k] # <<>>
  /\ down' = [down EXCEPT ![k] = Delivered(k, held[k])]
  /\ held' = [held EXCEPT ![k] = <<>>]
  /\ UNCHANGED <<roomVars, saveVars, peer, up, clientVars, ghostVars>>

(* Slip: the sender is sent its own batch back and no confirmation.         *)
Echoed(q, k, msg) == Relayed(seq + 1, msg.ops)

(* What a peer is sent of a batch of connection k: the others the batch,    *)
(* its sender the confirmation.                                             *)
Told(q, k, msg) == IF q = k THEN Ack(msg.id, seq + 1) ELSE Relayed(seq + 1, msg.ops)

KeepLatest(entries) ==
  IF Len(entries) > LogLimit
    THEN SubSeq(entries, Len(entries) - LogLimit + 1, Len(entries))
    ELSE entries

(* "ops": applied, logged, passed on to every other peer, confirmed.        *)
Receive(k) ==
  /\ peer[k] = "greeted" /\ Hears(k, "ops")
  /\ LET msg == Head(up[k]) IN
       /\ roomDoc' = Apply(roomDoc, msg.ops)
       /\ log' = KeepLatest(Append(log, [seq |-> seq + 1, ops |-> msg.ops]))
       /\ past' = [n \in 0 .. seq + 1 |-> IF n <= seq THEN past[n] ELSE roomDoc']
       /\ received' = received \cup Range(msg.ops)
       /\ down' = [q \in Conn |->
                     IF peer[q] = "greeted" /\ held[q] = <<>>
                       THEN Delivered(q, <<Told(q, k, msg)>>)
                       ELSE down[q]]
       /\ held' = [q \in Conn |->
                     IF peer[q] = "greeted" /\ held[q] # <<>>
                       THEN Append(held[q], Told(q, k, msg))
                       ELSE held[q]]
  /\ seq' = seq + 1
  /\ up' = [up EXCEPT ![k] = Tail(@)]
  /\ dirty' = TRUE
  /\ UNCHANGED <<epoch, versions, saving, wrote, disk, peer, clientVars, cursor, gap,
                 dropped>>

(* The save timer fires: the document is taken as it is at the call; the writing follows  *)
(* the saves called before.                                                 *)
Save ==
  /\ dirty /\ disk.version + Len(saving) < MaxVersion
  /\ dirty' = FALSE
  /\ saving' = Append(saving, [doc |-> roomDoc, seq |-> seq])
  /\ UNCHANGED <<roomVars, versions, wrote, disk, netVars, clientVars, ghostVars>>

WriteDocument ==
  /\ saving # <<>> /\ ~wrote
  /\ disk' = [disk EXCEPT !.doc = Head(saving).doc]
  /\ wrote' = TRUE
  /\ UNCHANGED <<roomVars, versions, dirty, saving, netVars, clientVars, ghostVars>>

(* Slip: the version is noted with the batch the room is at by now.         *)
WriteRecordLate ==
  /\ saving # <<>> /\ wrote
  /\ disk' = [disk EXCEPT !.version = @ + 1]
  /\ versions' = [v \in DOMAIN versions \cup {disk.version + 1} |->
                    IF v = disk.version + 1 THEN seq ELSE versions[v]]
  /\ saving' = Tail(saving)
  /\ wrote' = FALSE
  /\ UNCHANGED <<roomVars, dirty, netVars, clientVars, ghostVars>>

(* The record follows: the version a client loads now, and the batch it has. *)
WriteRecord ==
  /\ saving # <<>> /\ wrote
  /\ disk' = [disk EXCEPT !.version = @ + 1]
  /\ versions' = [v \in DOMAIN versions \cup {disk.version + 1} |->
                    IF v = disk.version + 1 THEN Head(saving).seq ELSE versions[v]]
  /\ saving' = Tail(saving)
  /\ wrote' = FALSE
  /\ UNCHANGED <<roomVars, dirty, netVars, clientVars, ghostVars>>

(* The server sees a connection end.                                        *)
ServerClose(k) ==
  /\ peer[k] \in {"joined", "greeted"}
  /\ MayBreak(k)
  /\ peer' = [peer EXCEPT ![k] = "closed"]
  /\ up' = [up EXCEPT ![k] = <<>>]
  /\ held' = [held EXCEPT ![k] = <<>>]
  /\ UNCHANGED <<roomVars, saveVars, down, clientVars, ghostVars>>

(* The room is saved and forgotten (everyone left, or the server stopped    *)
(* and closed what was open), and opened from disk for the next to come.    *)
Reopen ==
  /\ epoch < MaxEpoch
  /\ ~dirty /\ saving = <<>>
  /\ \A k \in OpenPeers : MayBreak(k)
  /\ epoch' = epoch + 1
  /\ roomDoc' = disk.doc /\ seq' = 0 /\ log' = <<>>
  /\ past' = [n \in 0 .. 0 |-> disk.doc]
  /\ versions' = [v \in {disk.version} |-> 0]
  /\ peer' = [k \in Conn |-> IF k \in OpenPeers THEN "closed" ELSE peer[k]]
  /\ up' = [k \in Conn |-> <<>>]
  /\ held' = [k \in Conn |-> <<>>]
  /\ gap' = [c \in Client |-> \/ gap[c] \/ clientSeq[c] # Unseen
                              \/ online[c] /\ down[Current(c)] # <<>>]
  /\ UNCHANGED <<dirty, saving, wrote, disk, down, clientVars, received, cursor,
                 dropped>>

-----------------------------------------------------------------------------
(* The next message is read, whatever it is.                                *)
Read(c) == ReadWelcome(c) \/ ReadSnapshot(c) \/ ReadOps(c) \/ ReadAck(c)
Hear(k) == Greet(k) \/ Receive(k)
Write   == WriteDocument \/ WriteRecord

Next ==
  \/ \E c \in Client :
       \/ LoadRecord(c) \/ LoadDocument(c) \/ Edit(c) \/ Connect(c) \/ Flush(c)
       \/ Read(c) \/ ClientClose(c)
  \/ \E k \in Conn : Hear(k) \/ SendSnapshot(k) \/ ServerClose(k)
  \/ Save \/ Write \/ Reopen

Spec == Init /\ [][Next]_vars

(* The scheduling the code justifies: timers fire, the event loop serves    *)
(* every message that came, a client that lost its connection tries again   *)
(* for as long as the page is open.  Nothing makes people edit or load a    *)
(* page, nor a connection break.                                            *)
Fairness ==
  /\ \A c \in Client :
       /\ WF_vars(LoadDocument(c)) /\ WF_vars(Connect(c))
       /\ WF_vars(Flush(c)) /\ WF_vars(Read(c))
       /\ WF_vars(online[c] /\ peer[Current(c)] = "closed" /\ ClientClose(c))
  /\ \A k \in Conn : WF_vars(Hear(k)) /\ WF_vars(SendSnapshot(k))
  /\ WF_vars(Save) /\ WF_vars(Write)

FairSpec == Spec /\ Fairness

-----------------------------------------------------------------------------
(* Properties.                                                              *)

HelloMsg == [type : {"hello"}, version : Int, since : Int]
BatchMsg == [type : {"ops"}, id : Nat, ops : Seq(Op)]
UpMsg    == HelloMsg \cup BatchMsg
DownMsg  == [type : {"welcome"}, seq : Nat]
              \cup [type : {"snapshot"}, seq : Nat, doc : SUBSET Op]
              \cup [type : {"ops"}, seq : Nat, ops : Seq(Op)]
              \cup [type : {"ack"}, id : Nat, seq : Nat]

(* What the rooms hold, what is being saved, what is on the way, what a tab  *)
(* shows, its connection, its work to be sent, and what is only observed.   *)
RoomTypes ==
  /\ epoch \in Nat /\ roomDoc \in SUBSET Op /\ seq \in Nat
  /\ log \in Seq([seq : Nat, ops : Seq(Op)])
  /\ past \in [0 .. seq -> SUBSET Op]
SaveTypes ==
  /\ DOMAIN versions \subseteq Nat /\ \A v \in DOMAIN versions : versions[v] \in Nat
  /\ dirty \in BOOLEAN /\ wrote \in BOOLEAN
  /\ saving \in Seq([doc : SUBSET Op, seq : Nat])
  /\ disk \in [doc : SUBSET Op, version : Nat]
NetTypes ==
  /\ peer \in [Conn -> {"none", "joined", "greeted", "closed"}]
  /\ held \in [Conn -> Seq(DownMsg)]
  /\ up \in [Conn -> Seq(UpMsg)] /\ down \in [Conn -> Seq(DownMsg)]
TabTypes ==
  /\ load \in [Client -> {"new", "loading", "ready"}]
  /\ doc \in [Client -> SUBSET Op]
  /\ version \in [Client -> Nat] /\ clientSeq \in [Client -> Int]
  /\ you \in [Client -> BOOLEAN]
  /\ made \in [Client -> Nat] /\ \A c \in Client : made[c] <= Quota[c]
LinkTypes ==
  /\ conn \in [Client -> Nat] /\ \A c \in Client : conn[c] <= MaxConn[c]
  /\ \A c \in Client : online[c] => conn[c] >= 1
  /\ online \in [Client -> BOOLEAN]
WorkTypes ==
  /\ outbox \in [Client -> Seq(Op)]
  /\ \A c \in Client : /\ DOMAIN unacked[c] \subseteq Nat
                       /\ \A i \in DOMAIN unacked[c] : unacked[c][i] \in Seq(Op)
  /\ DOMAIN unacked = Client
  /\ nextBatch \in [Client -> Nat]
GhostTypes ==
  /\ received \in SUBSET Op
  /\ cursor \in [Conn -> Int] /\ gap \in [Client -> BOOLEAN]
  /\ dropped \in [Client -> BOOLEAN]

(* Every variable has values of its kind.                                   *)
TypeOK ==
  /\ RoomTypes /\ SaveTypes /\ NetTypes /\ TabTypes /\ LinkTypes
  /\ WorkTypes /\ GhostTypes

(* No change is ever lost between the editor and the room, however often    *)
(* the connection breaks: it is kept by the client until the room took it   *)
(* ("kept until the server confirms them", editor/src/live.ts:2-3).         *)
NoWorkLost == \A c \in Client : Made(c) \subseteq Pending(c) \cup received

(* What a greeted client has still to read on its connection is every batch *)
(* after the last it read, once each, in order, up to the latest: whatever  *)
(* happens while the file is being sent comes after it (greet, out).        *)
StreamNumbers(k) ==
  LET all  == down[k] \o held[k]
      skip == IF all # <<>> /\ Head(all).type = "welcome" THEN 1 ELSE 0
  IN  [i \in 1 .. Len(all) - skip |-> all[i + skip].seq]

StreamInOrder ==
  \A k \in Conn :
    peer[k] = "greeted" /\ ~GivenUp(k) =>
      StreamNumbers(k) = [i \in 1 .. seq - cursor[k] |-> cursor[k] + i]

(* Someone connected who has read all that was sent has everything the room *)
(* has, whatever depends on what, except after one of the gaps README names. *)
CaughtUp(c) ==
  /\ online[c] /\ peer[Current(c)] = "greeted"
  /\ down[Current(c)] = <<>> /\ held[Current(c)] = <<>>

AllWorkArrives ==
  \A c \in Client : CaughtUp(c) /\ ~gap[c] /\ ~dropped[c] => roomDoc \subseteq doc[c]

(* Once a client has something to send, the room confirms everything it     *)
(* has in the end.                                                          *)
WorkGetsConfirmed == \A c \in Client : Pending(c) # {} ~> Pending(c) = {}

(* Whatever the room takes in reaches every open editor, bar those gaps.    *)
WorkGetsAround ==
  \A c \in Client : \A op \in Op \ Own(c) :
    op \in roomDoc /\ load[c] = "ready" ~> op \in doc[c] \/ gap[c]

(* "send them again (the core ignores what it already has)"                 *)
(* (editor/src/live.ts:171-172): what the room confirmed is in its document. *)
ConfirmedWorkCounts == received \subseteq roomDoc
=============================================================================
