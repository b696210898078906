---------------------------- MODULE DocStore ----------------------------
(***************************************************************************)
(* The document as editors and the room merge it: operations with Lamport  *)
(* times over a tree of nodes, undo and redo, and the snapshot a newcomer  *)
(* is given (packages/core/src/store.ts, clock.ts, document.ts,            *)
(* serialize.ts; Room.receive, apply, greet of packages/server/src/live.ts *)
(* and LiveSession of packages/editor/src/live.ts).                        *)
(*                                                                         *)
(* Sessions are numbered: times are compared by counter, then by session.  *)
(* A property is a member of Key, its default is 0; "deleted" = 1 is a     *)
(* deleted node.  A place is the parent of a node (the order key goes with *)
(* it).  Every node may contain every other.  What a client sent reaches   *)
(* the room once and in its order (LiveSync has broken connections and     *)
(* what is sent again); a client may at any time be sent the file: the     *)
(* room takes the snapshot, the welcome and then the file reach the client *)
(* each at its own time, and batches are under way all the while.          *)
(***************************************************************************)
EXTENDS Integers, FiniteSets, SequencesExt

CONSTANTS
  Client,    \* editors
  Node,
  Root,      \* the document node
  Drawn,     \* nodes of the file at first, children of the root
  Key,       \* properties
  Session,   \* the sessions of all documents the clients will have
  First,     \* of the documents they begin with
  MaxEdit,   \* edits, undos and redos of each client (bounds)
  MaxLoad    \* times a client is sent the file (bound)

NoNode == "none"

ASSUME DocAssumption ==
  /\ Session \subseteq Nat \ {0}
  /\ IsFiniteSet(Node) /\ NoNode \notin Node
  /\ Root \in Node /\ Drawn \subseteq Node \ {Root}
  /\ "deleted" \in Key /\ "place" \notin Key
  /\ MaxEdit \in [Client -> Nat] /\ MaxLoad \in Nat

ASSUME FirstAssumption ==
  /\ First \in [Client -> Session]
  /\ \A q, r \in Client : First[q] = First[r] => q = r

Zero == <<0, 0>>
Before(a, b) == a[1] < b[1] \/ (a[1] = b[1] /\ a[2] < b[2])

VARIABLES
  store,   \* store[r]: the nodes of client r
  clock,   \* its counter
  session, \* the session of its document
  outbox,  \* operations the room has not got
  sent,    \* how many of them are under way to it
  inbox,   \* batches of others on their way to it
  undo, redo, \* steps [id, key, before, after]
  room,    \* the nodes of the room
  roomClock,
  waits,   \* what a client that is sent the file waits for
  snap,    \* the file on its way to it
  (* bounds and observation *)
  edits,   \* what each client did
  loads,   \* times a client was sent the file
  loaded,  \* clients that hold a file without times
  apart,   \* clients that took in work of others, or a file again
  barred,  \* some move was rejected because of a cycle
  used,    \* sessions some document had
  unseen   \* registers a client wrote, but does not see its work on

clientVars == <<store, clock, session, outbox, sent, inbox, undo, redo>>
roomVars == <<room, roomClock, waits, snap>>
obsVars  == <<edits, loads, loaded, apart, barred, used, unseen>>
vars == <<clientVars, roomVars, obsVars>>

Record(parent, time) ==
  [parent |-> parent, placeTime |-> time,
   val |-> [k \in Key |-> 0], time |-> [k \in Key |-> Zero]]

File == [n \in Drawn \cup {Root} |->
           Record(IF n = Root THEN NoNode ELSE Root, Zero)]

(* No file on its way; of one that is: its nodes, the clock of the room,   *)
(* how many batches the client was not sent because it gets the file, and  *)
(* the registers the room got work of the client on since.                 *)
NoSnap == [file |-> File, clock |-> 0, missed |-> 0, later |-> {}]

Init ==
  /\ store = [r \in Client |-> File] /\ room = File
  /\ clock = [r \in Client |-> 0] /\ roomClock = 0
  /\ session = First /\ used = {First[r] : r \in Client}
  /\ sent = [r \in Client |-> 0] /\ unseen = [r \in Client |-> {}]
  /\ waits = [r \in Client |-> "nothing"] /\ snap = [r \in Client |-> NoSnap]
  /\ outbox = [r \in Client |-> <<>>] /\ inbox = [r \in Client |-> <<>>]
  /\ undo = [r \in Client |-> <<>>] /\ redo = [r \in Client |-> <<>>]
  /\ edits = [r \in Client |-> 0] /\ loads = 0 /\ loaded = {} /\ apart = {}
  /\ barred = FALSE

-----------------------------------------------------------------------------
(* The tree.                                                                *)
Above(s, id) ==
  LET up[k \in 0 .. Cardinality(Node)] ==
        IF k = 0 THEN {id}
        ELSE LET below == up[k - 1]
             IN below \cup {s[n].parent : n \in below \cap DOMAIN s}
  IN up[Cardinality(Node)]

Alive(s, id) == /\ id \in DOMAIN s
                /\ \A n \in Above(s, id) \ {NoNode} : s[n].val["deleted"] = 0

(* Slip: a node may go below itself.                                      *)
CanMoveAnywhere(s, id, parent) == id \in DOMAIN s /\ parent \in DOMAIN s

CanMove(s, id, parent) ==
  id \in DOMAIN s /\ parent \in DOMAIN s /\ id \notin Above(s, parent)

(* Operations: applied, stale or rejected.  "alone" is an observation: when *)
(* it was made its author saw all work on its register, and until it        *)
(* reaches the room others do nothing to it.                                *)
Operation(kind, id, key, to, time) ==
  [kind |-> kind, id |-> id, key |-> key, to |-> to, time |-> time,
   alone |-> TRUE]

Create(s, op) ==
  IF op.id \in DOMAIN s \/ op.to \notin DOMAIN s THEN s
  ELSE [n \in DOMAIN s \cup {op.id} |->
          IF n = op.id THEN Record(op.to, op.time) ELSE s[n]]

(* Slip: the last to arrive wins.                                         *)
SetAsItComes(s, op) ==
  IF op.id \notin DOMAIN s THEN s
  ELSE [s EXCEPT ![op.id].val[op.key] = op.to, ![op.id].time[op.key] = op.time]

Set(s, op) ==
  IF op.id \notin DOMAIN s \/ Before(op.time, s[op.id].time[op.key]) THEN s
  ELSE [s EXCEPT ![op.id].val[op.key] = op.to, ![op.id].time[op.key] = op.time]

Late(s, op) == Before(op.time, s[op.id].placeTime)

Move(s, op) ==
  IF op.id \notin DOMAIN s \/ Late(s, op) \/ ~CanMove(s, op.id, op.to) THEN s
  ELSE [s EXCEPT ![op.id].parent = op.to, ![op.id].placeTime = op.time]

Apply(s, op) == CASE op.kind = "create" -> Create(s, op)
                  [] op.kind = "set"    -> Set(s, op)
                  [] op.kind = "move"   -> Move(s, op)

(* The document before the first operation, and after each.                 *)
After(s, ops) ==
  LET after[i \in 0 .. Len(ops)] ==
        IF i = 0 THEN s ELSE Apply(after[i - 1], ops[i])
  IN  after

ApplyAll(s, ops) == After(s, ops)[Len(ops)]

(* Some move among ops is rejected because of a cycle.                      *)
Bars(s, ops) ==
  \E i \in 1 .. Len(ops) :
    LET before == After(s, ops)[i - 1] IN
      /\ ops[i].kind = "move" /\ ops[i].id \in DOMAIN before
      /\ ~Late(before, ops[i]) /\ ~CanMove(before, ops[i].id, ops[i].to)

(* The clock goes past every time it is shown.                              *)
Observed(counter, ops) ==
  Max({counter} \cup {ops[i].time[1] : i \in 1 .. Len(ops)})

-----------------------------------------------------------------------------
(* Local edits: one operation each, applied at once, a step of the history. *)
Now(s, id, key) == IF key = "place" THEN s[id].parent ELSE s[id].val[key]

Write(id, key, to, time) ==
  Operation(IF key = "place" THEN "move" ELSE "set", id, key, to, time)

Same(op, other) == op.id = other.id /\ op.key = other.key
Touched(op, ops) == \E i \in 1 .. Len(ops) : Same(op, ops[i])
Registers(ops) == {<<ops[i].id, ops[i].key>> : i \in 1 .. Len(ops)}

(* Client r applies an operation of its own and keeps it for the room.      *)
Emit(r, op) ==
  /\ edits[r] < MaxEdit[r] /\ edits' = [edits EXCEPT ![r] = @ + 1]
  /\ clock' = [clock EXCEPT ![r] = op.time[1]]
  /\ store' = [store EXCEPT ![r] = Apply(@, op)]
  /\ outbox' = [outbox EXCEPT ![r] =
       Append(@, [op EXCEPT !.alone =
                    /\ <<op.id, op.key>> \notin unseen[r]
                    /\ ~\E b \in 1 .. Len(inbox[r]) : Touched(op, inbox[r][b])])]
  /\ UNCHANGED <<session, sent, inbox, roomVars, loads, loaded, apart, barred,
                 used, unseen>>

Tick(r) == <<clock[r] + 1, session[r]>>

Push(r, id, key, before, after) ==
  /\ undo' = [undo EXCEPT ![r] = Append(@, [id |-> id, key |-> key,
                                            before |-> before, after |-> after])]
  /\ redo' = [redo EXCEPT ![r] = <<>>]

(* Ids are unique: nobody has used this one.                                *)
Fresh(n) ==
  /\ n \notin DOMAIN room
  /\ \A q \in Client : /\ n \notin DOMAIN store[q]
                       /\ \A i \in 1 .. Len(outbox[q]) : outbox[q][i].id # n

(* A new node; its step says "deleted: 1, then 0".                          *)
CreateLocal(r, n, parent) ==
  /\ Fresh(n) /\ Alive(store[r], parent)
  /\ Emit(r, Operation("create", n, "place", parent, Tick(r)))
  /\ Push(r, n, "deleted", 1, 0)

SetLocal(r, n, key, value) ==
  /\ n # Root /\ Alive(store[r], n) /\ Now(store[r], n, key) # value
  /\ Emit(r, Write(n, key, value, Tick(r)))
  /\ Push(r, n, key, Now(store[r], n, key), value)

MoveLocal(r, n, parent) ==
  /\ n # Root /\ Alive(store[r], n) /\ Alive(store[r], parent)
  /\ CanMove(store[r], n, parent) /\ store[r][n].parent # parent
  /\ Emit(r, Write(n, "place", parent, Tick(r)))
  /\ Push(r, n, "place", store[r][n].parent, parent)

-----------------------------------------------------------------------------
(* Undo and redo.  A step is replayed when its register still holds what    *)
(* the step left (or, for redo, found) there.                               *)
Matches(s, step, expected) ==
  step.id \in DOMAIN s /\ Now(s, step.id, step.key) = expected

Replayable(s, step, expected, wanted) ==
  /\ Matches(s, step, expected)
  /\ step.key = "place" => CanMove(s, step.id, wanted)

(* Undo goes back to the last step that still can be undone; those on the   *)
(* way are dropped, each rejected move having taken a tick.                 *)
Undoable(r) == {i \in 1 .. Len(undo[r]) :
                  Replayable(store[r], undo[r][i], undo[r][i].after,
                             undo[r][i].before)}
UndoTicks(r, i) == Cardinality({j \in i .. Len(undo[r]) :
                                  Matches(store[r], undo[r][j], undo[r][j].after)})

Undo(r) ==
  /\ Undoable(r) # {}
  /\ LET i    == Max(Undoable(r))
         step == undo[r][i]
     IN /\ Emit(r, Write(step.id, step.key, step.before,
                         <<clock[r] + UndoTicks(r, i), session[r]>>))
        /\ undo' = [undo EXCEPT ![r] = SubSeq(@, 1, i - 1)]
        /\ redo' = [redo EXCEPT ![r] = Append(@, step)]

UndoNothing(r) ==
  /\ undo[r] # <<>> /\ Undoable(r) = {}
  /\ edits[r] < MaxEdit[r] /\ edits' = [edits EXCEPT ![r] = @ + 1]
  /\ clock' = [clock EXCEPT ![r] = @ + UndoTicks(r, 1)]
  /\ undo' = [undo EXCEPT ![r] = <<>>]
  /\ UNCHANGED <<store, session, outbox, sent, inbox, redo, roomVars, loads,
                 loaded, apart, barred, used, unseen>>

(* Slip: what was done again cannot be undone.                            *)
RedoOffHistory(r) ==
  /\ redo[r] # <<>>
  /\ LET step == Last(redo[r]) IN
       /\ Replayable(store[r], step, step.before, step.after)
       /\ Emit(r, Write(step.id, step.key, step.after, Tick(r)))
  /\ redo' = [redo EXCEPT ![r] = Front(@)]
  /\ UNCHANGED undo

(* Redo tries one step.                                                     *)
Redo(r) ==
  /\ redo[r] # <<>>
  /\ LET step == Last(redo[r]) IN
       IF Replayable(store[r], step, step.before, step.after)
       THEN /\ Emit(r, Write(step.id, step.key, step.after, Tick(r)))
            /\ undo' = [undo EXCEPT ![r] = Append(@, step)]
       ELSE /\ edits[r] < MaxEdit[r] /\ edits' = [edits EXCEPT ![r] = @ + 1]
            /\ clock' = [clock EXCEPT ![r] =
                 IF Matches(store[r], step, step.before) THEN @ + 1 ELSE @]
            /\ UNCHANGED <<store, session, outbox, sent, inbox, undo, roomVars,
                           loads, loaded, apart, barred, used, unseen>>
  /\ redo' = [redo EXCEPT ![r] = Front(@)]

-----------------------------------------------------------------------------
(* What a client has not sent yet leaves; the room takes it when it comes,  *)
(* batch by batch (any number from the front: a flush may end anywhere),    *)
(* applies it and passes it on.                                             *)
Contested(pending, ops) ==
  [i \in 1 .. Len(pending) |->
     [pending[i] EXCEPT !.alone = @ /\ ~Touched(pending[i], ops)]]

Flush(r) ==
  /\ sent[r] < Len(outbox[r])
  /\ sent' = [sent EXCEPT ![r] = Len(outbox[r])]
  /\ UNCHANGED <<store, clock, session, outbox, inbox, undo, redo, roomVars, obsVars>>

Rest(ops, k) == SubSeq(ops, k + 1, Len(ops))

Batch(r, k) == SubSeq(outbox[r], 1, k)

Receive(r, k) ==
  /\ room' = ApplyAll(room, Batch(r, k))
  /\ roomClock' = Observed(roomClock, Batch(r, k))
  /\ inbox' = [q \in Client |-> IF q = r THEN inbox[q]
                                ELSE Append(inbox[q], Batch(r, k))]
  /\ outbox' = [q \in Client |-> IF q = r THEN Rest(outbox[r], k)
                                 ELSE Contested(outbox[q], Batch(r, k))]
  /\ sent' = [sent EXCEPT ![r] = @ - k]
  /\ snap' = [snap EXCEPT ![r].later =
       IF waits[r] = "nothing" THEN @ ELSE @ \cup Registers(Batch(r, k))]
  /\ barred' = (barred \/ Bars(room, Batch(r, k)))
  /\ UNCHANGED <<store, clock, session, undo, redo, waits, edits, loads, loaded,
                 apart, used, unseen>>

(* Slip: the clock does not notice the times of others.                   *)
ReadUnobserved(r) ==
  /\ waits[r] = "nothing" /\ inbox[r] # <<>>
  /\ inbox' = [inbox EXCEPT ![r] = Tail(@)]
  /\ store' = [store EXCEPT ![r] = ApplyAll(@, Head(inbox[r]))]
  /\ barred' = (barred \/ Bars(store[r], Head(inbox[r])))
  /\ apart' = apart \cup {r}
  /\ UNCHANGED <<clock, session, outbox, sent, undo, redo, roomVars, edits, loads,
                 loaded, used, unseen>>

(* Slip: a batch is applied from its end.                                 *)
ReadNewestFirst(r) ==
  /\ waits[r] = "nothing" /\ inbox[r] # <<>>
  /\ inbox' = [inbox EXCEPT ![r] = Tail(@)]
  /\ store' = [store EXCEPT ![r] = ApplyAll(@, Reverse(Head(inbox[r])))]
  /\ clock' = [clock EXCEPT ![r] = Observed(@, Head(inbox[r]))]
  /\ apart' = apart \cup {r}
  /\ UNCHANGED <<session, outbox, sent, undo, redo, roomVars, edits, loads,
                 loaded, barred, used, unseen>>

(* The next batch of the others reaches r; those that come while it waits   *)
(* for the file are held back until it has it.                              *)
Read(r) ==
  /\ waits[r] = "nothing" /\ inbox[r] # <<>>
  /\ inbox' = [inbox EXCEPT ![r] = Tail(@)]
  /\ store' = [store EXCEPT ![r] = ApplyAll(@, Head(inbox[r]))]
  /\ clock' = [clock EXCEPT ![r] = Observed(@, Head(inbox[r]))]
  /\ barred' = (barred \/ Bars(store[r], Head(inbox[r])))
  /\ apart' = apart \cup {r}
  /\ UNCHANGED <<session, outbox, sent, undo, redo, roomVars, edits, loads,
                 loaded, used, unseen>>

(* The file as a newcomer gets it: no deleted nodes, and no times.          *)
Snapshot(s) ==
  [n \in {n \in DOMAIN s : Alive(s, n)} |->
     [s[n] EXCEPT !.placeTime = Zero, !.time = [k \in Key |-> Zero]]]

(* A client joins again and gets the file (it came, or was away for too     *)
(* long): the room takes the snapshot now.                                  *)
Greet(r) ==
  /\ waits[r] = "nothing" /\ loads < MaxLoad /\ loads' = loads + 1
  /\ waits' = [waits EXCEPT ![r] = "welcome"]
  /\ snap' = [snap EXCEPT ![r] = [file |-> Snapshot(room), clock |-> roomClock,
                                  missed |-> Len(inbox[r]), later |-> {}]]
  /\ UNCHANGED <<clientVars, room, roomClock, edits, loaded, apart, barred, used,
                 unseen>>

(* The welcome brings the clock of the room; all the client has goes out.   *)
Welcome(r) ==
  /\ waits[r] = "welcome" /\ waits' = [waits EXCEPT ![r] = "file"]
  /\ clock' = [clock EXCEPT ![r] = Max({@, snap[r].clock})]
  /\ sent' = [sent EXCEPT ![r] = Len(outbox[r])]
  /\ inbox' = [inbox EXCEPT ![r] = Rest(@, snap[r].missed)]
  /\ snap' = [snap EXCEPT ![r].missed = 0] /\ loaded' = loaded \cup {r}
  /\ UNCHANGED <<store, session, outbox, undo, redo, room, roomClock, edits,
                 loads, apart, barred, used, unseen>>

(* The file becomes a new document with a session and a history of its own, *)
(* and what was not sent yet is put on top; batches under way, and those    *)
(* the room got since, are on neither.                                      *)
NewDocument(r, counter) ==
  LET unsent == Rest(outbox[r], sent[r]) IN
  /\ waits[r] = "file" /\ waits' = [waits EXCEPT ![r] = "nothing"]
  /\ \E s \in Session \ used : /\ session' = [session EXCEPT ![r] = s]
                               /\ used' = used \cup {s}
  /\ store' = [store EXCEPT ![r] = ApplyAll(snap[r].file, unsent)]
  /\ clock' = [clock EXCEPT ![r] = Observed(counter, unsent)]
  /\ unseen' = [unseen EXCEPT ![r] =
       snap[r].later \cup Registers(Batch(r, sent[r]))]
  /\ undo' = [undo EXCEPT ![r] = <<>>] /\ redo' = [redo EXCEPT ![r] = <<>>]
  /\ snap' = [snap EXCEPT ![r] = NoSnap] /\ apart' = apart \cup {r}
  /\ barred' = (barred \/ Bars(snap[r].file, unsent))
  /\ UNCHANGED <<outbox, sent, inbox, room, roomClock, edits, loads, loaded>>

(* Slip: the new document does not notice the clock of the room.          *)
LoadClockless(r) == NewDocument(r, 0)

Load(r) == NewDocument(r, snap[r].clock)

-----------------------------------------------------------------------------
Next ==
  \E r \in Client :
    \/ \E n \in Node, parent \in Node :
         CreateLocal(r, n, parent) \/ MoveLocal(r, n, parent)
    \/ \E n \in Node, key \in Key, value \in 0 .. 1 : SetLocal(r, n, key, value)
    \/ Undo(r) \/ UndoNothing(r) \/ Redo(r)
    \/ Flush(r) \/ (\E k \in 1 .. sent[r] : Receive(r, k)) \/ Read(r)
    \/ Greet(r) \/ Welcome(r) \/ Load(r)

Spec == Init /\ [][Next]_vars

-----------------------------------------------------------------------------
Time == Nat \X (Session \cup {0})
Store(s) ==
  /\ DOMAIN s \subseteq Node
  /\ \A n \in DOMAIN s :
       s[n] \in [parent : Node \cup {NoNode}, placeTime : Time,
                 val : [Key -> 0 .. 1], time : [Key -> Time]]
OpOK(op) ==
  /\ op.kind \in {"create", "set", "move"} /\ op.id \in Node \ {Root}
  /\ op.to \in IF op.kind = "set" THEN 0 .. 1 ELSE Node
  /\ op.key \in IF op.kind = "set" THEN Key ELSE {"place"}
  /\ op.time \in Time

(* Every time in a store is one its clock has passed.                       *)
InClock(s, counter) ==
  \A n \in DOMAIN s :
    /\ s[n].placeTime[1] <= counter
    /\ \A k \in Key : s[n].time[k][1] <= counter

TypeOK ==
  /\ Store(room) /\ InClock(room, roomClock)
  /\ \A r \in Client :
       /\ Store(store[r]) /\ InClock(store[r], clock[r])
       /\ Store(snap[r].file)
       /\ \A i \in 1 .. Len(outbox[r]) : OpOK(outbox[r][i])
       /\ sent[r] \in 0 .. Len(outbox[r]) /\ snap[r].missed \in 0 .. Len(inbox[r])
       /\ edits[r] \in 0 .. MaxEdit[r]
  /\ loads \in 0 .. MaxLoad /\ loaded \subseteq Client /\ apart \subseteq Client
  /\ barred \in BOOLEAN /\ {session[r] : r \in Client} \subseteq used

(* In every document each node is below the root, whatever moves and        *)
(* deletions met: no cycle, no parent missing.                              *)
TreeSound ==
  \A s \in {store[r] : r \in Client} \cup {snap[r].file : r \in Client} \cup {room} :
    \A n \in DOMAIN s :
      /\ Root \in Above(s, n)
      /\ n # Root => n \notin Above(s, s[n].parent)

Quiet == \A r \in Client :
           outbox[r] = <<>> /\ inbox[r] = <<>> /\ waits[r] = "nothing"

(* When everything has arrived, all who hold the times of the file have the *)
(* same nodes and the same properties as the room, in whatever order the    *)
(* operations met.                                                          *)
RegistersAgree ==
  Quiet => \A r \in Client \ loaded :
             /\ DOMAIN store[r] = DOMAIN room
             /\ \A n \in DOMAIN room : /\ store[r][n].val = room[n].val
                                       /\ store[r][n].time = room[n].time

(* ...and the same tree, unless a move was rejected because of a cycle:     *)
(* which of two such moves is rejected depends on the order of arrival.     *)
PlacesAgree ==
  Quiet /\ ~barred =>
    \A r \in Client \ loaded :
      \A n \in DOMAIN room : store[r][n].parent = room[n].parent

(* An edit of a property by someone who sees all edits of it, the others'   *)
(* and its own, counts in the room, also from one who was told no times.    *)
(* (Own work that went out before a snapshot came is not in the new         *)
(* document: the next edit of that property can be older than it.)          *)
EditsCount ==
  \A r \in Client : \A i \in 1 .. Len(outbox[r]) :
    LET op    == outbox[r][i]
        after == After(room, outbox[r])[i]
    IN op.kind = "set" /\ op.alone
         => op.id \in DOMAIN after /\ after[op.id].val[op.key] = op.to

(* As long as nothing of others arrived, a file is what its undo history    *)
(* says: each register holds what the last step on it left, or what the     *)
(* file began with; undoing everything gives the first file back.           *)
Shown(s, id, key) == IF id \in DOMAIN s THEN Now(s, id, key)
                     ELSE IF key = "deleted" THEN 1 ELSE 0
HistoryTellsTheFile ==
  \A r \in Client \ apart :
    \A n \in DOMAIN store[r], key \in Key \cup {"place"} :
      LET steps == {i \in 1 .. Len(undo[r]) :
                      undo[r][i].id = n /\ undo[r][i].key = key}
      IN IF steps # {} THEN Now(store[r], n, key) = undo[r][Max(steps)].after
         ELSE n \in DOMAIN File \/ key = "deleted"
                => Now(store[r], n, key) = Shown(File, n, key)

(* "operations applied twice or in a different order still give the same    *)
(* file everywhere" (packages/server/src/live.ts:6-7): when everything has  *)
(* arrived, everybody sees the file the room will save.                     *)
Visible(s) == [n \in {n \in DOMAIN s : Alive(s, n)} |-> <<s[n].parent, s[n].val>>]
SameFileEverywhere == Quiet => \A r \in Client : Visible(store[r]) = Visible(room)

=============================================================================
