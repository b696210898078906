----------------------------- MODULE LiveHub -----------------------------
(***************************************************************************)
(* Opening and forgetting the live rooms of one file: class LiveHub and    *)
(* the connections of class Room (packages/server/src/live.ts).            *)
(*                                                                         *)
(* A connection passes the access check, asks for the room of the file     *)
(* (opened from disk if the map has none), is accepted, says hello and may *)
(* change the document.  When a connection closes and nobody who said      *)
(* hello is left, release saves the room, keeps a version and forgets the  *)
(* room.  Every await in between lets the others run: several releases of  *)
(* one room, newcomers and saves overlap.                                  *)
(*                                                                         *)
(* A document is the set of changes in it; RoomSave has the saving in      *)
(* detail, here a save is a document in the chain written in one step.     *)
(* All connections come from one address.  Deleting the file is left out.  *)
(***************************************************************************)
EXTENDS Integers, Sequences, FiniteSets

CONSTANTS
  Conn,       \* connections, each used once
  PerIp,      \* CONNECTIONS_PER_IP
  MaxRoom,    \* rooms opened at most (bound)
  MaxWork,    \* changes made at most (bound)
  MaxFail     \* openings and saves that fail (bound)

ASSUME HubAssumption ==
  /\ IsFiniteSet(Conn)
  /\ PerIp \in Nat /\ MaxRoom \in Nat /\ MaxWork \in Nat /\ MaxFail \in Nat

Room == 1 .. MaxRoom

VARIABLES
  stage,      \* where each connection is
  at,         \* the room it has got, or 0
  perIp,      \* connections counted for the address
  map,        \* the room of the file in the map of rooms, or 0
  opened,     \* "no", "record", "document", "ready" or "null", for each room
  doc,        \* the document of each room
  dirty,      \* changed since its last save was called
  chain,      \* the documents being saved, of each room
  release,    \* the release begun when a connection closed: "no", "saving", "text"
  wait,       \* saves that release still waits for
  disk,       \* the document on disk
  work,       \* how many changes were made; the n-th is n
  fails,      \* openings and saves that failed
  stray       \* a room went on being used or saved outside the map (observation)

connVars == <<stage, at, perIp>>
roomVars == <<doc, dirty, chain>>
relVars  == <<release, wait>>
vars == <<connVars, map, opened, roomVars, relVars, disk, work, fails, stray>>

None == 0

(* room.peers: the connections that said hello and did not close.           *)
Peers(r) == {k \in Conn : stage[k] = "peer" /\ at[k] = r}
Saved(r) == ~dirty[r] /\ chain[r] = <<>>

Init ==
  /\ stage = [k \in Conn |-> "new"] /\ at = [k \in Conn |-> None] /\ perIp = 0
  /\ map = None /\ opened = [r \in Room |-> "no"]
  /\ doc = [r \in Room |-> {}] /\ dirty = [r \in Room |-> FALSE]
  /\ chain = [r \in Room |-> <<>>]
  /\ release = [k \in Conn |-> "no"] /\ wait = [k \in Conn |-> 0]
  /\ disk = {} /\ work = 0 /\ fails = 0 /\ stray = FALSE

-----------------------------------------------------------------------------
(* A connection.                                                            *)

(* handleUpgrade: the address has room for one more; access is looked up.   *)
Arrive(k) ==
  /\ stage[k] = "new" /\ perIp < PerIp
  /\ stage' = [stage EXCEPT ![k] = "access"]
  /\ UNCHANGED <<at, perIp, map, opened, roomVars, relVars, disk, work, fails, stray>>

(* Slip: the room is put in the map only once it is open.                   *)
AskOwnRoom(k) ==
  /\ stage[k] = "access"
  /\ \E r \in Room :
       /\ opened[r] = "no" /\ \A s \in Room : s < r => opened[s] # "no"
       /\ opened' = [opened EXCEPT ![r] = "record"]
       /\ at' = [at EXCEPT ![k] = r]
       /\ map' = r
  /\ stage' = [stage EXCEPT ![k] = "room"]
  /\ UNCHANGED <<perIp, roomVars, relVars, disk, work, fails, stray>>

(* Access granted: the room in the map, open or being opened, or a new one, *)
(* in the map from the start.                                               *)
AskRoom(k) ==
  /\ stage[k] = "access"
  /\ \/ /\ map # None
        /\ at' = [at EXCEPT ![k] = map]
        /\ UNCHANGED <<map, opened>>
     \/ /\ map = None
        /\ \E r \in Room :
             /\ opened[r] = "no" /\ \A s \in Room : s < r => opened[s] # "no"
             /\ opened' = [opened EXCEPT ![r] = "record"]
             /\ at' = [at EXCEPT ![k] = r]
             /\ map' = r
  /\ stage' = [stage EXCEPT ![k] = "room"]
  /\ UNCHANGED <<perIp, roomVars, relVars, disk, work, fails, stray>>

(* The room has been opened, or could not be.                               *)
GetRoom(k) ==
  /\ stage[k] = "room" /\ opened[at[k]] \in {"ready", "null"}
  /\ stage' = [stage EXCEPT ![k] = IF opened[at[k]] = "ready" THEN "insider" ELSE "gone"]
  /\ UNCHANGED <<at, perIp, map, opened, roomVars, relVars, disk, work, fails, stray>>

(* The request is accepted: the connection counts and may say hello.        *)
Accept(k) ==
  /\ stage[k] = "insider"
  /\ stage' = [stage EXCEPT ![k] = "joined"]
  /\ perIp' = perIp + 1
  /\ UNCHANGED <<at, map, opened, roomVars, relVars, disk, work, fails, stray>>

(* Slip: whoever is refused is taken off the count.                         *)
RefuseCounted(k) ==
  /\ stage[k] = "insider"
  /\ stage' = [stage EXCEPT ![k] = "gone"]
  /\ perIp' = perIp - 1
  /\ UNCHANGED <<at, map, opened, roomVars, relVars, disk, work, fails, stray>>

(* It was not a WebSocket request after all.                                *)
Refuse(k) ==
  /\ stage[k] = "insider"
  /\ stage' = [stage EXCEPT ![k] = "gone"]
  /\ UNCHANGED <<at, perIp, map, opened, roomVars, relVars, disk, work, fails, stray>>

(* hello: now one of the people in the room, even of one already forgotten. *)
Hello(k) ==
  /\ stage[k] = "joined"
  /\ stage' = [stage EXCEPT ![k] = "peer"]
  /\ stray' = (stray \/ map # at[k])
  /\ UNCHANGED <<at, perIp, map, opened, roomVars, relVars, disk, work, fails>>

(* A change reaches the room and is confirmed.                              *)
Edit(k) ==
  /\ stage[k] = "peer" /\ work < MaxWork
  /\ work' = work + 1
  /\ doc' = [doc EXCEPT ![at[k]] = @ \cup {work'}]
  /\ dirty' = [dirty EXCEPT ![at[k]] = TRUE]
  /\ UNCHANGED <<connVars, map, opened, chain, relVars, disk, fails, stray>>

(* Slip: nothing joins the chain while a save is under way.                 *)
CallSaveUnlessBusy(r, d) ==
  /\ dirty' = [dirty EXCEPT ![r] = FALSE]
  /\ chain' = [chain EXCEPT ![r] = IF dirty[r] /\ @ = <<>> THEN <<d>> ELSE @]

(* Room.save: the document d of the room, if it changed, joins the chain.   *)
CallSave(r, d) ==
  /\ dirty' = [dirty EXCEPT ![r] = FALSE]
  /\ chain' = [chain EXCEPT ![r] = IF dirty[r] THEN Append(@, d) ELSE @]

(* A connection closes, or is dropped (access taken away, signed out); with *)
(* nobody left, whoever was last, release begins.                           *)
Close(k) ==
  /\ stage[k] \in {"joined", "peer"}
  /\ stage' = [stage EXCEPT ![k] = "gone"]
  /\ perIp' = perIp - 1
  /\ IF Peers(at[k]) \ {k} = {}
       THEN /\ CallSave(at[k], doc[at[k]])
            /\ release' = [release EXCEPT ![k] = "saving"]
            /\ wait' = [wait EXCEPT ![k] = Len(chain'[at[k]])]
       ELSE UNCHANGED <<dirty, chain, relVars>>
  /\ UNCHANGED <<at, map, opened, doc, disk, work, fails, stray>>

-----------------------------------------------------------------------------
(* LiveHub.                                                                 *)

(* Opening a room: the record of the file, its document, then whatever is   *)
(* left of pictures kept the old way.                                       *)
ReadDocument(r) ==
  /\ opened[r] = "record"
  /\ opened' = [opened EXCEPT ![r] = "document"]
  /\ doc' = [doc EXCEPT ![r] = disk]
  /\ UNCHANGED <<connVars, map, dirty, chain, relVars, disk, work, fails, stray>>

RoomReady(r) ==
  /\ opened[r] = "document"
  /\ opened' = [opened EXCEPT ![r] = "ready"]
  /\ UNCHANGED <<connVars, map, roomVars, relVars, disk, work, fails, stray>>

(* The room could not be opened: the next to come tries again.              *)
OpenFails(r) ==
  /\ opened[r] \in {"record", "document"} /\ fails < MaxFail
  /\ fails' = fails + 1
  /\ opened' = [opened EXCEPT ![r] = "null"]
  /\ map' = IF map = r THEN None ELSE map
  /\ UNCHANGED <<connVars, roomVars, relVars, disk, work, stray>>

(* The save timer, or flush.                                                *)
Save(r) ==
  /\ dirty[r]
  /\ CallSave(r, doc[r])
  /\ UNCHANGED <<connVars, map, opened, doc, relVars, disk, work, fails, stray>>

(* rename: with people in the file, the new name is a change like any other, *)
(* saved at once.                                                           *)
Rename ==
  /\ map # None /\ opened[map] = "ready" /\ Peers(map) # {} /\ work < MaxWork
  /\ work' = work + 1
  /\ doc' = [doc EXCEPT ![map] = @ \cup {work'}]
  /\ dirty' = [dirty EXCEPT ![map] = FALSE]
  /\ chain' = [chain EXCEPT ![map] = Append(@, doc'[map])]
  /\ UNCHANGED <<connVars, opened, map, relVars, disk, fails, stray>>

(* The first save of the chain of r is over for those who wait for it.      *)
Waited(r) ==
  [k \in Conn |-> IF at[k] = r /\ wait[k] > 0 THEN wait[k] - 1 ELSE wait[k]]

Write(r) ==
  /\ chain[r] # <<>>
  /\ disk' = Head(chain[r])
  /\ chain' = [chain EXCEPT ![r] = Tail(@)]
  /\ wait' = Waited(r)
  /\ UNCHANGED <<connVars, map, opened, doc, dirty, release, work, fails, stray>>

SaveFails(r) ==
  /\ chain[r] # <<>> /\ fails < MaxFail
  /\ fails' = fails + 1
  /\ dirty' = [dirty EXCEPT ![r] = TRUE]
  /\ chain' = [chain EXCEPT ![r] = Tail(@)]
  /\ wait' = Waited(r)
  /\ UNCHANGED <<connVars, map, opened, doc, release, disk, work, stray>>

(* release: its save is over (or was not needed); the text of a version...  *)
ReleaseSaved(k) ==
  /\ release[k] = "saving" /\ wait[k] = 0
  /\ release' = [release EXCEPT ![k] = "text"]
  /\ UNCHANGED <<connVars, map, opened, roomVars, wait, disk, work, fails, stray>>

(* Slip: the room is forgotten whoever came in meanwhile.                   *)
ForgetAnyway(k) ==
  /\ release[k] = "text"
  /\ release' = [release EXCEPT ![k] = "no"]
  /\ map' = IF map = at[k] THEN None ELSE map
  /\ UNCHANGED <<connVars, opened, roomVars, wait, disk, work, fails, stray>>

(* Slip: the last person left, and nobody forgets the room.                 *)
ForgetNever(k) ==
  /\ release[k] = "text"
  /\ release' = [release EXCEPT ![k] = "no"]
  /\ UNCHANGED <<connVars, map, opened, roomVars, wait, disk, work, fails, stray>>

(* ...is kept, and if nobody is in the room now it is forgotten.            *)
Forget(k) ==
  /\ release[k] = "text"
  /\ release' = [release EXCEPT ![k] = "no"]
  /\ IF map = at[k] /\ Peers(at[k]) = {}
       THEN /\ map' = None
            /\ stray' = (stray \/ ~Saved(at[k]))
       ELSE UNCHANGED <<map, stray>>
  /\ UNCHANGED <<connVars, opened, roomVars, wait, disk, work, fails>>

Next ==
  \/ \E k \in Conn :
       \/ Arrive(k) \/ AskRoom(k) \/ GetRoom(k) \/ Accept(k) \/ Refuse(k)
       \/ Hello(k) \/ Edit(k) \/ Close(k) \/ ReleaseSaved(k) \/ Forget(k)
  \/ \E r \in Room :
       \/ ReadDocument(r) \/ RoomReady(r) \/ OpenFails(r)
       \/ Save(r) \/ Write(r) \/ SaveFails(r)
  \/ Rename

Spec == Init /\ [][Next]_vars

(* Whatever the server has begun goes on: timers fire, reads and writes end. *)
(* Nothing makes people come, say hello, edit or leave.                     *)
Fairness ==
  /\ \A k \in Conn : WF_vars(ReleaseSaved(k)) /\ WF_vars(Forget(k))
  /\ \A r \in Room : WF_vars(Save(r)) /\ WF_vars(Write(r))

FairSpec == Spec /\ Fairness

-----------------------------------------------------------------------------
(* Properties.                                                              *)

Open == {k \in Conn : stage[k] \in {"joined", "peer"}}

ConnTypes ==
  /\ stage \in [Conn -> {"new", "access", "room", "insider", "joined", "peer", "gone"}]
  /\ at \in [Conn -> Room \cup {None}]
  /\ perIp = Cardinality(Open)

MapTypes ==
  /\ map \in Room \cup {None}
  /\ opened \in [Room -> {"no", "record", "document", "ready", "null"}]

RoomTypes ==
  /\ doc \in [Room -> SUBSET (1 .. MaxWork)] /\ dirty \in [Room -> BOOLEAN]
  /\ chain \in [Room -> Seq(SUBSET (1 .. MaxWork))]

RelTypes ==
  release \in [Conn -> {"no", "saving", "text"}] /\ wait \in [Conn -> Nat]

RestTypes ==
  /\ disk \in SUBSET (1 .. MaxWork) /\ work \in 0 .. MaxWork
  /\ fails \in 0 .. MaxFail /\ stray \in BOOLEAN

(* Every variable has values of its kind; the address count is the number   *)
(* of connections that are open.                                            *)
TypeOK == ConnTypes /\ MapTypes /\ RoomTypes /\ RelTypes /\ RestTypes

(* "one room per open file" (live.ts:1): everyone in the file is in the one *)
(* room the map has, unless somebody came into a forgotten room.            *)
Together == ~stray => \A k \in Conn : stage[k] = "peer" => at[k] = map

(* Whoever opens the file, now or next, finds every change ever confirmed,  *)
(* unless a room went on outside the map.                                   *)
NewcomersGetEverything ==
  ~stray =>
    1 .. work \subseteq
      IF map # None /\ opened[map] \in {"document", "ready"} THEN doc[map] ELSE disk

(* A change that is not on disk is still going to be saved.                 *)
WorkWillBeSaved ==
  ~stray /\ map # None =>
    \/ 1 .. work \subseteq disk
    \/ dirty[map]
    \/ chain[map] # <<>> /\ chain[map][Len(chain[map])] = 1 .. work

(* A room with people in it is never taken out of the map, though release   *)
(* waits several times between seeing it empty and forgetting it.           *)
OccupiedIsKept ==
  [][map # None /\ Peers(map) # {} => map' = map]_vars

(* When the last person has left, the room is forgotten or someone comes.   *)
LastOneOutForgets ==
  \A k \in Conn : \A r \in Room :
    release[k] # "no" /\ at[k] = r ~> map # r \/ Peers(r) # {}

(* "one room per open file" (live.ts:1).                                    *)
OneRoomPerFile ==
  \A k, l \in Conn : stage[k] = "peer" /\ stage[l] = "peer" => at[k] = at[l]

(* "The last person left: save and forget the room" (live.ts:553): a room   *)
(* is saved when it is forgotten, if no write failed.                       *)
ForgottenIsSaved ==
  [][\A r \in Room : map = r /\ map' # r /\ fails = 0 => Saved(r)]_vars
=============================================================================
