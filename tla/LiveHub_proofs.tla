------------------------- MODULE LiveHub_proofs -------------------------
(***************************************************************************)
(* Proofs about LiveHub, for any number of connections, rooms, changes and *)
(* failures: the variables keep their types, the people in a file are in   *)
(* the one room of the map, an occupied room is never forgotten, what was  *)
(* confirmed is on disk or going to be, and whoever comes next finds it.   *)
(*                                                                         *)
(* The argument is about the rooms that are NOT in the map: as long as     *)
(* nothing stray happened nobody is in them and none has a save to come,   *)
(* so only the room of the map ever writes the file.                       *)
(***************************************************************************)
EXTENDS LiveHub, FiniteSetTheorems, TLAPS

USE HubAssumption DEF HubAssumption, None, Room

(* Whoever is past the opening of a room has a room, and it is open.        *)
Seated ==
  \A k \in Conn :
    /\ stage[k] \in {"room", "insider", "joined", "peer"} => at[k] \in Room
    /\ stage[k] \in {"insider", "joined", "peer"} => opened[at[k]] = "ready"
    /\ release[k] # "no" => at[k] \in Room

(* The map holds only rooms open or being opened.                           *)
MapOpen == map # None => opened[map] \in {"record", "document", "ready"}

(* No document, in memory, in a save or on disk, holds changes not made yet. *)
Known ==
  /\ disk \subseteq 1 .. work
  /\ \A r \in Room : doc[r] \subseteq 1 .. work
  /\ \A r \in Room : \A i \in 1 .. Len(chain[r]) : chain[r][i] \subseteq 1 .. work

(* Only the room in the map may have anything to save, and that only once   *)
(* it is open.                                                              *)
OnlyMapSaves ==
  /\ \A r \in Room : r # map => Saved(r)
  /\ map # None /\ opened[map] # "ready" => Saved(map)

(* Where every change made so far is to be found: in the room of the map    *)
(* once its document is read; in its last save unless it changed since; on  *)
(* disk when there is nothing to save.                                      *)
AllThere ==
  /\ map # None /\ opened[map] \in {"document", "ready"} => 1 .. work \subseteq doc[map]
  /\ map # None /\ ~dirty[map] /\ chain[map] # <<>> =>
       1 .. work \subseteq chain[map][Len(chain[map])]
  /\ map = None \/ (map # None /\ Saved(map)) => 1 .. work \subseteq disk

Accounted == ~stray => Together /\ OnlyMapSaves /\ AllThere

IInv == TypeOK /\ Seated /\ MapOpen /\ Known /\ Accounted

-----------------------------------------------------------------------------
(* What a step leaves alone keeps its type.                                 *)
LEMMA TypesKept ==
  /\ ConnTypes /\ UNCHANGED connVars => ConnTypes'
  /\ MapTypes /\ UNCHANGED <<map, opened>> => MapTypes'
  /\ RoomTypes /\ UNCHANGED roomVars => RoomTypes'
  /\ RelTypes /\ UNCHANGED relVars => RelTypes'
  /\ RestTypes /\ UNCHANGED <<disk, work, fails, stray>> => RestTypes'
  <1>1. ConnTypes /\ UNCHANGED connVars => ConnTypes'
    BY DEF ConnTypes, connVars, Open
  <1>2. MapTypes /\ UNCHANGED <<map, opened>> => MapTypes'
    BY DEF MapTypes
  <1>3. RoomTypes /\ UNCHANGED roomVars => RoomTypes'
    BY DEF RoomTypes, roomVars
  <1>4. RelTypes /\ UNCHANGED relVars => RelTypes'
    BY DEF RelTypes, relVars
  <1>5. RestTypes /\ UNCHANGED <<disk, work, fails, stray>> => RestTypes'
    BY DEF RestTypes
  <1> QED BY <1>1, <1>2, <1>3, <1>4, <1>5

(* A connection that moves on without being opened or closed, is opened, or *)
(* closes.                                                                  *)
LEMMA StageKept ==
  ASSUME ConnTypes, NEW k \in Conn,
         NEW s \in {"new", "access", "room", "insider", "joined", "peer", "gone"},
         stage' = [stage EXCEPT ![k] = s],
         stage[k] \in {"joined", "peer"} <=> s \in {"joined", "peer"},
         perIp' = perIp, at' \in [Conn -> Room \cup {None}]
  PROVE  ConnTypes'
  <1>1. Open' = Open
    BY DEF Open, ConnTypes
  <1> QED BY <1>1 DEF ConnTypes

LEMMA StageOpens ==
  ASSUME ConnTypes, NEW k \in Conn, stage[k] \notin {"joined", "peer"},
         stage' = [stage EXCEPT ![k] = "joined"],
         perIp' = perIp + 1, at' = at
  PROVE  ConnTypes'
  <1>1. Open' = Open \cup {k} /\ k \notin Open
    BY DEF Open, ConnTypes
  <1>2. IsFiniteSet(Open)
    <2>1. Open \subseteq Conn
      BY DEF Open
    <2> QED BY <2>1, FS_Subset
  <1>3. Cardinality(Open') = Cardinality(Open) + 1
    BY <1>1, <1>2, FS_AddElement
  <1>4. stage' \in [Conn -> {"new", "access", "room", "insider", "joined", "peer", "gone"}]
    BY DEF ConnTypes
  <1> QED BY <1>3, <1>4 DEF ConnTypes

LEMMA StageCloses ==
  ASSUME ConnTypes, NEW k \in Conn, stage[k] \in {"joined", "peer"},
         stage' = [stage EXCEPT ![k] = "gone"],
         perIp' = perIp - 1, at' = at
  PROVE  ConnTypes'
  <1>1. Open' = Open \ {k} /\ k \in Open
    BY DEF Open, ConnTypes
  <1>2. IsFiniteSet(Open)
    <2>1. Open \subseteq Conn
      BY DEF Open
    <2> QED BY <2>1, FS_Subset
  <1>3. Cardinality(Open') = Cardinality(Open) - 1
    BY <1>1, <1>2, FS_RemoveElement
  <1>4. stage' \in [Conn -> {"new", "access", "room", "insider", "joined", "peer", "gone"}]
    BY DEF ConnTypes
  <1> QED BY <1>3, <1>4 DEF ConnTypes

LEMMA InitInv == Init => IInv
  <1> SUFFICES ASSUME Init PROVE IInv
    OBVIOUS
  <1> USE DEF Init
  <1>1. ConnTypes
    <2>1. Open = {}
      BY DEF Open
    <2> QED BY <2>1, FS_EmptySet DEF ConnTypes
  <1>2. MapTypes
    BY DEF MapTypes
  <1>3. RelTypes
    BY DEF RelTypes
  <1>4. RestTypes
    <2>1. work \in 0 .. MaxWork /\ fails \in 0 .. MaxFail
      OBVIOUS
    <2>2. disk \in SUBSET (1 .. MaxWork) /\ stray \in BOOLEAN
      OBVIOUS
    <2> QED BY <2>1, <2>2 DEF RestTypes
  <1>5. RoomTypes
    <2>1. <<>> \in Seq(SUBSET (1 .. MaxWork))
      OBVIOUS
    <2> QED BY <2>1 DEF RoomTypes
  <1>6. Seated /\ MapOpen /\ Known
    BY DEF Seated, MapOpen, Known
  <1>7. Accounted
    BY DEF Accounted, Together, OnlyMapSaves, AllThere, Saved
  <1> QED BY <1>1, <1>2, <1>3, <1>4, <1>5, <1>6, <1>7 DEF IInv, TypeOK

-----------------------------------------------------------------------------
(* The steps of a connection that touch neither the rooms nor the map.      *)
LEMMA PassInv ==
  ASSUME IInv, NEW k \in Conn, Arrive(k) \/ GetRoom(k) \/ Accept(k) \/ Refuse(k)
  PROVE  IInv'
  <1> USE DEF IInv, TypeOK, Arrive, GetRoom, Accept, Refuse
  <1>1. ConnTypes'
    <2>1. CASE Arrive(k)
      BY <2>1, StageKept DEF ConnTypes
    <2>2. CASE GetRoom(k)
      <3> DEFINE s == IF opened[at[k]] = "ready" THEN "insider" ELSE "gone"
      <3>1. s \in {"insider", "gone"} /\ stage' = [stage EXCEPT ![k] = s]
        BY <2>2
      <3>2. at' \in [Conn -> Room \cup {None}] /\ perIp' = perIp /\ stage[k] = "room"
        BY <2>2 DEF ConnTypes
      <3> HIDE DEF s
      <3> QED BY <3>1, <3>2, StageKept
    <2>3. CASE Accept(k)
      BY <2>3, StageOpens
    <2>4. CASE Refuse(k)
      BY <2>4, StageKept DEF ConnTypes
    <2> QED BY <2>1, <2>2, <2>3, <2>4
  <1>2. MapTypes' /\ RoomTypes' /\ RelTypes' /\ RestTypes'
    BY TypesKept
  <1>3. Seated'
    BY DEF Seated, ConnTypes, relVars
  <1>4. MapOpen' /\ Known'
    BY DEF MapOpen, Known, roomVars
  <1>5. Accounted'
    BY DEF Accounted, Together, OnlyMapSaves, AllThere, Saved, roomVars, ConnTypes
  <1> QED BY <1>1, <1>2, <1>3, <1>4, <1>5

(* Hello into a room outside the map is stray; nobody else is misplaced.    *)
LEMMA HelloInv == ASSUME IInv, NEW k \in Conn, Hello(k) PROVE IInv'
  <1> USE DEF IInv, TypeOK, Hello
  <1>1. ConnTypes'
    BY StageKept DEF ConnTypes
  <1>2. MapTypes' /\ RoomTypes' /\ RelTypes'
    BY TypesKept
  <1>3. RestTypes'
    BY DEF RestTypes
  <1>4. Seated'
    BY DEF Seated, ConnTypes, relVars
  <1>5. MapOpen' /\ Known'
    BY DEF MapOpen, Known, roomVars
  <1>6. Accounted'
    BY DEF Accounted, Together, OnlyMapSaves, AllThere, Saved, roomVars, ConnTypes,
       RestTypes
  <1> QED BY <1>1, <1>2, <1>3, <1>4, <1>5, <1>6

(* A new room is put in the map only when it has none: nobody is in it, and *)
(* the disk has everything it will be opened from.                          *)
LEMMA AskRoomInv == ASSUME IInv, NEW k \in Conn, AskRoom(k) PROVE IInv'
  <1> USE DEF IInv, TypeOK, AskRoom
  <1>1. CASE map # None /\ at' = [at EXCEPT ![k] = map] /\ UNCHANGED <<map, opened>>
    <2>1. ConnTypes'
      <3>1. at' \in [Conn -> Room \cup {None}]
        BY <1>1 DEF ConnTypes, MapTypes
      <3> QED BY <3>1, StageKept
    <2>2. MapTypes' /\ RoomTypes' /\ RelTypes' /\ RestTypes'
      BY <1>1, TypesKept
    <2>3. Seated' /\ MapOpen' /\ Known'
      BY <1>1 DEF Seated, MapOpen, Known, MapTypes, ConnTypes, relVars, roomVars
    <2>4. Accounted'
      BY <1>1 DEF Accounted, Together, OnlyMapSaves, AllThere, Saved, roomVars,
         ConnTypes
    <2> QED BY <2>1, <2>2, <2>3, <2>4
  <1>2. ASSUME map = None, NEW r \in Room, opened[r] = "no",
               opened' = [opened EXCEPT ![r] = "record"],
               at' = [at EXCEPT ![k] = r], map' = r
        PROVE  IInv'
    <2>1. ConnTypes'
      <3>1. at' \in [Conn -> Room \cup {None}]
        BY <1>2 DEF ConnTypes
      <3> QED BY <3>1, StageKept
    <2>2. MapTypes'
      BY <1>2 DEF MapTypes
    <2>3. RoomTypes' /\ RelTypes' /\ RestTypes'
      BY TypesKept
    <2>4. Seated' /\ MapOpen'
      BY <1>2 DEF Seated, MapOpen, MapTypes, ConnTypes, relVars
    <2>5. Known'
      BY DEF Known, roomVars
    <2>6. Accounted'
      <3> SUFFICES ASSUME ~stray PROVE Together' /\ OnlyMapSaves' /\ AllThere'
        BY DEF Accounted
      <3>1. Together'
        BY <1>2 DEF Accounted, Together, Seated, ConnTypes
      <3>2. OnlyMapSaves' /\ AllThere'
        BY <1>2 DEF Accounted, OnlyMapSaves, AllThere, Saved, roomVars, MapTypes
      <3> QED BY <3>1, <3>2
    <2> QED BY <2>1, <2>2, <2>3, <2>4, <2>5, <2>6
  <1> QED BY <1>1, <1>2
-----------------------------------------------------------------------------
(* Opening a room.  What it reads from disk is everything, for nothing is   *)
(* to be saved before it is open.                                           *)
LEMMA OpenInv ==
  ASSUME IInv, NEW r \in Room, ReadDocument(r) \/ RoomReady(r) \/ OpenFails(r)
  PROVE  IInv'
  <1> USE DEF IInv, TypeOK, ReadDocument, RoomReady, OpenFails
  <1>1. ConnTypes' /\ RelTypes'
    BY TypesKept
  <1>2. MapTypes'
    BY DEF MapTypes
  <1>3. RoomTypes'
    BY DEF RoomTypes, RestTypes, roomVars
  <1>4. RestTypes'
    <2>1. fails' \in 0 .. MaxFail
      BY DEF RestTypes
    <2>2. UNCHANGED <<disk, work, stray>>
      OBVIOUS
    <2> QED BY <2>1, <2>2 DEF RestTypes
  <1>5. Seated' /\ MapOpen'
    BY DEF Seated, MapOpen, MapTypes, connVars, relVars
  <1>6. Known'
    BY DEF Known, RoomTypes, roomVars
  <1>7. Accounted'
    <2> SUFFICES ASSUME ~stray PROVE Together' /\ OnlyMapSaves' /\ AllThere'
      BY DEF Accounted
    <2>1. Together'
      BY DEF Accounted, Together, Seated, connVars
    <2>2. OnlyMapSaves' /\ AllThere'
      <3>1. CASE ReadDocument(r)
        BY <3>1 DEF Accounted, OnlyMapSaves, AllThere, Saved, roomVars, RoomTypes,
           MapTypes, MapOpen
      <3>2. CASE RoomReady(r)
        BY <3>2 DEF Accounted, OnlyMapSaves, AllThere, Saved, roomVars, RoomTypes,
           MapTypes, MapOpen
      <3>3. CASE OpenFails(r)
        BY <3>3 DEF Accounted, OnlyMapSaves, AllThere, Saved, roomVars, RoomTypes,
           MapTypes, MapOpen
      <3> QED BY <3>1, <3>2, <3>3
    <2> QED BY <2>1, <2>2
  <1> QED BY <1>1, <1>2, <1>3, <1>4, <1>5, <1>6, <1>7

-----------------------------------------------------------------------------
(* A change: of someone in the room, so of the one in the map.              *)
LEMMA EditInv == ASSUME IInv, NEW k \in Conn, Edit(k) PROVE IInv'
  <1> USE DEF IInv, TypeOK, Edit
  <1>1. ConnTypes' /\ MapTypes' /\ RelTypes'
    BY TypesKept
  <1>2. at[k] \in Room /\ opened[at[k]] = "ready"
    BY DEF Seated
  <1>3. work' \in 1 .. MaxWork /\ 1 .. work' = (1 .. work) \cup {work'}
    BY DEF RestTypes
  <1>4. RoomTypes' /\ RestTypes'
    BY <1>2, <1>3 DEF RoomTypes, RestTypes
  <1>5. Seated' /\ MapOpen'
    BY DEF Seated, MapOpen, connVars, relVars
  <1>6. Known'
    BY <1>2, <1>3 DEF Known, RoomTypes
  <1>7. Accounted'
    <2> SUFFICES ASSUME ~stray PROVE Together' /\ OnlyMapSaves' /\ AllThere'
      BY DEF Accounted
    <2>1. at[k] = map /\ Together'
      BY DEF Accounted, Together, connVars
    <2>2. OnlyMapSaves'
      BY <1>2, <2>1 DEF Accounted, OnlyMapSaves, Saved, RoomTypes
    <2>3. AllThere'
      <3>1. dirty'[map] /\ doc'[map] = doc[map] \cup {work'}
        BY <1>2, <2>1 DEF RoomTypes
      <3>2. 1 .. work \subseteq doc[map]
        BY <1>2, <2>1 DEF Accounted, AllThere
      <3> QED BY <1>2, <1>3, <2>1, <3>1, <3>2 DEF AllThere, Saved
    <2> QED BY <2>1, <2>2, <2>3
  <1> QED BY <1>1, <1>4, <1>5, <1>6, <1>7

(* The document d joins the chain of r, or there was nothing to save.       *)
LEMMA CallSaveTypes ==
  ASSUME RoomTypes, NEW r \in Room, CallSave(r, doc[r]), doc' = doc
  PROVE  /\ RoomTypes'
         /\ \A s \in Room : dirty'[s] = (s # r /\ dirty[s])
         /\ \A s \in Room : s # r => chain'[s] = chain[s]
         /\ dirty[r] => chain'[r] = Append(chain[r], doc[r])
         /\ ~dirty[r] => chain'[r] = chain[r]
  <1> USE DEF CallSave, RoomTypes
  <1>1. /\ \A s \in Room : dirty'[s] = (s # r /\ dirty[s])
        /\ \A s \in Room : s # r => chain'[s] = chain[s]
    OBVIOUS
  <1>2. dirty[r] => chain'[r] = Append(chain[r], doc[r])
    OBVIOUS
  <1>3. ~dirty[r] => chain'[r] = chain[r]
    OBVIOUS
  <1>4. RoomTypes'
    <2>1. Append(chain[r], doc[r]) \in Seq(SUBSET (1 .. MaxWork))
      OBVIOUS
    <2>2. dirty' \in [Room -> BOOLEAN]
      OBVIOUS
    <2>3. chain' \in [Room -> Seq(SUBSET (1 .. MaxWork))]
      BY <2>1
    <2> QED BY <2>2, <2>3
  <1> QED BY <1>1, <1>2, <1>3, <1>4
(* Calling a save keeps everything where it is to be found.                 *)
LEMMA SaveCalled ==
  ASSUME IInv, NEW r \in Room, CallSave(r, doc[r]),
         UNCHANGED <<at, map, opened, doc, disk, work, stray>>,
         \A k \in Conn : stage'[k] = "peer" => stage[k] = "peer"
  PROVE  RoomTypes' /\ Known' /\ Accounted'
  <1> USE DEF IInv, TypeOK
  <1>1. /\ RoomTypes'
        /\ \A s \in Room : dirty'[s] = (s # r /\ dirty[s])
        /\ \A s \in Room : s # r => chain'[s] = chain[s]
        /\ dirty[r] => chain'[r] = Append(chain[r], doc[r])
        /\ ~dirty[r] => chain'[r] = chain[r]
    BY CallSaveTypes
  <1>2. chain[r] \in Seq(SUBSET (1 .. MaxWork)) /\ doc[r] \in SUBSET (1 .. MaxWork)
    BY DEF RoomTypes
  <1>3. dirty[r] => /\ Len(chain'[r]) = Len(chain[r]) + 1
                    /\ chain'[r] # <<>>
                    /\ chain'[r][Len(chain'[r])] = doc[r]
                    /\ \A i \in 1 .. Len(chain[r]) : chain'[r][i] = chain[r][i]
    BY <1>1, <1>2
  <1>4. Known'
    <2>1. \A i \in 1 .. Len(chain'[r]) : chain'[r][i] \subseteq 1 .. work
      <3>1. CASE dirty[r]
        <4>1. Len(chain[r]) \in Nat /\ doc[r] \subseteq 1 .. work
          BY <1>2 DEF Known
        <4>2. \A i \in 1 .. Len(chain[r]) : chain'[r][i] \subseteq 1 .. work
          BY <1>3, <3>1 DEF Known
        <4>3. \A i \in 1 .. Len(chain'[r]) :
                i \in 1 .. Len(chain[r]) \/ i = Len(chain'[r])
          BY <1>3, <3>1, <4>1
        <4> QED BY <1>3, <3>1, <4>1, <4>2, <4>3
      <3>2. CASE ~dirty[r]
        BY <1>1, <3>2 DEF Known
      <3> QED BY <3>1, <3>2
    <2> QED BY <1>1, <2>1 DEF Known
  <1>5. Accounted'
    <2> SUFFICES ASSUME ~stray PROVE Together' /\ OnlyMapSaves' /\ AllThere'
      BY DEF Accounted
    <2>1. Together'
      BY DEF Accounted, Together
    <2>2. OnlyMapSaves'
      BY <1>1 DEF Accounted, OnlyMapSaves, Saved, MapTypes
    <2>3. CASE r = map /\ dirty[r]
      <3>1. opened[map] = "ready" /\ 1 .. work \subseteq doc[map]
        BY <2>3 DEF Accounted, OnlyMapSaves, AllThere, Saved, MapOpen
      <3>2. AllThere'
        BY <1>3, <2>3, <3>1 DEF AllThere, Saved
      <3> QED BY <2>1, <2>2, <3>2
    <2>4. CASE ~(r = map /\ dirty[r])
      <3>1. map \in Room => dirty'[map] = dirty[map] /\ chain'[map] = chain[map]
        BY <1>1, <2>4 DEF RoomTypes
      <3>2. AllThere'
        BY <3>1 DEF Accounted, AllThere, Saved, MapTypes
      <3> QED BY <2>1, <2>2, <3>2
    <2> QED BY <2>3, <2>4
  <1> QED BY <1>1, <1>4, <1>5

LEMMA SaveInv == ASSUME IInv, NEW r \in Room, Save(r) PROVE IInv'
  <1> USE DEF IInv, TypeOK, Save
  <1>1. ConnTypes' /\ MapTypes' /\ RelTypes' /\ RestTypes'
    BY TypesKept
  <1>2. RoomTypes' /\ Known' /\ Accounted'
    BY SaveCalled DEF connVars
  <1>3. Seated' /\ MapOpen'
    BY DEF Seated, MapOpen, connVars, relVars
  <1> QED BY <1>1, <1>2, <1>3

(* A connection closes: nobody takes a seat, and a save may be called.      *)
LEMMA CloseInv == ASSUME IInv, NEW k \in Conn, Close(k) PROVE IInv'
  <1> USE DEF IInv, TypeOK, Close
  <1>1. at[k] \in Room
    BY DEF Seated
  <1>2. ConnTypes'
    BY StageCloses
  <1>3. MapTypes' /\ RestTypes'
    BY TypesKept
  <1>4. \A l \in Conn : stage'[l] = "peer" => stage[l] = "peer"
    BY DEF ConnTypes
  <1>5. CASE UNCHANGED <<dirty, chain, relVars>>
    <2>1. RoomTypes' /\ RelTypes'
      BY <1>5, TypesKept DEF roomVars
    <2>2. Seated' /\ MapOpen' /\ Known'
      BY <1>5 DEF Seated, MapOpen, Known, ConnTypes, relVars
    <2>3. Accounted'
      BY <1>4, <1>5 DEF Accounted, Together, OnlyMapSaves, AllThere, Saved
    <2> QED BY <1>2, <1>3, <2>1, <2>2, <2>3
  <1>6. CASE /\ CallSave(at[k], doc[at[k]])
             /\ release' = [release EXCEPT ![k] = "saving"]
             /\ wait' = [wait EXCEPT ![k] = Len(chain'[at[k]])]
    <2>1. RoomTypes' /\ Known' /\ Accounted'
      BY <1>1, <1>4, <1>6, SaveCalled
    <2>2. RelTypes'
      <3>1. Len(chain'[at[k]]) \in Nat
        BY <1>1, <2>1 DEF RoomTypes
      <3> QED BY <1>6, <3>1 DEF RelTypes
    <2>3. Seated' /\ MapOpen'
      BY <1>1, <1>6 DEF Seated, MapOpen, ConnTypes, RelTypes
    <2> QED BY <1>2, <1>3, <2>1, <2>2, <2>3
  <1> QED BY <1>5, <1>6

(* The new name is a change of the room in the map, saved at once.          *)
LEMMA RenameInv == ASSUME IInv, Rename PROVE IInv'
  <1> USE DEF IInv, TypeOK, Rename
  <1>1. ConnTypes' /\ MapTypes' /\ RelTypes'
    BY TypesKept
  <1>2. map \in Room /\ work' \in 1 .. MaxWork /\ 1 .. work' = (1 .. work) \cup {work'}
    BY DEF MapTypes, RestTypes
  <1>3. /\ doc'[map] = doc[map] \cup {work'} /\ doc'[map] \in SUBSET (1 .. MaxWork)
        /\ \A r \in Room : r # map => doc'[r] = doc[r]
    BY <1>2 DEF RoomTypes
  <1>4. chain[map] \in Seq(SUBSET (1 .. MaxWork)) /\ chain'[map] = Append(chain[map], doc'[map])
    BY <1>2 DEF RoomTypes
  <1>5. /\ chain'[map] \in Seq(SUBSET (1 .. MaxWork))
        /\ Len(chain'[map]) = Len(chain[map]) + 1 /\ chain'[map] # <<>>
        /\ chain'[map][Len(chain'[map])] = doc'[map]
        /\ \A i \in 1 .. Len(chain[map]) : chain'[map][i] = chain[map][i]
    BY <1>3, <1>4
  <1>6. /\ \A r \in Room : r # map => chain'[r] = chain[r] /\ dirty'[r] = dirty[r]
        /\ ~dirty'[map]
    BY <1>2 DEF RoomTypes
  <1>7. RoomTypes'
    BY <1>2, <1>3, <1>5 DEF RoomTypes
  <1>8. RestTypes'
    BY <1>2 DEF RestTypes
  <1>9. Seated' /\ MapOpen'
    BY DEF Seated, MapOpen, connVars, relVars
  <1>10. Known'
    <2>1. disk' \subseteq 1 .. work' /\ \A r \in Room : doc'[r] \subseteq 1 .. work'
      BY <1>2, <1>3 DEF Known
    <2>2. \A i \in 1 .. Len(chain'[map]) : chain'[map][i] \subseteq 1 .. work'
      BY <1>2, <1>4, <1>5, <2>1 DEF Known
    <2>3. \A r \in Room : r # map =>
            \A i \in 1 .. Len(chain'[r]) : chain'[r][i] \subseteq 1 .. work'
      BY <1>2, <1>6 DEF Known
    <2> QED BY <2>1, <2>2, <2>3 DEF Known
  <1>11. Accounted'
    <2> SUFFICES ASSUME ~stray PROVE Together' /\ OnlyMapSaves' /\ AllThere'
      BY DEF Accounted
    <2>1. Together'
      BY DEF Accounted, Together, connVars
    <2>2. OnlyMapSaves'
      BY <1>2, <1>6 DEF Accounted, OnlyMapSaves, Saved
    <2>3. 1 .. work' \subseteq doc'[map]
      BY <1>2, <1>3 DEF Accounted, AllThere
    <2>4. AllThere'
      BY <1>2, <1>5, <2>3 DEF AllThere, Saved
    <2> QED BY <2>1, <2>2, <2>4
  <1> QED BY <1>1, <1>7, <1>8, <1>9, <1>10, <1>11
-----------------------------------------------------------------------------
LEMMA TailOf ==
  ASSUME NEW S, NEW q \in Seq(S), q # <<>>
  PROVE  /\ Tail(q) \in Seq(S) /\ Len(q) \in Nat \ {0}
         /\ Len(Tail(q)) = Len(q) - 1
         /\ \A i \in 1 .. Len(q) - 1 : Tail(q)[i] = q[i + 1]
         /\ Head(q) = q[1]
         /\ Tail(q) = <<>> => Len(q) = 1
  <1>1. Len(q) \in Nat \ {0}
    OBVIOUS
  <1>2. Tail(q) \in Seq(S) /\ Len(Tail(q)) = Len(q) - 1
    OBVIOUS
  <1>3. \A i \in 1 .. Len(q) - 1 : Tail(q)[i] = q[i + 1]
    OBVIOUS
  <1>4. Head(q) = q[1]
    OBVIOUS
  <1>5. Tail(q) = <<>> => Len(q) = 1
    BY <1>1, <1>2
  <1> QED BY <1>1, <1>2, <1>3, <1>4, <1>5

(* The first save of a chain ends, well or not.                             *)
LEMMA SaveEnds ==
  ASSUME IInv, NEW r \in Room, chain[r] # <<>>,
         chain' = [chain EXCEPT ![r] = Tail(@)], wait' = Waited(r), doc' = doc,
         release' = release, dirty' \in [Room -> BOOLEAN]
  PROVE  /\ RoomTypes' /\ RelTypes'
         /\ \A i \in 1 .. Len(chain'[r]) : chain'[r][i] = chain[r][i + 1]
         /\ Len(chain'[r]) = Len(chain[r]) - 1 /\ Len(chain[r]) \in Nat \ {0}
         /\ \A s \in Room : s # r => chain'[s] = chain[s]
         /\ Head(chain[r]) = chain[r][1]
         /\ chain'[r] = <<>> => Len(chain[r]) = 1
  <1> USE DEF IInv, TypeOK
  <1>1. chain[r] \in Seq(SUBSET (1 .. MaxWork)) /\ chain'[r] = Tail(chain[r])
    BY DEF RoomTypes
  <1>2. /\ chain'[r] \in Seq(SUBSET (1 .. MaxWork))
        /\ Len(chain[r]) \in Nat \ {0} /\ Len(chain'[r]) = Len(chain[r]) - 1
        /\ \A i \in 1 .. Len(chain[r]) - 1 : chain'[r][i] = chain[r][i + 1]
        /\ Head(chain[r]) = chain[r][1]
        /\ chain'[r] = <<>> => Len(chain[r]) = 1
    BY <1>1, TailOf
  <1>3. \A s \in Room : s # r => chain'[s] = chain[s]
    BY DEF RoomTypes
  <1>4. RoomTypes'
    BY <1>2 DEF RoomTypes
  <1>5. RelTypes'
    <2>1. \A k \in Conn : wait'[k] \in Nat
      BY DEF RelTypes, Waited
    <2>2. wait' \in [Conn -> Nat]
      BY <2>1 DEF Waited
    <2> QED BY <2>2 DEF RelTypes
  <1> QED BY <1>2, <1>3, <1>4, <1>5

(* What is written is the oldest save; when it was the last, everything is  *)
(* on disk.                                                                 *)
LEMMA WriteInv == ASSUME IInv, NEW r \in Room, Write(r) PROVE IInv'
  <1> USE DEF IInv, TypeOK, Write
  <1>1. /\ RoomTypes' /\ RelTypes'
        /\ \A i \in 1 .. Len(chain'[r]) : chain'[r][i] = chain[r][i + 1]
        /\ Len(chain'[r]) = Len(chain[r]) - 1 /\ Len(chain[r]) \in Nat \ {0}
        /\ \A s \in Room : s # r => chain'[s] = chain[s]
        /\ Head(chain[r]) = chain[r][1]
        /\ chain'[r] = <<>> => Len(chain[r]) = 1
    <2>1. dirty' \in [Room -> BOOLEAN]
      BY DEF RoomTypes
    <2> QED BY <2>1, SaveEnds
  <1>2. ConnTypes' /\ MapTypes'
    BY TypesKept
  <1>3. Known'
    <2>1. Head(chain[r]) \subseteq 1 .. work
      BY <1>1 DEF Known
    <2>2. \A i \in 1 .. Len(chain'[r]) : chain'[r][i] \subseteq 1 .. work
      <3> TAKE i \in 1 .. Len(chain'[r])
      <3>1. i + 1 \in 1 .. Len(chain[r]) /\ chain'[r][i] = chain[r][i + 1]
        BY <1>1
      <3> QED BY <3>1 DEF Known
    <2> QED BY <1>1, <2>1, <2>2 DEF Known
  <1>4. RestTypes'
    <2>1. 1 .. work \subseteq 1 .. MaxWork
      BY DEF RestTypes
    <2> QED BY <1>3, <2>1 DEF RestTypes, Known
  <1>5. Seated' /\ MapOpen'
    BY DEF Seated, MapOpen, connVars
  <1>6. Accounted'
    <2> SUFFICES ASSUME ~stray PROVE Together' /\ OnlyMapSaves' /\ AllThere'
      BY DEF Accounted
    <2>1. r = map /\ opened[map] = "ready"
      BY DEF Accounted, OnlyMapSaves, Saved, MapTypes
    <2>2. Together'
      BY DEF Accounted, Together, connVars
    <2>3. OnlyMapSaves'
      BY <1>1, <2>1 DEF Accounted, OnlyMapSaves, Saved
    <2>4. ~dirty[map] => 1 .. work \subseteq chain[map][Len(chain[map])]
      BY <2>1 DEF Accounted, AllThere
    <2>5. Saved(map)' => 1 .. work \subseteq disk'
      BY <1>1, <2>1, <2>4 DEF Saved
    <2>6. ~dirty[map] /\ chain'[map] # <<>> =>
            1 .. work \subseteq chain'[map][Len(chain'[map])]
      <3> SUFFICES ASSUME ~dirty[map], chain'[map] # <<>>
                   PROVE  1 .. work \subseteq chain'[map][Len(chain'[map])]
        OBVIOUS
      <3>1. Len(chain'[map]) \in 1 .. Len(chain'[map])
        <4>1. chain'[map] \in Seq(SUBSET (1 .. MaxWork))
          BY <1>1, <2>1 DEF RoomTypes
        <4> QED BY <4>1, TailOf
      <3> QED BY <1>1, <2>1, <2>4, <3>1
    <2>7. AllThere'
      BY <2>1, <2>5, <2>6 DEF Accounted, AllThere
    <2> QED BY <2>2, <2>3, <2>7
  <1> QED BY <1>1, <1>2, <1>3, <1>4, <1>5, <1>6

LEMMA SaveFailsInv == ASSUME IInv, NEW r \in Room, SaveFails(r) PROVE IInv'
  <1> USE DEF IInv, TypeOK, SaveFails
  <1>1. dirty' \in [Room -> BOOLEAN] /\ dirty'[r]
    BY DEF RoomTypes
  <1>2. /\ RoomTypes' /\ RelTypes'
        /\ \A i \in 1 .. Len(chain'[r]) : chain'[r][i] = chain[r][i + 1]
        /\ Len(chain'[r]) = Len(chain[r]) - 1 /\ Len(chain[r]) \in Nat \ {0}
        /\ \A s \in Room : s # r => chain'[s] = chain[s]
    BY <1>1, SaveEnds
  <1>3. ConnTypes' /\ MapTypes'
    BY TypesKept
  <1>4. Known'
    <2>1. \A i \in 1 .. Len(chain'[r]) : chain'[r][i] \subseteq 1 .. work
      <3> TAKE i \in 1 .. Len(chain'[r])
      <3>1. i + 1 \in 1 .. Len(chain[r]) /\ chain'[r][i] = chain[r][i + 1]
        BY <1>2
      <3> QED BY <3>1 DEF Known
    <2> QED BY <1>2, <2>1 DEF Known
  <1>5. RestTypes'
    <2>1. fails' \in 0 .. MaxFail
      BY DEF RestTypes
    <2> QED BY <2>1 DEF RestTypes
  <1>6. Seated' /\ MapOpen'
    BY DEF Seated, MapOpen, connVars
  <1>7. Accounted'
    <2> SUFFICES ASSUME ~stray PROVE Together' /\ OnlyMapSaves' /\ AllThere'
      BY DEF Accounted
    <2>1. r = map /\ opened[map] = "ready"
      BY DEF Accounted, OnlyMapSaves, Saved, MapTypes
    <2>2. Together'
      BY DEF Accounted, Together, connVars
    <2>3. OnlyMapSaves'
      BY <1>2, <2>1 DEF Accounted, OnlyMapSaves, Saved, RoomTypes
    <2>4. AllThere'
      BY <1>1, <2>1 DEF Accounted, AllThere, Saved
    <2> QED BY <2>2, <2>3, <2>4
  <1> QED BY <1>2, <1>3, <1>4, <1>5, <1>6, <1>7
-----------------------------------------------------------------------------
(* release: only an empty room leaves the map, and one that is not saved    *)
(* leaves it astray.                                                        *)
LEMMA ReleaseInv ==
  ASSUME IInv, NEW k \in Conn, ReleaseSaved(k) \/ Forget(k)
  PROVE  IInv'
  <1> USE DEF IInv, TypeOK, ReleaseSaved, Forget
  <1>1. ConnTypes' /\ RoomTypes'
    BY TypesKept
  <1>2. RelTypes'
    BY DEF RelTypes
  <1>3. MapTypes' /\ RestTypes'
    BY DEF MapTypes, RestTypes
  <1>4. Seated' /\ MapOpen' /\ Known'
    BY DEF Seated, MapOpen, Known, RelTypes, connVars, roomVars
  <1>5. Accounted'
    <2> SUFFICES ASSUME ~stray' PROVE Together' /\ OnlyMapSaves' /\ AllThere'
      BY DEF Accounted
    <2>1. CASE UNCHANGED <<map, stray>>
      BY <2>1 DEF Accounted, Together, OnlyMapSaves, AllThere, Saved, connVars,
         roomVars
    <2>2. CASE /\ map = at[k] /\ Peers(at[k]) = {} /\ map' = None
               /\ stray' = (stray \/ ~Saved(at[k]))
      <3>1. ~stray /\ Saved(map) /\ map \in Room
        BY <2>2 DEF Seated, RestTypes
      <3>2. \A l \in Conn : stage[l] # "peer"
        BY <2>2, <3>1 DEF Accounted, Together, Peers
      <3>3. Together'
        BY <3>2 DEF Together, connVars
      <3>4. OnlyMapSaves' /\ AllThere'
        BY <2>2, <3>1 DEF Accounted, OnlyMapSaves, AllThere, Saved, roomVars
      <3> QED BY <3>3, <3>4
    <2> QED BY <2>1, <2>2
  <1> QED BY <1>1, <1>2, <1>3, <1>4, <1>5

LEMMA IInvKept == IInv /\ [Next]_vars => IInv'
  <1> SUFFICES ASSUME IInv, [Next]_vars PROVE IInv'
    OBVIOUS
  <1>1. ASSUME NEW k \in Conn,
               \/ Arrive(k) \/ AskRoom(k) \/ GetRoom(k) \/ Accept(k) \/ Refuse(k)
               \/ Hello(k) \/ Edit(k) \/ Close(k) \/ ReleaseSaved(k) \/ Forget(k)
        PROVE  IInv'
    BY <1>1, PassInv, AskRoomInv, HelloInv, EditInv, CloseInv, ReleaseInv
  <1>2. ASSUME NEW r \in Room,
               \/ ReadDocument(r) \/ RoomReady(r) \/ OpenFails(r)
               \/ Save(r) \/ Write(r) \/ SaveFails(r)
        PROVE  IInv'
    BY <1>2, OpenInv, SaveInv, WriteInv, SaveFailsInv
  <1>3. CASE Rename
    BY <1>3, RenameInv
  <1>4. CASE UNCHANGED vars
    <2>1. TypeOK'
      BY <1>4, TypesKept DEF IInv, TypeOK, vars
    <2>2. Seated' /\ MapOpen' /\ Known' /\ Accounted'
      BY <1>4 DEF IInv, Seated, MapOpen, Known, Accounted, Together, OnlyMapSaves,
         AllThere, Saved, vars, connVars, roomVars, relVars
    <2> QED BY <2>1, <2>2 DEF IInv
  <1> QED BY <1>1, <1>2, <1>3, <1>4 DEF Next

LEMMA IInvAlways == Spec => []IInv
  <1>1. IInv /\ [Next]_vars => IInv'
    BY IInvKept
  <1> QED BY <1>1, InitInv, PTL DEF Spec

-----------------------------------------------------------------------------
(* Every variable keeps its type, and the address count is the number of    *)
(* its open connections (handleUpgrade, onEnd).                             *)
THEOREM HubTypes == Spec => []TypeOK
  <1>1. IInv => TypeOK
    BY DEF IInv
  <1> QED BY <1>1, IInvAlways, PTL

(* "one room per open file" (live.ts:1), while nothing was used outside the *)
(* map: everyone who said hello is in the room of the map.                  *)
THEOREM EveryoneTogether == Spec => []Together
  <1>1. IInv => Together
    BY DEF IInv, Accounted, Together
  <1> QED BY <1>1, IInvAlways, PTL

(* Whoever opens the file finds every change confirmed, in the room or on   *)
(* disk (room, greet).                                                      *)
THEOREM EverythingIsFound == Spec => []NewcomersGetEverything
  <1>1. IInv => NewcomersGetEverything
    BY DEF IInv, TypeOK, MapTypes, MapOpen, Accounted, OnlyMapSaves, AllThere,
       NewcomersGetEverything
  <1> QED BY <1>1, IInvAlways, PTL

(* A change not on disk is going to be saved: the room counts as changed,   *)
(* or its last save has everything (save, scheduleSave).                    *)
THEOREM WorkIsKept == Spec => []WorkWillBeSaved
  <1>1. IInv => WorkWillBeSaved
    <2> SUFFICES ASSUME IInv, ~stray, map # None, ~dirty[map],
                        ~(1 .. work \subseteq disk)
                 PROVE  /\ chain[map] # <<>>
                        /\ chain[map][Len(chain[map])] = 1 .. work
      BY DEF WorkWillBeSaved
    <2> USE DEF IInv, TypeOK, Accounted, AllThere
    <2>1. map \in Room /\ chain[map] \in Seq(SUBSET (1 .. MaxWork))
      BY DEF MapTypes, RoomTypes
    <2>2. chain[map] # <<>>
      BY DEF Saved
    <2>3. Len(chain[map]) \in 1 .. Len(chain[map])
      BY <2>1, <2>2, TailOf
    <2>4. chain[map][Len(chain[map])] \subseteq 1 .. work
      BY <2>1, <2>3 DEF Known
    <2> QED BY <2>2, <2>4
  <1> QED BY <1>1, IInvAlways, PTL

(* A room with people in it never leaves the map, though release looks for  *)
(* them only once, after all it waits for (live.ts:561), and a room being   *)
(* opened may fail.                                                         *)
THEOREM OccupiedStays == Spec => OccupiedIsKept
  <1>1. IInv /\ [Next]_vars => [map # None /\ Peers(map) # {} => map' = map]_vars
    <2> SUFFICES ASSUME IInv, Next, map # None, Peers(map) # {} PROVE map' = map
      OBVIOUS
    <2>1. opened[map] = "ready"
      BY DEF IInv, Seated, Peers
    <2>2. ASSUME NEW r \in Room, OpenFails(r) PROVE map' = map
      BY <2>1, <2>2 DEF OpenFails
    <2>3. ASSUME NEW k \in Conn, AskRoom(k) \/ Forget(k) PROVE map' = map
      BY <2>3 DEF AskRoom, Forget
    <2> QED BY <2>2, <2>3 DEF Next, Arrive, GetRoom, Accept, Refuse, Hello, Edit, Close,
         ReleaseSaved, ReadDocument, RoomReady, Save, Write, SaveFails, Rename
  <1> QED BY <1>1, IInvAlways, PTL DEF Spec, OccupiedIsKept
=============================================================================
