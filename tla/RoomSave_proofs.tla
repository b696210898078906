------------------------- MODULE RoomSave_proofs -------------------------
(***************************************************************************)
(* Proofs about RoomSave: its variables keep their types, no change slips  *)
(* between the timer and the chain of saves, a save is called in time, the *)
(* stored document implements DurableDoc, pictures are there before the    *)
(* document that points to them, a version of the file never promises more *)
(* than one could load, and stopping writes what it found in memory.       *)
(*                                                                         *)
(* The saves under way form a queue of documents.  What makes the argument *)
(* work is their order: the stored document, then those of the chain, then *)
(* the one in memory, each no newer than the next.  What is said of the    *)
(* disk rests on an invariant of its own on top of that order (IInv).      *)
(***************************************************************************)
EXTENDS RoomSave, TLAPS

USE SaveAssumption DEF Off

(* The saves of the chain are in the order of the documents they hold, none *)
(* older than the stored one nor newer than the one in memory.              *)
ChainInOrder ==
  /\ stored.doc <= mem
  /\ \A i \in 1 .. Len(chain) : stored.doc <= chain[i] /\ chain[i] <= mem
  /\ \A i, j \in 1 .. Len(chain) : i <= j => chain[i] <= chain[j]

(* A save past its document is of the document that is stored.              *)
StageInOrder ==
  /\ stage # "idle" => chain # <<>>
  /\ stage \in {"record", "history"} => stored.doc = Head(chain)

(* A changed document has its timer running, and in time.                   *)
TimerInTime ==
  dirty => timer # Off /\ age + timer <= SaveAtLeast

Order == ChainInOrder /\ StageInOrder /\ TimerInTime /\ NothingSlips

IInv == TypeOK /\ Order

orderVars == <<mem, stored, timerVars, chain, stage>>

-----------------------------------------------------------------------------
(* What a step leaves alone keeps its type and its order.                   *)
LEMMA TypesKept ==
  /\ MemTypes /\ UNCHANGED memVars => MemTypes'
  /\ TimerTypes /\ UNCHANGED timerVars => TimerTypes'
  /\ ChainTypes /\ UNCHANGED chainVars => ChainTypes'
  /\ LeaveTypes /\ UNCHANGED leaveVars => LeaveTypes'
  /\ StopTypes /\ UNCHANGED stopVars => StopTypes'
  /\ DiskTypes /\ UNCHANGED diskVars => DiskTypes'
  /\ RestTypes /\ UNCHANGED <<writing, fails, life, obsVars>> => RestTypes'
  <1>1. MemTypes /\ UNCHANGED memVars => MemTypes'
    BY DEF MemTypes, memVars
  <1>2. TimerTypes /\ UNCHANGED timerVars => TimerTypes'
    BY DEF TimerTypes, timerVars
  <1>3. ChainTypes /\ UNCHANGED chainVars => ChainTypes'
    BY DEF ChainTypes, chainVars
  <1>4. LeaveTypes /\ UNCHANGED leaveVars => LeaveTypes'
    BY DEF LeaveTypes, leaveVars
  <1>5. StopTypes /\ UNCHANGED stopVars => StopTypes'
    BY DEF StopTypes, stopVars
  <1>6. DiskTypes /\ UNCHANGED diskVars => DiskTypes'
    BY DEF DiskTypes, diskVars
  <1>7. RestTypes /\ UNCHANGED <<writing, fails, life, obsVars>> => RestTypes'
    BY DEF RestTypes, obsVars
  <1> QED BY <1>1, <1>2, <1>3, <1>4, <1>5, <1>6, <1>7

LEMMA OrderKept == Order /\ UNCHANGED orderVars => Order'
  BY DEF Order, orderVars, timerVars, ChainInOrder, StageInOrder, TimerInTime,
     NothingSlips

LEMMA InitInv == Init => IInv
  <1> SUFFICES ASSUME Init PROVE IInv
    OBVIOUS
  <1>1. /\ DOMAIN versions = {1} /\ versions[1] = 0
        /\ DOMAIN served = {1} /\ served[1] = 0
    BY DEF Init
  <1>2. MemTypes
    <2>1. mem \in Nat /\ present \in BOOLEAN /\ authors \in BOOLEAN
      BY DEF Init
    <2> QED BY <1>1, <2>1 DEF MemTypes
  <1>3. TimerTypes
    BY DEF Init, TimerTypes
  <1>4. ChainTypes
    BY DEF Init, ChainTypes
  <1>5. LeaveTypes /\ StopTypes
    BY DEF Init, LeaveTypes, StopTypes
  <1>6. DiskTypes
    BY DEF Init, DiskTypes
  <1>7. RestTypes
    <2>1. /\ writing \in SUBSET Picture /\ fails \in Nat /\ life \in Nat
          /\ lostPics \in SUBSET Picture /\ torn \in BOOLEAN
      BY DEF Init
    <2> QED BY <1>1, <2>1 DEF RestTypes
  <1>8. Order
    BY DEF Init, Order, ChainInOrder, StageInOrder, TimerInTime, NothingSlips
  <1> QED BY <1>2, <1>3, <1>4, <1>5, <1>6, <1>7, <1>8 DEF IInv, TypeOK

(* A change starts the timer in time and leaves the saves under way alone.  *)
LEMMA ChangeInv == IInv /\ Change => IInv'
  <1> SUFFICES ASSUME IInv, Change PROVE IInv'
    OBVIOUS
  <1> USE DEF IInv, TypeOK, Change, ScheduleSave, Min2
  <1>1. MemTypes' /\ TimerTypes'
    BY DEF MemTypes, TimerTypes, Order, TimerInTime
  <1>2. ChainTypes' /\ LeaveTypes' /\ StopTypes' /\ DiskTypes'
    BY TypesKept
  <1>3. RestTypes'
    BY DEF RestTypes, obsVars
  <1>4. ChainInOrder' /\ StageInOrder'
    BY DEF Order, ChainInOrder, StageInOrder, MemTypes, ChainTypes, DiskTypes,
       chainVars, diskVars
  <1>5. TimerInTime' /\ NothingSlips'
    BY DEF Order, TimerInTime, NothingSlips, TimerTypes
  <1> QED BY <1>1, <1>2, <1>3, <1>4, <1>5 DEF Order

LEMMA TickInv == IInv /\ Tick => IInv'
  <1> SUFFICES ASSUME IInv, Tick PROVE IInv'
    OBVIOUS
  <1> USE DEF IInv, TypeOK, Tick
  <1>1. MemTypes' /\ ChainTypes' /\ LeaveTypes' /\ StopTypes' /\ DiskTypes'
    BY TypesKept
  <1>2. TimerTypes' /\ TimerInTime'
    BY DEF TimerTypes, Order, TimerInTime
  <1>3. RestTypes'
    BY TypesKept
  <1>4. ChainInOrder' /\ StageInOrder' /\ NothingSlips'
    BY DEF Order, ChainInOrder, StageInOrder, NothingSlips, memVars, chainVars,
       diskVars, TimerTypes
  <1> QED BY <1>1, <1>2, <1>3, <1>4 DEF Order

-----------------------------------------------------------------------------
(* Calling save() keeps the order of the chain and loses no change.         *)
LEMMA CallSaveInv ==
  ASSUME IInv, CallSave, UNCHANGED <<mem, stored, stage, awaited, text>>
  PROVE  TimerTypes' /\ ChainTypes' /\ Len(chain') \in Nat /\ Order'
  <1> USE DEF IInv, TypeOK, CallSave
  <1>1. TimerTypes'
    BY DEF TimerTypes
  <1>2. chain' \in Seq(Nat) /\ Len(chain') \in Nat
    <2>1. mem \in Nat /\ chain \in Seq(Nat)
      BY DEF MemTypes, ChainTypes
    <2> QED BY <2>1
  <1>3. ChainTypes'
    BY <1>2 DEF ChainTypes
  <1>4. ChainInOrder'
    BY SMTT(30) DEF Order, ChainInOrder, ChainTypes, MemTypes, DiskTypes
  <1>5. StageInOrder'
    BY DEF Order, StageInOrder, ChainTypes, MemTypes
  <1>6. TimerInTime' /\ NothingSlips'
    BY DEF Order, TimerInTime, NothingSlips, ChainInOrder, ChainTypes, MemTypes,
       DiskTypes, TimerTypes
  <1> QED BY <1>1, <1>2, <1>3, <1>4, <1>5, <1>6 DEF Order

LEMMA SaveCalledInv ==
  IInv /\ (SaveTimer \/ FlushNow \/ Leave \/ Stop) => IInv'
  <1> SUFFICES ASSUME IInv, SaveTimer \/ FlushNow \/ Leave \/ Stop PROVE IInv'
    OBVIOUS
  <1> USE DEF SaveTimer, FlushNow, Leave, Stop
  <1>1. CallSave /\ UNCHANGED <<mem, stored, stage, awaited, text>>
    BY DEF memVars, diskVars
  <1>2. TimerTypes' /\ ChainTypes' /\ Len(chain') \in Nat /\ Order'
    BY <1>1, CallSaveInv
  <1>3. MemTypes' /\ DiskTypes' /\ RestTypes'
    BY TypesKept DEF IInv, TypeOK, memVars, MemTypes
  <1>4. LeaveTypes' /\ StopTypes'
    BY <1>2 DEF IInv, TypeOK, LeaveTypes, StopTypes, MemTypes, leaveVars, stopVars
  <1> QED BY <1>2, <1>3, <1>4 DEF IInv, TypeOK

-----------------------------------------------------------------------------
(* The chain.  Waiting for pictures moves only the stage.                   *)
LEMMA WaitInv == IInv /\ (StartSave \/ PicturesIdle) => IInv'
  <1> SUFFICES ASSUME IInv, StartSave \/ PicturesIdle PROVE IInv'
    OBVIOUS
  <1> USE DEF IInv, TypeOK, StartSave, PicturesIdle
  <1>1. /\ MemTypes' /\ TimerTypes' /\ LeaveTypes' /\ StopTypes' /\ DiskTypes'
        /\ RestTypes'
    BY TypesKept
  <1>2. ChainTypes'
    BY DEF ChainTypes, RestTypes
  <1>3. Order'
    BY DEF Order, ChainInOrder, StageInOrder, TimerInTime, NothingSlips, memVars,
       timerVars, diskVars
  <1> QED BY <1>1, <1>2, <1>3

(* Writing the document brings the stored one up to the head of the chain,  *)
(* which none of the saves behind it is older than.                         *)
LEMMA WriteDocumentInv ==
  ASSUME IInv, WriteDocument
  PROVE  IInv' /\ stored'.doc \in stored.doc .. mem
  <1> USE DEF IInv, TypeOK, WriteDocument
  <1>1. chain # <<>> /\ Len(chain) \in Nat /\ 1 \in 1 .. Len(chain)
    BY DEF Order, StageInOrder, ChainTypes
  <1>2. stored.doc \in Nat /\ stored.version \in Nat /\ mem \in Nat
        /\ \A i \in 1 .. Len(chain) : chain[i] \in Nat
    BY DEF DiskTypes, MemTypes, ChainTypes
  <1>3. /\ stored'.doc = chain[1] /\ stored'.version = stored.version
        /\ chain[1] \in Nat /\ stored' \in [doc : Nat, version : Nat]
    BY <1>1, <1>2 DEF DiskTypes
  <1>4. /\ MemTypes' /\ TimerTypes' /\ LeaveTypes' /\ StopTypes' /\ RestTypes'
    BY TypesKept
  <1>5. ChainTypes' /\ DiskTypes'
    BY <1>3 DEF ChainTypes, DiskTypes
  <1>6. ChainInOrder' /\ stored'.doc \in stored.doc .. mem
    BY <1>1, <1>2, <1>3 DEF Order, ChainInOrder, memVars
  <1>7. StageInOrder'
    BY <1>1, <1>3 DEF StageInOrder
  <1>8. TimerInTime' /\ NothingSlips'
    BY <1>2, <1>3, <1>6 DEF Order, TimerInTime, NothingSlips, memVars, timerVars
  <1> QED BY <1>4, <1>5, <1>6, <1>7, <1>8 DEF Order

(* When a save past its document leaves the chain, what it saved is on disk, *)
(* so the changes that were only in it are safe.                            *)
LEMMA TailInOrder ==
  ASSUME IInv, stage \in {"record", "history"}, EndSave,
         UNCHANGED <<mem, timerVars>>, stored'.doc = stored.doc
  PROVE  chain' \in Seq(Nat) /\ Order'
  <1> USE DEF IInv, TypeOK, EndSave
  <1>1. /\ chain \in Seq(Nat) /\ chain # <<>> /\ Len(chain) \in Nat
        /\ stored.doc = chain[1]
    BY DEF Order, StageInOrder, ChainTypes
  <1>2. /\ chain' \in Seq(Nat) /\ Len(chain') = Len(chain) - 1
        /\ \A i \in 1 .. Len(chain') : chain'[i] = chain[i + 1]
    BY <1>1
  <1>3. ChainInOrder'
    BY <1>1, <1>2 DEF Order, ChainInOrder
  <1>4. StageInOrder' /\ TimerInTime'
    BY DEF Order, StageInOrder, TimerInTime, timerVars
  <1>5. NothingSlips'
    <2> SUFFICES ASSUME mem > stored.doc, ~(dirty /\ timer # Off)
                 PROVE  chain' # <<>> /\ chain'[Len(chain')] = mem
      BY DEF NothingSlips, timerVars
    <2>1. chain[Len(chain)] = mem
      BY DEF Order, NothingSlips
    <2>2. Len(chain) # 1
      BY <1>1, <2>1 DEF MemTypes
    <2>3. Len(chain') \in 1 .. Len(chain')
      BY <1>1, <1>2, <2>2
    <2>4. chain'[Len(chain')] = chain[Len(chain)]
      BY <1>1, <1>2, <2>3
    <2>5. chain' # <<>>
      <3>1. Len(chain') # 0
        BY <1>1, <1>2, <2>2
      <3>2. Len(<<>>) = 0
        OBVIOUS
      <3> QED BY <3>1, <3>2, Zenon
    <2> QED BY <2>1, <2>4, <2>5
  <1> QED BY <1>2, <1>3, <1>4, <1>5 DEF Order

(* Those who wait for a save never wait for less than none.                 *)
LEMMA EndSaveTypes ==
  ASSUME LeaveTypes, StopTypes, EndSave,
         UNCHANGED <<leaving, leaveText, stopping, stopDoc>>, excused' \in BOOLEAN
  PROVE  LeaveTypes' /\ StopTypes'
  BY DEF LeaveTypes, StopTypes, EndSave

LEMMA AddVersionInv == IInv /\ AddVersion => IInv'
  <1> SUFFICES ASSUME IInv, AddVersion PROVE IInv'
    OBVIOUS
  <1> USE DEF IInv, TypeOK, AddVersion
  <1>1. chain' \in Seq(Nat) /\ Order'
    BY TailInOrder DEF timerVars
  <1>2. TimerTypes' /\ RestTypes'
    BY TypesKept
  <1>3. MemTypes' /\ DiskTypes'
    BY DEF MemTypes, DiskTypes, ChainTypes
  <1>4. ChainTypes'
    BY <1>1 DEF ChainTypes, EndSave
  <1>5. LeaveTypes' /\ StopTypes'
    BY EndSaveTypes DEF StopTypes
  <1> QED BY <1>1, <1>2, <1>3, <1>4, <1>5

(* The record gets a new number; the map of the room and what was served    *)
(* under each number grow by it.                                            *)
LEMMA WriteRecordInv == IInv /\ WriteRecord => IInv'
  <1> SUFFICES ASSUME IInv, WriteRecord PROVE IInv'
    OBVIOUS
  <1> DEFINE v == stored.version + 1
  <1> USE DEF IInv, TypeOK
  <1>1. /\ stored.doc \in Nat /\ v \in Nat /\ mem \in Nat /\ Head(chain) \in Nat
        /\ stored' = [stored EXCEPT !.version = v]
        /\ versions' = WithVersion(v)
        /\ served' = [w \in DOMAIN served \cup {v} |->
                        IF w = v THEN stored.doc ELSE served[w]]
    BY DEF WriteRecord, DiskTypes, MemTypes, ChainTypes, Order, StageInOrder
  <1>2. stored'.doc = stored.doc /\ stored' \in [doc : Nat, version : Nat]
    BY <1>1 DEF DiskTypes
  <1>3. MemTypes'
    <2>1. DOMAIN versions' \subseteq Nat
          /\ \A w \in DOMAIN versions' : versions'[w] \in Nat
      BY <1>1 DEF WithVersion, MemTypes
    <2> QED BY <2>1 DEF MemTypes, WriteRecord
  <1>4. RestTypes'
    <2>1. DOMAIN served' \subseteq Nat
          /\ \A w \in DOMAIN served' : served'[w] \in Nat
      BY <1>1 DEF RestTypes
    <2> QED BY <2>1 DEF RestTypes, WriteRecord
  <1>5. TimerTypes' /\ DiskTypes'
    BY <1>2 DEF WriteRecord, TimerTypes, timerVars, DiskTypes
  <1>6. /\ stage = "record" /\ UNCHANGED <<mem, timerVars, leaving, leaveText,
             stopping, stopDoc, excused>>
    BY DEF WriteRecord
  <1>7. CASE UNCHANGED <<chain, awaited, leaveWait, stopWait>>
             /\ stage' = "history" /\ text' = mem
    <2>1. ChainTypes' /\ LeaveTypes' /\ StopTypes'
      BY <1>1, <1>6, <1>7 DEF ChainTypes, LeaveTypes, StopTypes
    <2>2. Order'
      BY <1>2, <1>6, <1>7 DEF Order, ChainInOrder, StageInOrder, TimerInTime,
         NothingSlips, timerVars
    <2> QED BY <1>3, <1>4, <1>5, <2>1, <2>2
  <1>8. CASE EndSave /\ UNCHANGED text
    <2>1. chain' \in Seq(Nat) /\ Order'
      BY <1>2, <1>6, <1>8, TailInOrder
    <2>2. ChainTypes'
      BY <1>8, <2>1 DEF ChainTypes, EndSave
    <2>3. LeaveTypes' /\ StopTypes'
      BY <1>6, <1>8, EndSaveTypes DEF StopTypes
    <2> QED BY <1>3, <1>4, <1>5, <2>1, <2>2, <2>3
  <1> QED BY <1>7, <1>8 DEF WriteRecord

(* A failed save leaves the chain with its changes unsaved, but the timer   *)
(* runs for them again.                                                     *)
LEMMA SaveFailsInv == IInv /\ SaveFails => IInv'
  <1> SUFFICES ASSUME IInv, SaveFails PROVE IInv'
    OBVIOUS
  <1> USE DEF IInv, TypeOK
  <1>1. /\ chain \in Seq(Nat) /\ chain # <<>> /\ Len(chain) \in Nat
        /\ chain' = Tail(chain)
    BY DEF SaveFails, EndSave, Order, StageInOrder, ChainTypes
  <1>2. /\ chain' \in Seq(Nat) /\ Len(chain') = Len(chain) - 1
        /\ \A i \in 1 .. Len(chain') : chain'[i] = chain[i + 1]
    BY <1>1
  <1>3. TimerTypes' /\ TimerInTime' /\ NothingSlips'
    BY DEF SaveFails, ScheduleSave, Min2, TimerTypes, TimerInTime, NothingSlips
  <1>4. ChainInOrder'
    BY <1>1, <1>2 DEF SaveFails, Order, ChainInOrder, memVars, diskVars
  <1>5. StageInOrder' /\ ChainTypes'
    BY <1>2 DEF SaveFails, EndSave, StageInOrder, ChainTypes
  <1>6. MemTypes' /\ DiskTypes'
    BY TypesKept DEF SaveFails
  <1>7. LeaveTypes' /\ StopTypes'
    BY EndSaveTypes DEF SaveFails
  <1>8. RestTypes'
    BY DEF SaveFails, RestTypes, obsVars
  <1> QED BY <1>3, <1>4, <1>5, <1>6, <1>7, <1>8 DEF Order

-----------------------------------------------------------------------------
(* Pictures and people.                                                     *)
LEMMA PictureInv ==
  ASSUME IInv, NEW p \in Picture, PictureWritten(p) \/ PictureFails(p)
  PROVE  IInv'
  <1> USE DEF IInv, TypeOK, PictureWritten, PictureFails
  <1>1. MemTypes' /\ TimerTypes' /\ ChainTypes' /\ LeaveTypes' /\ StopTypes'
    BY TypesKept
  <1>2. DiskTypes'
    BY DEF DiskTypes, diskVars
  <1>3. RestTypes'
    <2>1. /\ writing' \subseteq writing /\ lostPics' \subseteq lostPics \cup {p}
          /\ fails' \in {fails, fails + 1}
      BY DEF obsVars
    <2>2. UNCHANGED <<life, served, torn>>
      BY DEF obsVars
    <2>3. fails' \in Nat
      BY <2>1 DEF RestTypes
    <2>4. writing' \in SUBSET Picture /\ lostPics' \in SUBSET Picture
      BY <2>1, Zenon DEF RestTypes
    <2> QED BY <2>2, <2>3, <2>4 DEF RestTypes
  <1>4. Order'
    BY OrderKept DEF orderVars, memVars, chainVars, diskVars
  <1> QED BY <1>1, <1>2, <1>3, <1>4

LEMMA LeaveInv == IInv /\ (LeaveSaved \/ LeaveVersion \/ Return) => IInv'
  <1> SUFFICES ASSUME IInv, LeaveSaved \/ LeaveVersion \/ Return PROVE IInv'
    OBVIOUS
  <1> USE DEF IInv, TypeOK, LeaveSaved, LeaveVersion, Return
  <1>1. TimerTypes' /\ ChainTypes' /\ StopTypes'
    BY TypesKept
  <1>2. MemTypes' /\ LeaveTypes'
    BY DEF MemTypes, LeaveTypes, memVars, leaveVars
  <1>3. DiskTypes'
    BY DEF DiskTypes, LeaveTypes, diskVars
  <1>4. RestTypes'
    <2>1. fails' \in Nat /\ UNCHANGED <<writing, life, obsVars>>
      BY DEF RestTypes
    <2> QED BY <2>1 DEF RestTypes, obsVars
  <1>5. Order'
    BY OrderKept DEF orderVars, memVars, chainVars, diskVars
  <1> QED BY <1>1, <1>2, <1>3, <1>4, <1>5

(* A room opened from disk starts with nothing to save.                     *)
LEMMA OpenInv == IInv /\ OpenFromDisk => IInv'
  <1> SUFFICES ASSUME IInv, OpenFromDisk PROVE IInv'
    OBVIOUS
  <1> USE DEF IInv, TypeOK
  <1>1. stored.doc \in Nat /\ stored.version \in Nat /\ UNCHANGED stored
    BY DEF OpenFromDisk, DiskTypes, diskVars
  <1>2. MemTypes'
    <2>1. DOMAIN versions' \subseteq Nat
          /\ \A w \in DOMAIN versions' : versions'[w] \in Nat
      BY <1>1 DEF OpenFromDisk
    <2> QED BY <1>1, <2>1 DEF MemTypes, OpenFromDisk
  <1>3. TimerTypes'
    BY DEF OpenFromDisk, TimerTypes
  <1>4. ChainTypes'
    BY DEF OpenFromDisk, ChainTypes
  <1>5. LeaveTypes' /\ StopTypes'
    BY DEF OpenFromDisk, LeaveTypes, StopTypes
  <1>6. DiskTypes'
    BY TypesKept DEF OpenFromDisk
  <1>7. RestTypes'
    BY DEF OpenFromDisk, RestTypes
  <1>8. Order'
    BY <1>1 DEF OpenFromDisk, Order, ChainInOrder, StageInOrder, TimerInTime,
       NothingSlips
  <1> QED BY <1>2, <1>3, <1>4, <1>5, <1>6, <1>7, <1>8

LEMMA IInvKept == IInv /\ [Next]_vars => IInv'
  <1> SUFFICES ASSUME IInv, [Next]_vars PROVE IInv'
    OBVIOUS
  <1>1. CASE UNCHANGED vars
    <2>1. UNCHANGED orderVars /\ TypeOK'
      BY <1>1, TypesKept DEF vars, orderVars, memVars, chainVars, diskVars, IInv,
         TypeOK
    <2> QED BY <2>1, OrderKept DEF IInv
  <1>2. CASE Change \/ Tick
    BY <1>2, ChangeInv, TickInv
  <1>3. CASE SaveTimer \/ FlushNow \/ Leave \/ Stop
    BY <1>3, SaveCalledInv
  <1>4. CASE StartSave \/ PicturesIdle \/ WriteDocument
    BY <1>4, WaitInv, WriteDocumentInv
  <1>5. CASE WriteRecord \/ AddVersion \/ SaveFails
    BY <1>5, WriteRecordInv, AddVersionInv, SaveFailsInv
  <1>6. CASE \E p \in Picture : PictureWritten(p) \/ PictureFails(p)
    BY <1>6, PictureInv
  <1>7. CASE LeaveSaved \/ LeaveVersion \/ Return
    BY <1>7, LeaveInv
  <1>8. CASE Reopen \/ Exit \/ Crash
    BY <1>8, OpenInv DEF Reopen, Exit, Crash
  <1> QED BY <1>1, <1>2, <1>3, <1>4, <1>5, <1>6, <1>7, <1>8 DEF Next

LEMMA IInvAlways == Spec => []IInv
  BY InitInv, IInvKept, PTL DEF Spec

-----------------------------------------------------------------------------
(* Every variable of the room keeps values of its kind: the counters of     *)
(* saves waited for by release and by stopping never go below zero.         *)
THEOREM SaveTypes == Spec => []TypeOK
  <1>1. IInv => TypeOK
    BY DEF IInv
  <1> QED BY <1>1, IInvAlways, PTL

(* No change of the document is ever left with neither a save timer nor a   *)
(* save under way, however saves overlap with changes, failures, people     *)
(* leaving and coming back, and stopping.                                   *)
THEOREM NoChangeSlips == Spec => []NothingSlips
  <1>1. IInv => NothingSlips
    BY DEF IInv, Order
  <1> QED BY <1>1, IInvAlways, PTL

(* However many changes restart the timer, a save is called no later than   *)
(* SAVE_AT_LEAST after the first change not in a save.                      *)
THEOREM SavesInTime == Spec => []SavedInTime
  <1>1. IInv => SavedInTime
    BY DEF IInv, TypeOK, TimerTypes, Order, TimerInTime, SavedInTime
  <1> QED BY <1>1, IInvAlways, PTL

(* The room with its timers and chain of saves implements a document that   *)
(* is saved forward only: no step takes the stored document back, and none  *)
(* stores what the document in memory does not hold.                        *)
THEOREM SaveImplementsDurable == Spec => DurableSpec
  <1>1. Init => Durable!Init
    BY DEF Init, Durable!Init
  <1>2. IInv /\ [Next]_vars => [Durable!Next]_<<mem, stored.doc>>
    <2> SUFFICES ASSUME IInv, [Next]_vars
                 PROVE  Durable!Next \/ UNCHANGED <<mem, stored.doc>>
      OBVIOUS
    <2>1. CASE Change
      BY <2>1 DEF Change, diskVars, Durable!Next, Durable!Change
    <2>2. CASE WriteDocument
      BY <2>2, WriteDocumentInv DEF WriteDocument, memVars, Durable!Next,
         Durable!Persist
    <2>3. CASE Reopen \/ Exit \/ Crash
      BY <2>3 DEF Reopen, Exit, Crash, OpenFromDisk, diskVars, Durable!Next,
         Durable!Lose
    <2>4. CASE WriteRecord
      BY <2>4 DEF WriteRecord, IInv, TypeOK, DiskTypes
    <2>5. CASE Tick \/ SaveTimer \/ FlushNow \/ StartSave \/ PicturesIdle
               \/ AddVersion \/ SaveFails
      BY <2>5 DEF Tick, SaveTimer, FlushNow, StartSave, PicturesIdle, AddVersion,
         SaveFails, memVars, diskVars
    <2>6. CASE Leave \/ LeaveSaved \/ LeaveVersion \/ Return \/ Stop
      BY <2>6 DEF Leave, LeaveSaved, LeaveVersion, Return, Stop, memVars, diskVars
    <2>7. CASE \E p \in Picture : PictureWritten(p) \/ PictureFails(p)
      BY <2>7 DEF PictureWritten, PictureFails, memVars, diskVars
    <2>8. CASE UNCHANGED vars
      BY <2>8 DEF vars, memVars, diskVars
    <2> QED BY <2>1, <2>2, <2>3, <2>4, <2>5, <2>6, <2>7, <2>8 DEF Next
  <1> QED BY <1>1, <1>2, IInvAlways, PTL DEF Spec, DurableSpec, Durable!Spec

-----------------------------------------------------------------------------
(* The pictures whose write is over, for better or worse.                   *)
Settled == pictures \cup lostPics

-----------------------------------------------------------------------------
(* Pictures.                                                                *)

(* Each picture of the document in memory is written, lost, or being        *)
(* written; the first save of the chain waits for those of its document,    *)
(* and past that wait has none being written.                               *)
PicturesPlaced ==
  /\ PicturesIn(mem) \subseteq Settled \cup writing
  /\ stage = "pictures" =>
       PicturesIn(Head(chain)) \subseteq Settled \cup (awaited \cap writing)
  /\ stage \in {"document", "record", "history"} =>
       PicturesIn(Head(chain)) \subseteq Settled
  /\ PicturesFirst

(* No change, no picture; an older document has no other pictures; a change *)
(* brings at most its own.                                                  *)
LEMMA PicturesGrow ==
  /\ PicturesIn(0) = {}
  /\ \A d, e \in Nat : d <= e => PicturesIn(d) \subseteq PicturesIn(e)
  /\ \A d \in Nat : PicturesIn(d + 1) = PicturesIn(d) \cup ({d + 1} \cap Picture)
  <1>1. \A p \in Picture : p \in Nat /\ p > 0
    BY DEF SaveAssumption
  <1>2. PicturesIn(0) = {}
    <2>1. \A p \in Picture : ~(p <= 0)
      BY <1>1
    <2> QED BY <2>1, Zenon DEF PicturesIn
  <1>3. ASSUME NEW d \in Nat, NEW e \in Nat, d <= e
        PROVE  PicturesIn(d) \subseteq PicturesIn(e)
    <2>1. \A p \in Picture : p <= d => p <= e
      BY <1>1, <1>3
    <2> QED BY <2>1, Zenon DEF PicturesIn
  <1>4. ASSUME NEW d \in Nat
        PROVE  PicturesIn(d + 1) = PicturesIn(d) \cup ({d + 1} \cap Picture)
    <2>1. \A p \in Picture : p <= d + 1 <=> p <= d \/ p = d + 1
      BY <1>1
    <2> QED BY <2>1 DEF PicturesIn
  <1> QED BY <1>2, <1>3, <1>4

LEMMA InitPictures == Init => PicturesPlaced
  <1> SUFFICES ASSUME Init PROVE PicturesPlaced
    OBVIOUS
  <1>1. mem = 0 /\ stored.doc = 0 /\ stage = "idle"
    BY DEF Init
  <1> QED BY <1>1, PicturesGrow DEF PicturesPlaced, PicturesFirst

(* The first save of the chain stays when another is called.                *)
LEMMA HeadKept ==
  ASSUME IInv, CallSave, chain # <<>>
  PROVE  chain' # <<>> /\ Head(chain') = Head(chain)
  <1>1. chain \in Seq(Nat) /\ mem \in Nat
    BY DEF IInv, TypeOK, ChainTypes, MemTypes
  <1> QED BY <1>1 DEF CallSave

LEMMA PicturesKept == IInv /\ PicturesPlaced /\ [Next]_vars => PicturesPlaced'
  <1> SUFFICES ASSUME IInv, PicturesPlaced, [Next]_vars PROVE PicturesPlaced'
    OBVIOUS
  <1> USE DEF PicturesPlaced, PicturesFirst, Settled
  <1>1. /\ stage # "idle" => chain # <<>>
        /\ chain # <<>> => Head(chain) \in Nat /\ Head(chain) <= mem
        /\ mem \in Nat /\ stored.doc \in Nat
    BY DEF IInv, TypeOK, Order, ChainInOrder, StageInOrder, ChainTypes, MemTypes,
       DiskTypes
  <1>2. CASE UNCHANGED vars \/ Tick \/ LeaveSaved \/ LeaveVersion \/ Return
    BY <1>2 DEF vars, Tick, LeaveSaved, LeaveVersion, Return, memVars, chainVars,
       diskVars, obsVars
  <1>3. CASE Change
    <2>1. PicturesIn(mem') = PicturesIn(mem) \cup ({mem + 1} \cap Picture)
      BY <1>1, <1>3, PicturesGrow DEF Change
    <2>2. writing' = writing \cup ({mem + 1} \cap Picture)
      BY <1>3 DEF Change
    <2>3. UNCHANGED <<chain, stage, awaited, stored, pictures, lostPics>>
      BY <1>3 DEF Change, chainVars, diskVars, obsVars
    <2> QED BY <2>1, <2>2, <2>3
  <1>4. CASE SaveTimer \/ FlushNow \/ Leave \/ Stop
    <2>1. CallSave /\ UNCHANGED <<mem, stage, awaited, writing, stored, pictures, lostPics>>
      BY <1>4 DEF SaveTimer, FlushNow, Leave, Stop, memVars, diskVars, obsVars
    <2>2. stage # "idle" => Head(chain') = Head(chain)
      BY <1>1, <2>1, HeadKept
    <2> QED BY <2>1, <2>2 DEF IInv, TypeOK, ChainTypes
  <1>5. CASE StartSave
    <2>1. PicturesIn(Head(chain)) \subseteq PicturesIn(mem)
      BY <1>1, <1>5, PicturesGrow DEF StartSave
    <2> QED BY <1>5, <2>1 DEF StartSave, memVars, diskVars, obsVars
  <1>6. CASE PicturesIdle
    BY <1>6 DEF PicturesIdle, memVars, diskVars, obsVars
  <1>7. CASE WriteDocument
    <2>1. stored'.doc = Head(chain) /\ chain' = chain
      BY <1>7, <1>1 DEF WriteDocument, IInv, TypeOK, DiskTypes
    <2> QED BY <1>7, <2>1 DEF WriteDocument, memVars, obsVars
  <1>8. CASE WriteRecord
    <2>1. stored'.doc = stored.doc
      BY <1>8 DEF WriteRecord, IInv, TypeOK, DiskTypes
    <2> QED BY <1>8, <2>1 DEF WriteRecord, EndSave
  <1>9. CASE AddVersion \/ SaveFails
    BY <1>9 DEF AddVersion, SaveFails, EndSave, memVars, diskVars, obsVars
  <1>10. CASE \E p \in Picture : PictureWritten(p) \/ PictureFails(p)
    BY <1>10 DEF PictureWritten, PictureFails, memVars, chainVars, diskVars, obsVars
  <1>11. CASE Reopen \/ Exit \/ Crash
    BY <1>11 DEF Reopen, Exit, Crash, OpenFromDisk, diskVars
  <1> QED BY <1>2, <1>3, <1>4, <1>5, <1>6, <1>7, <1>8, <1>9, <1>10, <1>11 DEF Next

(* "the saved document must never point to a picture not on disk"           *)
(* (live.ts:369), for pictures whose write did not fail.                    *)
THEOREM PicturesGoFirst == Spec => []PicturesFirst
  <1>1. PicturesPlaced => PicturesFirst
    BY DEF PicturesPlaced
  <1>2. Spec => []PicturesPlaced
    BY InitPictures, PicturesKept, IInvAlways, PTL DEF Spec
  <1> QED BY <1>1, <1>2, PTL

-----------------------------------------------------------------------------
(* Versions.                                                                *)

(* The version on disk is one that could be loaded.                         *)
VersionsServed == stored.version \in DOMAIN served /\ VersionsKeepWord

LEMMA InitVersions == Init => VersionsServed
  BY DEF Init, VersionsServed, VersionsKeepWord

LEMMA VersionsKept == IInv /\ VersionsServed /\ [Next]_vars => VersionsServed'
  <1> SUFFICES ASSUME IInv, VersionsServed, [Next]_vars PROVE VersionsServed'
    OBVIOUS
  <1> USE DEF VersionsServed, VersionsKeepWord
  <1>1. CASE WriteDocument
    <2>1. stored'.version = stored.version
      BY <1>1 DEF WriteDocument, IInv, TypeOK, DiskTypes
    <2> QED BY <1>1, <2>1 DEF WriteDocument, memVars, obsVars
  <1>2. CASE WriteRecord
    <2> DEFINE v == stored.version + 1
    <2>1. stored'.version = v /\ stored.doc = Head(chain) /\ stored.doc \in Nat
      BY <1>2 DEF WriteRecord, IInv, TypeOK, DiskTypes, Order, StageInOrder
    <2>2. /\ versions' = [w \in DOMAIN versions \cup {v} |->
                            IF w = v THEN Head(chain) ELSE versions[w]]
          /\ served' = [w \in DOMAIN served \cup {v} |->
                          IF w = v THEN stored.doc ELSE served[w]]
          /\ torn' = torn
      BY <1>2 DEF WriteRecord, WithVersion
    <2> HIDE DEF v
    <2> QED BY <2>1, <2>2
  <1>3. CASE Reopen \/ Exit \/ Crash
    <2>1. /\ versions' = [w \in {stored.version} |-> stored.doc]
          /\ torn' = (torn \/ stored.doc # served[stored.version])
          /\ UNCHANGED <<stored, served>>
      BY <1>3 DEF Reopen, Exit, Crash, OpenFromDisk, diskVars
    <2>2. stored.doc \in Nat
      BY DEF IInv, TypeOK, DiskTypes
    <2>3. ~torn' => stored.doc = served[stored.version]
      BY <2>1, Zenon
    <2>4. stored.doc <= stored.doc
      BY <2>2
    <2>5. \A w \in DOMAIN versions' : w = stored.version /\ versions'[w] = stored.doc
      BY <2>1
    <2> QED BY <2>1, <2>3, <2>4, <2>5
  <1>4. CASE UNCHANGED <<versions, torn, served, stored>>
    BY <1>4
  <1>5. CASE \/ Change \/ Tick \/ SaveTimer \/ FlushNow \/ StartSave \/ PicturesIdle
             \/ AddVersion \/ SaveFails
    BY <1>4, <1>5 DEF Change, Tick, SaveTimer, FlushNow, StartSave, PicturesIdle,
       AddVersion, SaveFails, memVars, diskVars, obsVars
  <1>6. CASE Leave \/ LeaveSaved \/ LeaveVersion \/ Return \/ Stop \/ UNCHANGED vars
    BY <1>4, <1>6 DEF Leave, LeaveSaved, LeaveVersion, Return, Stop, vars, memVars,
       diskVars, obsVars
  <1>7. CASE \E p \in Picture : PictureWritten(p) \/ PictureFails(p)
    BY <1>4, <1>7 DEF PictureWritten, PictureFails, memVars, diskVars, obsVars
  <1> QED BY <1>1, <1>2, <1>3, <1>5, <1>6, <1>7 DEF Next

(* What the room says a version of the file contains (live.ts:169), whoever *)
(* loaded that version has, unless a crash fell between document and record. *)
THEOREM VersionsAreHonest == Spec => []VersionsKeepWord
  <1>1. VersionsServed => VersionsKeepWord
    BY DEF VersionsServed
  <1>2. Spec => []VersionsServed
    BY InitVersions, VersionsKept, IInvAlways, PTL DEF Spec
  <1> QED BY <1>1, <1>2, PTL

-----------------------------------------------------------------------------
(* Stopping.                                                                *)

(* The save that stopping waits for is in the chain and has what memory     *)
(* held, until it is on disk.                                               *)
StopCovered ==
  stopping /\ ~excused =>
    /\ stopDoc \in Nat
    /\ stopWait = 0 => stored.doc >= stopDoc
    /\ stopWait > 0 => stopWait <= Len(chain) /\ chain[stopWait] >= stopDoc

LEMMA InitStop == Init => StopCovered
  BY DEF Init, StopCovered

(* The first save ends, its document stored.                                *)
LEMMA StopAdvances ==
  ASSUME IInv, StopCovered, stage \in {"record", "history"}, EndSave,
         stored'.doc = stored.doc, UNCHANGED <<stopping, stopDoc, excused>>
  PROVE  StopCovered'
  <1> SUFFICES ASSUME stopping, ~excused PROVE StopCovered'
    BY DEF StopCovered
  <1>1. /\ chain \in Seq(Nat) /\ chain # <<>> /\ Len(chain) \in Nat
        /\ stored.doc = chain[1] /\ stopWait \in Nat
    BY DEF IInv, TypeOK, Order, StageInOrder, ChainTypes, StopTypes
  <1>2. /\ Len(chain') = Len(chain) - 1
        /\ \A i \in 1 .. Len(chain') : chain'[i] = chain[i + 1]
    BY <1>1 DEF EndSave
  <1>3. CASE stopWait = 0
    BY <1>3 DEF StopCovered, EndSave
  <1>4. CASE stopWait = 1
    BY <1>1, <1>4 DEF StopCovered, EndSave
  <1>5. CASE stopWait > 1
    <2>1. stopWait' = stopWait - 1 /\ stopWait - 1 \in 1 .. Len(chain')
      BY <1>1, <1>2, <1>5 DEF StopCovered, EndSave
    <2>2. chain'[stopWait'] = chain[stopWait]
      BY <1>1, <1>2, <2>1
    <2> QED BY <1>1, <1>5, <2>1, <2>2 DEF StopCovered
  <1> QED BY <1>1, <1>3, <1>4, <1>5

(* A save called later joins the chain behind it.                           *)
LEMMA StopUndisturbed ==
  ASSUME IInv, StopCovered, CallSave, UNCHANGED <<stored, stopVars>>
  PROVE  StopCovered'
  <1>1. chain \in Seq(Nat) /\ mem \in Nat /\ stopWait \in Nat
    BY DEF IInv, TypeOK, ChainTypes, MemTypes, StopTypes
  <1>2. /\ Len(chain') >= Len(chain)
        /\ \A i \in 1 .. Len(chain) : chain'[i] = chain[i]
    BY <1>1 DEF CallSave
  <1>3. Len(chain) \in Nat /\ Len(chain') \in Nat
    BY <1>1 DEF CallSave
  <1> QED BY <1>1, <1>2, <1>3 DEF StopCovered, stopVars

LEMMA StopKept == IInv /\ StopCovered /\ [Next]_vars => StopCovered'
  <1> SUFFICES ASSUME IInv, StopCovered, [Next]_vars PROVE StopCovered'
    OBVIOUS
  <1>1. /\ chain \in Seq(Nat) /\ Len(chain) \in Nat /\ mem \in Nat
        /\ stored.doc \in Nat /\ stopWait \in Nat
    BY DEF IInv, TypeOK, ChainTypes, MemTypes, DiskTypes, StopTypes
  <1>2. CASE SaveTimer \/ FlushNow \/ Leave
    BY <1>2, StopUndisturbed DEF SaveTimer, FlushNow, Leave, diskVars
  <1>3. CASE Stop
    <2>1. stopDoc' = mem /\ stopWait' = Len(chain') /\ CallSave /\ stored' = stored
      BY <1>3 DEF Stop, diskVars
    <2>2. CASE dirty
      <3>1. chain' = Append(chain, mem)
        BY <2>1, <2>2 DEF CallSave
      <3>2. Len(chain') = Len(chain) + 1 /\ chain'[Len(chain')] = mem
        BY <1>1, <3>1
      <3> QED BY <1>1, <2>1, <3>2 DEF StopCovered
    <2>3. CASE ~dirty
      <3>1. chain' = chain
        BY <2>1, <2>3 DEF CallSave
      <3>2. mem > stored.doc => chain # <<>> /\ chain[Len(chain)] = mem
        BY <2>3 DEF IInv, Order, NothingSlips
      <3>3. stored.doc <= mem
        BY DEF IInv, Order, ChainInOrder
      <3>4. Len(chain) > 0 => chain[Len(chain)] >= mem
        <4> SUFFICES ASSUME Len(chain) > 0 PROVE chain[Len(chain)] >= mem
          OBVIOUS
        <4>1. Len(chain) \in 1 .. Len(chain)
          BY <1>1
        <4>2. chain[Len(chain)] >= stored.doc /\ chain[Len(chain)] \in Nat
          BY <1>1, <4>1 DEF IInv, Order, ChainInOrder
        <4> QED BY <1>1, <3>2, <3>3, <4>2
      <3>5. Len(chain) = 0 => stored.doc = mem
        BY <1>1, <3>2, <3>3
      <3> QED BY <1>1, <2>1, <3>1, <3>4, <3>5 DEF StopCovered
    <2> QED BY <2>2, <2>3
  <1>4. CASE WriteDocument
    <2>1. stored'.doc >= stored.doc /\ stored'.doc \in Nat
      BY <1>1, <1>4, WriteDocumentInv
    <2> QED BY <1>1, <1>4, <2>1 DEF WriteDocument, StopCovered, stopVars
  <1>5. CASE WriteRecord
    <2>1. stored'.doc = stored.doc /\ stage = "record"
      BY <1>5 DEF WriteRecord, IInv, TypeOK, DiskTypes
    <2>2. CASE EndSave
      BY <1>5, <2>1, <2>2, StopAdvances DEF WriteRecord
    <2>3. CASE UNCHANGED <<chain, stopWait>>
      BY <1>5, <2>1, <2>3 DEF WriteRecord, StopCovered
    <2> QED BY <1>5, <2>2, <2>3 DEF WriteRecord
  <1>6. CASE AddVersion
    <2>1. stage = "history" /\ EndSave /\ UNCHANGED <<stored, stopping, stopDoc, excused>>
      BY <1>6 DEF AddVersion
    <2> QED BY <2>1, StopAdvances
  <1>7. CASE SaveFails
    BY <1>7 DEF SaveFails, StopCovered
  <1>8. CASE Reopen \/ Exit \/ Crash
    BY <1>8 DEF Reopen, Exit, Crash, OpenFromDisk, StopCovered
  <1>9. CASE UNCHANGED <<stored, chain, stopVars>>
    BY <1>9 DEF StopCovered, stopVars
  <1>10. CASE \/ Change \/ Tick \/ StartSave \/ PicturesIdle \/ LeaveSaved
              \/ LeaveVersion \/ Return \/ UNCHANGED vars
              \/ \E p \in Picture : PictureWritten(p) \/ PictureFails(p)
    BY <1>9, <1>10 DEF Change, Tick, StartSave, PicturesIdle, LeaveSaved, LeaveVersion,
       Return, PictureWritten, PictureFails, vars, chainVars, diskVars
  <1> QED BY <1>2, <1>3, <1>4, <1>5, <1>6, <1>7, <1>8, <1>10 DEF Next

(* "Files open for live editing are saved before the process ends"          *)
(* (apps/server/src/main.ts:89), also when a save was under way already at  *)
(* the signal, and whatever is changed and saved after it.                  *)
THEOREM StopSaves == Spec => []StopSavesWhatItFound
  <1>1. StopCovered => StopSavesWhatItFound
    BY DEF StopCovered, StopSavesWhatItFound
  <1>2. Spec => []StopCovered
    BY InitStop, StopKept, IInvAlways, PTL DEF Spec
  <1> QED BY <1>1, <1>2, PTL
=============================================================================
