---------------------------- MODULE RoomSave ----------------------------
(***************************************************************************)
(* How a live room keeps its file: Room.scheduleSave, save and checkpoint, *)
(* RoomImages, the part of LiveHub.release that saves, and stopping the    *)
(* server (packages/server/src/live.ts, apps/server/src/main.ts).          *)
(*                                                                         *)
(* The document in memory is the number of changes in it, mem; change p    *)
(* brings a picture when p is in Picture, and pictures are files of their  *)
(* own.  A save takes the document at the call and joins a chain; the head *)
(* of the chain waits for the pictures being written, writes the document, *)
(* then the record of the file (a new version number), then perhaps a      *)
(* version for the history.  Any write may fail, the process may stop or   *)
(* crash between any two steps; then the room is opened again from disk.   *)
(***************************************************************************)
EXTENDS Integers, Sequences, FiniteSets

CONSTANTS
  MaxMem,       \* changes in the document at most (bound)
  Picture,      \* the changes that bring a picture
  SaveAfter,    \* SAVE_AFTER, in ticks
  SaveAtLeast,  \* SAVE_AT_LEAST, in ticks
  MaxFail,      \* writes that fail, in all (bound)
  MaxLives      \* times the room is opened, in all (bound)

ASSUME SaveAssumption ==
  /\ MaxMem \in Nat /\ Picture \subseteq 1 .. MaxMem
  /\ SaveAfter \in Nat /\ SaveAtLeast \in Nat /\ SaveAfter <= SaveAtLeast
  /\ MaxFail \in Nat /\ MaxLives \in Nat

VARIABLES
  mem,       \* the document in memory
  present,   \* someone is in the file
  dirty,     \* changed since the last save was called (dirtySince # 0)
  age,       \* ticks since dirtySince
  timer,     \* ticks until the save timer fires, or Off
  chain,     \* the documents being saved, in the order of the calls
  stage,     \* where the first of them is
  awaited,   \* the pictures its save waits for
  text,      \* the document put together for a version
  writing,   \* pictures being written
  versions,  \* which document each version number stands for, as the room knows
  authors,   \* someone changed the file since the last version was kept
  leaving,   \* the last person left: "no", "saving" or "text"
  leaveWait, \* saves that release still waits for
  leaveText, \* the document release put together for a version
  stopping,  \* the server is stopping
  stopWait,  \* saves that stopping still waits for
  (* on disk *)
  stored,    \* [doc, version]: snapshot.json and the record of the file
  pictures,  \* picture files
  history,   \* the document of the latest version in the history
  (* bounds and observation *)
  fails,     \* writes that failed
  life,      \* which opening of the room this is
  lostPics,  \* pictures whose write failed
  served,    \* served[v]: the least document anyone could load as version v
  torn,      \* a crash fell between writing a document and its record
  stopDoc,   \* the document in memory when stopping began
  excused    \* a write failed since stopping began

memVars   == <<mem, present, versions, authors>>
timerVars == <<dirty, age, timer>>
chainVars == <<chain, stage, awaited, text>>
leaveVars == <<leaving, leaveWait, leaveText>>
stopVars  == <<stopping, stopWait, stopDoc, excused>>
diskVars  == <<stored, pictures, history>>
obsVars   == <<lostPics, served, torn>>
vars == <<memVars, timerVars, chainVars, writing, leaveVars, stopVars,
          diskVars, fails, life, obsVars>>

Off == -1
Min2(a, b) == IF a < b THEN a ELSE b

PicturesIn(d) == {p \in Picture : p <= d}

Init ==
  /\ mem = 0 /\ present = TRUE /\ versions = [v \in {1} |-> 0] /\ authors = FALSE
  /\ dirty = FALSE /\ age = 0 /\ timer = Off
  /\ chain = <<>> /\ stage = "idle" /\ awaited = {} /\ text = 0
  /\ writing = {}
  /\ leaving = "no" /\ leaveWait = 0 /\ leaveText = 0
  /\ stopping = FALSE /\ stopWait = 0 /\ stopDoc = 0 /\ excused = FALSE
  /\ stored = [doc |-> 0, version |-> 1] /\ pictures = {} /\ history = 0
  /\ fails = 0 /\ life = 1
  /\ lostPics = {} /\ served = [v \in {1} |-> 0] /\ torn = FALSE

-----------------------------------------------------------------------------
(* Slip: the timer starts again in full, however long the file is dirty.    *)
ScheduleInFull(since) == dirty' = TRUE /\ age' = since /\ timer' = SaveAfter

(* scheduleSave: dirtySince stays at the first change, the timer starts     *)
(* again, never past SaveAtLeast after dirtySince.  since is the age of     *)
(* dirtySince as it stands.                                                 *)
ScheduleSave(since) ==
  /\ dirty' = TRUE
  /\ age' = since
  /\ timer' = Min2(SaveAfter, SaveAtLeast - since)

(* receive and apply: a batch of a client changes the document.             *)
Change ==
  /\ present /\ mem < MaxMem
  /\ mem' = mem + 1
  /\ writing' = writing \cup ({mem + 1} \cap Picture)
  /\ authors' = TRUE
  /\ ScheduleSave(IF dirty THEN age ELSE 0)
  /\ UNCHANGED <<present, versions, chainVars, leaveVars, stopVars, diskVars,
                 fails, life, obsVars>>

(* Time passes only until a timer is due.                                   *)
Tick ==
  /\ timer > 0
  /\ timer' = timer - 1
  /\ age' = age + 1
  /\ UNCHANGED <<memVars, dirty, chainVars, writing, leaveVars, stopVars,
                 diskVars, fails, life, obsVars>>

(* Slip: the latest save goes before the ones that wait.                    *)
SaveFirst ==
  /\ timer' = Off /\ dirty' = FALSE /\ age' = 0
  /\ chain' = IF dirty THEN <<mem>> \o chain ELSE chain

(* Slip: nothing joins the chain while a save is under way.                 *)
SaveUnlessBusy ==
  /\ timer' = Off /\ dirty' = FALSE /\ age' = 0
  /\ chain' = IF dirty /\ chain = <<>> THEN <<mem>> ELSE chain

(* save(): the document as it is now joins the chain; without changes it    *)
(* only hands out the promise of the chain.                                 *)
CallSave ==
  /\ timer' = Off
  /\ dirty' = FALSE
  /\ age' = 0
  /\ chain' = IF dirty THEN Append(chain, mem) ELSE chain

SaveTimer ==
  /\ timer = 0
  /\ CallSave
  /\ UNCHANGED <<memVars, stage, awaited, text, writing, leaveVars, stopVars,
                 diskVars, fails, life, obsVars>>

(* LiveHub.flush: a save asked for by a request.                            *)
FlushNow ==
  /\ dirty
  /\ CallSave
  /\ UNCHANGED <<memVars, stage, awaited, text, writing, leaveVars, stopVars,
                 diskVars, fails, life, obsVars>>

-----------------------------------------------------------------------------
(* Slip: the document does not wait for its pictures.                       *)
StartSaveAtOnce ==
  /\ chain # <<>> /\ stage = "idle"
  /\ stage' = "pictures"
  /\ awaited' = {}
  /\ UNCHANGED <<memVars, timerVars, chain, text, writing, leaveVars, stopVars,
                 diskVars, fails, life, obsVars>>

(* The chain.  The first save in it: the pictures being written now...      *)
StartSave ==
  /\ chain # <<>> /\ stage = "idle"
  /\ stage' = "pictures"
  /\ awaited' = writing
  /\ UNCHANGED <<memVars, timerVars, chain, text, writing, leaveVars, stopVars,
                 diskVars, fails, life, obsVars>>

(* ...are waited for (a failed write counts as done)...                     *)
PicturesIdle ==
  /\ stage = "pictures" /\ awaited \cap writing = {}
  /\ stage' = "document"
  /\ awaited' = {}
  /\ UNCHANGED <<memVars, timerVars, chain, text, writing, leaveVars, stopVars,
                 diskVars, fails, life, obsVars>>

(* ...the document is written...                                            *)
WriteDocument ==
  /\ stage = "document"
  /\ stored' = [stored EXCEPT !.doc = Head(chain)]
  /\ stage' = "record"
  /\ UNCHANGED <<memVars, timerVars, chain, awaited, text, writing, leaveVars,
                 stopVars, pictures, history, fails, life, obsVars>>

(* Slip: the saves left to wait for are counted down past zero.             *)
EndSaveUncounted ==
  /\ chain' = Tail(chain) /\ stage' = "idle" /\ awaited' = {}
  /\ leaveWait' = leaveWait - 1 /\ stopWait' = stopWait - 1

(* The first save leaves the chain; whoever waits for it is one step nearer. *)
EndSave ==
  /\ chain' = Tail(chain)
  /\ stage' = "idle"
  /\ awaited' = {}
  /\ leaveWait' = IF leaveWait > 0 THEN leaveWait - 1 ELSE 0
  /\ stopWait' = IF stopWait > 0 THEN stopWait - 1 ELSE 0

(* Slip: the version is noted with what the document holds by now.          *)
NotedVersions(v) ==
  [w \in DOMAIN versions \cup {v} |-> IF w = v THEN mem ELSE versions[w]]

(* The map of the room with version v standing for the document just saved. *)
WithVersion(v) ==
  [w \in DOMAIN versions \cup {v} |-> IF w = v THEN Head(chain) ELSE versions[w]]

(* ...then the record, and the room notes which document the new version    *)
(* stands for.  When a version for the history is due (ten minutes since    *)
(* the last try, and someone to name as its author) its text is begun now.  *)
WriteRecord ==
  /\ stage = "record"
  /\ LET v == stored.version + 1 IN
       /\ stored' = [stored EXCEPT !.version = v]
       /\ versions' = WithVersion(v)
       /\ served' = [w \in DOMAIN served \cup {v} |->
                       IF w = v THEN stored.doc ELSE served[w]]
  /\ \E due \in BOOLEAN :
       IF due /\ authors
         THEN /\ stage' = "history" /\ text' = mem
              /\ UNCHANGED <<chain, awaited, leaveWait, stopWait>>
         ELSE EndSave /\ UNCHANGED text
  /\ UNCHANGED <<mem, present, authors, timerVars, writing, leaving, leaveText,
                 stopping, stopDoc, excused, pictures, history, fails, life,
                 lostPics, torn>>

(* versions.add keeps the text, or does not (too soon, disk nearly full, an *)
(* error): that never fails the save.  Once kept, the authors are cleared.  *)
AddVersion ==
  /\ stage = "history"
  /\ \/ authors /\ history' = text /\ authors' = FALSE
     \/ UNCHANGED <<history, authors>>
  /\ EndSave
  /\ UNCHANGED <<mem, present, versions, timerVars, text, writing, leaving,
                 leaveText, stopping, stopDoc, excused, stored, pictures, fails,
                 life, obsVars>>

(* Slip: a failed save is only reported.                                    *)
SaveFailsQuietly ==
  /\ stage \in {"document", "record"} /\ fails < MaxFail
  /\ fails' = fails + 1
  /\ excused' = TRUE
  /\ EndSave
  /\ UNCHANGED <<memVars, timerVars, text, writing, leaving, leaveText, stopping,
                 stopDoc, diskVars, life, obsVars>>

(* Writing the document or the record fails: the file counts as changed     *)
(* from now on and the save is tried again.                                 *)
SaveFails ==
  /\ stage \in {"document", "record"} /\ fails < MaxFail
  /\ fails' = fails + 1
  /\ excused' = TRUE
  /\ ScheduleSave(0)
  /\ EndSave
  /\ UNCHANGED <<memVars, text, writing, leaving, leaveText, stopping, stopDoc,
                 diskVars, life, obsVars>>

(* Pictures, written on their own as they come (RoomImages.keep).           *)
PictureWritten(p) ==
  /\ p \in writing
  /\ writing' = writing \ {p}
  /\ pictures' = pictures \cup {p}
  /\ UNCHANGED <<memVars, timerVars, chainVars, leaveVars, stopVars, stored,
                 history, fails, life, obsVars>>

PictureFails(p) ==
  /\ p \in writing /\ fails < MaxFail
  /\ fails' = fails + 1
  /\ writing' = writing \ {p}
  /\ lostPics' = lostPics \cup {p}
  /\ UNCHANGED <<memVars, timerVars, chainVars, leaveVars, stopVars, diskVars,
                 life, served, torn>>

-----------------------------------------------------------------------------
(* The last person leaves: release waits for the save and the ones before   *)
(* it (one release at a time here)...                                       *)
Leave ==
  /\ present /\ leaving = "no"
  /\ present' = FALSE
  /\ CallSave
  /\ leaving' = "saving"
  /\ leaveWait' = Len(chain')
  /\ UNCHANGED <<mem, versions, authors, stage, awaited, text, writing,
                 leaveText, stopVars, diskVars, fails, life, obsVars>>

(* ...then puts the whole document together...                              *)
LeaveSaved ==
  /\ leaving = "saving" /\ leaveWait = 0
  /\ leaving' = "text"
  /\ leaveText' = mem
  /\ UNCHANGED <<memVars, timerVars, chainVars, writing, leaveWait, stopVars,
                 diskVars, fails, life, obsVars>>

(* ...and keeps it as a version if it knows an author of it.  Nobody here   *)
(* by then: the room is forgotten.                                          *)
LeaveVersion ==
  /\ leaving = "text"
  /\ \/ authors /\ history' = leaveText /\ authors' = FALSE /\ UNCHANGED fails
     \/ ~authors /\ UNCHANGED <<history, authors, fails>>
     \/ /\ authors /\ fails < MaxFail /\ fails' = fails + 1
        /\ UNCHANGED <<history, authors>>
  /\ leaving' = IF present THEN "no" ELSE "gone"
  /\ UNCHANGED <<mem, present, versions, timerVars, chainVars, writing,
                 leaveWait, leaveText, stopVars, stored, pictures, life, obsVars>>

(* Someone comes back before that: into the same room.                      *)
Return ==
  /\ ~present /\ leaving \in {"saving", "text"}
  /\ present' = TRUE
  /\ UNCHANGED <<mem, versions, authors, timerVars, chainVars, writing,
                 leaveVars, stopVars, diskVars, fails, life, obsVars>>

(* A new room, from what is on disk.                                        *)
OpenFromDisk ==
  /\ life < MaxLives
  /\ life' = life + 1
  /\ mem' = stored.doc /\ present' = TRUE /\ authors' = FALSE
  /\ versions' = [v \in {stored.version} |-> stored.doc]
  /\ dirty' = FALSE /\ age' = 0 /\ timer' = Off
  /\ chain' = <<>> /\ stage' = "idle" /\ awaited' = {} /\ text' = 0
  /\ writing' = {}
  /\ leaving' = "no" /\ leaveWait' = 0 /\ leaveText' = 0
  /\ stopping' = FALSE /\ stopWait' = 0 /\ stopDoc' = 0 /\ excused' = FALSE
  /\ torn' = (torn \/ stored.doc # served[stored.version])
  /\ UNCHANGED <<diskVars, fails, lostPics, served>>

Reopen == leaving = "gone" /\ OpenFromDisk

(* Slip: stopping waits for the saves under way and asks for none.          *)
StopWithoutSave ==
  /\ ~stopping /\ leaving # "gone"
  /\ stopping' = TRUE
  /\ stopWait' = Len(chain)
  /\ stopDoc' = mem
  /\ excused' = FALSE
  /\ UNCHANGED <<memVars, timerVars, chainVars, writing, leaveVars, diskVars,
                 fails, life, obsVars>>

(* SIGTERM: flushAll calls save() and waits for it; people go on editing.   *)
Stop ==
  /\ ~stopping /\ leaving # "gone"
  /\ stopping' = TRUE
  /\ CallSave
  /\ stopWait' = Len(chain')
  /\ stopDoc' = mem
  /\ excused' = FALSE
  /\ UNCHANGED <<memVars, stage, awaited, text, writing, leaveVars, diskVars,
                 fails, life, obsVars>>

(* The save it waited for is over (even if it failed): the process ends.    *)
Exit == stopping /\ stopWait = 0 /\ OpenFromDisk

(* The process dies (or its eight seconds to stop run out).                 *)
Crash == OpenFromDisk

Next ==
  \/ Change \/ Tick \/ SaveTimer \/ FlushNow
  \/ StartSave \/ PicturesIdle \/ WriteDocument \/ WriteRecord \/ AddVersion
  \/ SaveFails
  \/ \E p \in Picture : PictureWritten(p) \/ PictureFails(p)
  \/ Leave \/ LeaveSaved \/ LeaveVersion \/ Return \/ Reopen
  \/ Stop \/ Exit \/ Crash

Spec == Init /\ [][Next]_vars

(* Timers fire and a write that was begun ends.  Nothing makes people come, *)
(* leave or edit, nor the server stop.                                      *)
Fairness ==
  /\ WF_vars(Tick) /\ WF_vars(SaveTimer) /\ WF_vars(StartSave)
  /\ WF_vars(PicturesIdle) /\ WF_vars(WriteDocument) /\ WF_vars(WriteRecord)
  /\ WF_vars(AddVersion)
  /\ \A p \in Picture : WF_vars(PictureWritten(p))

FairSpec == Spec /\ Fairness

-----------------------------------------------------------------------------
(* Properties.                                                              *)

MemTypes ==
  /\ mem \in Nat /\ present \in BOOLEAN /\ authors \in BOOLEAN
  /\ DOMAIN versions \subseteq Nat /\ \A v \in DOMAIN versions : versions[v] \in Nat

TimerTypes == dirty \in BOOLEAN /\ age \in Nat /\ timer \in Nat \cup {Off}

ChainTypes ==
  /\ chain \in Seq(Nat)
  /\ stage \in {"idle", "pictures", "document", "record", "history"}
  /\ awaited \in SUBSET Picture /\ text \in Nat

LeaveTypes ==
  /\ leaving \in {"no", "saving", "text", "gone"}
  /\ leaveWait \in Nat /\ leaveText \in Nat

StopTypes ==
  /\ stopping \in BOOLEAN /\ stopWait \in Nat /\ stopDoc \in Nat
  /\ excused \in BOOLEAN

DiskTypes ==
  /\ stored \in [doc : Nat, version : Nat]
  /\ pictures \in SUBSET Picture /\ history \in Nat

RestTypes ==
  /\ writing \in SUBSET Picture /\ fails \in Nat /\ life \in Nat
  /\ lostPics \in SUBSET Picture /\ torn \in BOOLEAN
  /\ DOMAIN served \subseteq Nat /\ \A v \in DOMAIN served : served[v] \in Nat

(* Every variable has values of its kind; the counters of saves waited for  *)
(* never go below zero, nor does a running timer.                           *)
TypeOK ==
  /\ MemTypes /\ TimerTypes /\ ChainTypes /\ LeaveTypes /\ StopTypes
  /\ DiskTypes /\ RestTypes

(* A change is never between two stools: until it is on disk either a save  *)
(* timer is running for it or a save that has it is under way.              *)
NothingSlips ==
  mem > stored.doc =>
    \/ dirty /\ timer # Off
    \/ chain # <<>> /\ chain[Len(chain)] = mem

(* "at least every five seconds" (live.ts:4): with a stream of changes that *)
(* restarts the timer each time, a save is still called in time.            *)
SavedInTime == dirty => age <= SaveAtLeast

(* "the saved document must never point to a picture not on disk"           *)
(* (live.ts:369), as far as the writes of pictures succeed.                 *)
PicturesFirst == PicturesIn(stored.doc) \subseteq pictures \cup lostPics

(* A version of the file never promises more than the document one could    *)
(* load under that number (live.ts:169), as long as no crash fell between   *)
(* the document and its record.                                             *)
VersionsKeepWord ==
  ~torn => \A v \in DOMAIN versions : v \in DOMAIN served /\ versions[v] <= served[v]

(* "Files open for live editing are saved before the process ends"          *)
(* (apps/server/src/main.ts:89): what the room held when stopping began is  *)
(* on disk when the process may end, unless a write failed meanwhile.       *)
StopSavesWhatItFound ==
  stopping /\ stopWait = 0 /\ ~excused => stored.doc >= stopDoc

(* The room as a document saved in memory and on disk.                      *)
Durable == INSTANCE DurableDoc WITH mem <- mem, disk <- stored.doc
DurableSpec == Durable!Spec

(* Whatever is changed gets to disk, unless the process ends before.        *)
ChangesGetSaved ==
  \A n \in 1 .. MaxMem : mem >= n ~> stored.doc >= n \/ mem < n

(* "Everyone left: what they did becomes a version" (live.ts:556).          *)
EveryoneLeftIsKept == leaving = "gone" /\ fails = 0 => history = mem
=============================================================================
