--------------------------- MODULE FileStore ---------------------------
(***************************************************************************)
(* One file under its three kinds of writers: whole-document saves by HTTP *)
(* (Api.getFile, putFile), the live room (save), and deletion (deleteFile, *)
(* sweepBranches), over the stores they share: JsonStore with its cache,   *)
(* and FileBlobs (packages/server/src/api.ts, live.ts, documents.ts,       *)
(* storage.ts).                                                            *)
(*                                                                         *)
(* Both stores run the writes of one key one after another (KeyedQueue),   *)
(* and what others can read before such a write ends is what they could    *)
(* read before it began: each write is one step.  Reads stay outside the   *)
(* queue.                                                                  *)
(*                                                                         *)
(* A document is the set of changes in it, <<who, n>>.  The record of the  *)
(* file is its version; 0 is no record.  A save by HTTP writes the record  *)
(* and then the document; a room writes the document and then the record.  *)
(* Usually there is one room; but one that the hub forgot, or that was     *)
(* closed by a deletion, lives on as long as somebody holds it or it has   *)
(* something to save, and another may be opened meanwhile.                 *)
(*                                                                         *)
(* hole names the ways in which, as the code stands, work may be lost;     *)
(* nothing in the guards reads it.                                         *)
(***************************************************************************)
EXTENDS Integers, FiniteSets, Sequences

CONSTANTS
  Tab,        \* browser tabs that load and save the whole file
  Room,       \* live rooms of the file there may be at a time
  None,
  MaxEdit,    \* changes made in each tab and each room (bound)
  MaxRelease, \* releases of a room under way when another begins (bound)
  MaxStart    \* starts of the server (bound)

ASSUME StoreAssumption ==
  /\ Room \cap Tab = {} /\ IsFiniteSet(Tab) /\ IsFiniteSet(Room)
  /\ None \notin Room
  /\ MaxEdit \in Nat /\ MaxRelease \in Nat /\ MaxStart \in Nat \ {0}

Writer == Tab \cup Room
Change == Writer \X (1 .. MaxEdit)
NoRecord == 0
Uncached == -1
NoFile == {<<"none", 0>>}

VARIABLES
  (* on disk *)
  record,   \* the version in the record, or NoRecord
  doc,      \* snapshot.json: a set of changes, or NoFile
  history,  \* there are files of versions beside it
  (* JsonStore in memory *)
  cache,    \* the version in the cache, or Uncached
  reads,    \* versions read from the disk, on their way to the cache
  (* tabs *)
  pc,       \* where the request of a tab is
  base,     \* the version it loaded, or its save gave the file
  mine,     \* its document
  edits,    \* changes each writer made
  (* the live rooms *)
  map,      \* LiveHub.rooms: the room of the file, or None
  life,     \* "new", "opening", "open"
  holder,   \* somebody was given the room and has not said hello
  peers,    \* somebody has
  roomDoc,  \* its document
  dirty,    \* changed since its last save was called
  chain,    \* its saves: the document, and the releases that wait for it
  stage,    \* the first of them: before "document", "record" or "version"
  leaving,  \* releases whose save is done
  (* deletion *)
  deletion, \* "no", "begun", "record" (removed), "done"
  (* bounds and observation *)
  starts,
  meant,    \* the document the version in the record was given for
  accepted, \* changes whose save was done
  hole,     \* how work may have been lost
  late      \* someone was writing while the file was deleted

diskVars  == <<record, doc, history>>
cacheVars == <<cache, reads>>
tabVars   == <<pc, base, mine>>
whoVars   == <<map, life, holder, peers>>
saveVars  == <<dirty, chain, stage, leaving>>
roomVars  == <<whoVars, roomDoc, saveVars>>
obsVars   == <<meant, accepted, hole, late>>
vars == <<diskVars, cacheVars, tabVars, edits, roomVars, deletion, starts,
          obsVars>>

Save == [doc : SUBSET Change, then : Nat]

(* At most one version for each change and one for the record it began with. *)
Version == 0 .. (Cardinality(Writer) * MaxEdit + 1)

Init ==
  /\ record = 1 /\ doc = {} /\ history = TRUE
  /\ cache = Uncached /\ reads = {}
  /\ pc = [t \in Tab |-> "idle"] /\ base = [t \in Tab |-> 0]
  /\ mine = [t \in Tab |-> {}]
  /\ edits = [w \in Writer |-> 0]
  /\ map = None /\ life = [r \in Room |-> "new"]
  /\ holder = [r \in Room |-> FALSE] /\ peers = [r \in Room |-> FALSE]
  /\ roomDoc = [r \in Room |-> {}] /\ dirty = [r \in Room |-> FALSE]
  /\ chain = [r \in Room |-> <<>>] /\ stage = [r \in Room |-> "document"]
  /\ leaving = [r \in Room |-> 0]
  /\ deletion = "no" /\ starts = 1
  /\ meant = {} /\ accepted = {} /\ hole = {}
  /\ late = FALSE

Goes(t, where) == pc' = [pc EXCEPT ![t] = where]
Hole(kind, if) == hole' = IF if THEN hole \cup {kind} ELSE hole

(* What a read or an update of the record finds: the cache, else the disk.  *)
Current == IF cache # Uncached THEN cache ELSE record

(* JsonStore.get: what it had to read from the disk goes to the cache when  *)
(* the read is done, outside the queue.                                     *)
Get == reads' = IF cache = Uncached /\ record # NoRecord
                THEN reads \cup {record} ELSE reads

(* The record is written, then the cache has it.                            *)
Put(version, document) ==
  /\ record' = version /\ cache' = version
  /\ meant' = document

(* An open room that may still write: people can come to it or are in it,   *)
(* or it has something to save.                                             *)
Alive(r) == /\ life[r] = "open"
            /\ map = r \/ holder[r] \/ peers[r] \/ dirty[r] \/ chain[r] # <<>>

(* Version files are kept in the directory, or there was no need.           *)
MayKeepVersion == history' \in {history, TRUE}

-----------------------------------------------------------------------------
(* A read of the record ends: by now the record may be another, or gone.    *)
FillCache(v) ==
  /\ v \in reads /\ reads' = reads \ {v}
  /\ cache' = v
  /\ Hole("stale", v # record)
  /\ UNCHANGED <<diskVars, tabVars, edits, roomVars, deletion, starts, meant,
                 accepted, late>>

(* Loading.  getFile asks for the record; what the tab had is forgotten...  *)
LoadRecord(t) ==
  /\ pc[t] \in {"idle", "refused"} /\ Current # NoRecord
  /\ base' = [base EXCEPT ![t] = Current]
  /\ mine' = [mine EXCEPT ![t] = {}]
  /\ Get /\ Goes(t, "loading")
  /\ UNCHANGED <<diskVars, cache, edits, roomVars, deletion, starts, obsVars>>

(* ...then the document.  It may not hold what the version stands for yet.  *)
LoadDocument(t) ==
  /\ pc[t] = "loading"
  /\ IF doc = NoFile
     THEN Goes(t, "idle") /\ UNCHANGED <<mine, hole>>
     ELSE /\ mine' = [mine EXCEPT ![t] = doc]
          /\ Hole("early", base[t] = Current /\ ~(meant \subseteq doc))
          /\ Goes(t, "ready")
  /\ UNCHANGED <<diskVars, cacheVars, base, edits, roomVars, deletion, starts,
                 meant, accepted, late>>

Edit(t) ==
  /\ pc[t] = "ready" /\ edits[t] < MaxEdit
  /\ edits' = [edits EXCEPT ![t] = @ + 1]
  /\ mine' = [mine EXCEPT ![t] = @ \cup {<<t, edits[t] + 1>>}]
  /\ Goes(t, "edited")
  /\ UNCHANGED <<diskVars, cacheVars, base, roomVars, deletion, starts, obsVars>>

-----------------------------------------------------------------------------
(* Saving.  putFile looks for the record and, if there is one, for people   *)
(* in the room of the map (isLive); then it reads the body.                 *)
Check(t) ==
  /\ pc[t] = "edited"
  /\ \/ /\ Current = NoRecord /\ Goes(t, "making")
     \/ /\ Current # NoRecord
        /\ Goes(t, IF \E r \in Room : map = r /\ peers[r]
                   THEN "refused" ELSE "saving")
  /\ Get
  /\ UNCHANGED <<diskVars, cache, base, mine, edits, roomVars, deletion, starts,
                 obsVars>>

(* Slip: the version the tab loaded is not compared.                        *)
ConflictOfNew(t) == Current # NoRecord /\ pc[t] = "making"

(* Someone else made the file meanwhile, or its version is not the one      *)
(* loaded.                                                                  *)
Conflict(t) == Current # NoRecord /\ (pc[t] = "making" \/ base[t] # Current)

(* The update of the record: refused in a conflict; else it stands for a    *)
(* document that is not on disk yet.                                        *)
Update(t) ==
  /\ pc[t] \in {"making", "saving"}
  /\ IF Conflict(t)
     THEN /\ Goes(t, "refused")
          /\ UNCHANGED <<record, cache, base, meant, hole>>
     ELSE /\ Put(Current + 1, mine[t])
          /\ base' = [base EXCEPT ![t] = Current + 1]
          /\ Goes(t, "recorded")
          /\ hole' = hole
               \cup {h \in {"live"} : \E r \in Room : Alive(r)}
               \cup {h \in {"remade"} : /\ Current = NoRecord
                                        /\ \E u \in Tab \ {t} :
                                             pc[u] \notin {"idle", "refused"}}
  /\ late' = (late \/ (deletion = "record" /\ ~Conflict(t)))
  /\ UNCHANGED <<doc, history, reads, mine, edits, roomVars, deletion, starts,
                 accepted>>

(* The document is written, in a directory made if it has to be...          *)
WriteDocument(t) ==
  /\ pc[t] = "recorded"
  /\ doc' = mine[t]
  /\ accepted' = accepted \cup mine[t]
  /\ Goes(t, "written")
  /\ UNCHANGED <<record, history, cacheVars, base, mine, edits, roomVars,
                 deletion, starts, meant, hole, late>>

(* ...or it is not, and when the tab tries again it is refused: the version *)
(* it loaded is not the last any more...                                    *)
DocumentFails(t) ==
  /\ pc[t] = "recorded"
  /\ hole' = hole \cup {"torn"}
  /\ Goes(t, "refused")
  /\ UNCHANGED <<diskVars, cacheVars, base, mine, edits, roomVars, deletion,
                 starts, meant, accepted, late>>

(* ...a version is kept for the history, and the tab is told its own.       *)
AddVersion(t) ==
  /\ pc[t] = "written"
  /\ MayKeepVersion
  /\ Goes(t, "ready")
  /\ UNCHANGED <<record, doc, cacheVars, base, mine, edits, roomVars, deletion,
                 starts, obsVars>>

-----------------------------------------------------------------------------
(* A live room.  The first who comes finds none in the map and the record   *)
(* of the file, and puts one there that is being opened...                  *)
AskRoom(r) ==
  /\ map = None /\ Current # NoRecord
  /\ life[r] # "opening" /\ ~Alive(r) /\ leaving[r] = 0
  /\ Get
  /\ map' = r /\ life' = [life EXCEPT ![r] = "opening"]
  /\ UNCHANGED <<diskVars, cache, tabVars, edits, holder, peers, roomDoc,
                 saveVars, deletion, starts, obsVars>>

(* ...from the document on disk, if there is one.                           *)
OpenRoom(r) ==
  /\ life[r] = "opening"
  /\ IF doc = NoFile
     THEN /\ life' = [life EXCEPT ![r] = "new"] /\ map' = None
          /\ UNCHANGED <<holder, roomDoc, hole>>
     ELSE /\ life' = [life EXCEPT ![r] = "open"]
          /\ holder' = [holder EXCEPT ![r] = TRUE]
          /\ roomDoc' = [roomDoc EXCEPT ![r] = doc]
          /\ hole' = hole
               \cup {h \in {"live"} : \E t \in Tab : pc[t] = "recorded"}
               \cup {h \in {"apart"} : \E q \in Room : Alive(q)}
          /\ UNCHANGED map
  /\ UNCHANGED <<diskVars, cacheVars, tabVars, edits, peers, saveVars,
                 deletion, starts, meant, accepted, late>>

(* Who comes later gets the room of the map.                                *)
Come(r) ==
  /\ map = r /\ life[r] = "open" /\ ~holder[r]
  /\ holder' = [holder EXCEPT ![r] = TRUE]
  /\ UNCHANGED <<diskVars, cacheVars, tabVars, edits, map, life, peers, roomDoc,
                 saveVars, deletion, starts, obsVars>>

(* Who holds the room says hello, whatever the hub did with it meanwhile;   *)
(* there may be others.                                                     *)
SayHello(r) ==
  /\ holder[r] /\ holder' \in {holder, [holder EXCEPT ![r] = FALSE]}
  /\ peers' = [peers EXCEPT ![r] = TRUE]
  /\ UNCHANGED <<diskVars, cacheVars, tabVars, edits, map, life, roomDoc,
                 saveVars, deletion, starts, obsVars>>

EditInRoom(r) ==
  /\ peers[r] /\ edits[r] < MaxEdit
  /\ edits' = [edits EXCEPT ![r] = @ + 1]
  /\ roomDoc' = [roomDoc EXCEPT ![r] = @ \cup {<<r, edits[r] + 1>>}]
  /\ dirty' = [dirty EXCEPT ![r] = TRUE]
  /\ UNCHANGED <<diskVars, cacheVars, tabVars, whoVars, chain, stage, leaving,
                 deletion, starts, obsVars>>

-----------------------------------------------------------------------------
(* Room.save.  Called on a changed room it takes the document and joins the *)
(* chain; n releases wait for it.                                           *)
Joined(r, n) == Append(chain[r], [doc |-> roomDoc[r], then |-> n])

(* Slip: the room still counts as changed.                                  *)
SaveRoomStillDirty(r) ==
  /\ dirty[r]
  /\ chain' = [chain EXCEPT ![r] = Joined(r, 0)]
  /\ UNCHANGED <<diskVars, cacheVars, tabVars, edits, whoVars, roomDoc, dirty,
                 stage, leaving, deletion, starts, obsVars>>

(* By the timer, or before a version is saved on purpose.                   *)
SaveRoom(r) ==
  /\ dirty[r] /\ dirty' = [dirty EXCEPT ![r] = FALSE]
  /\ chain' = [chain EXCEPT ![r] = Joined(r, 0)]
  /\ UNCHANGED <<diskVars, cacheVars, tabVars, edits, whoVars, roomDoc, stage,
                 leaving, deletion, starts, obsVars>>

(* The first save of the chain writes the document...                       *)
WriteRoomDocument(r) ==
  /\ chain[r] # <<>> /\ stage[r] = "document"
  /\ doc' = chain[r][1].doc
  /\ stage' = [stage EXCEPT ![r] = "record"]
  /\ UNCHANGED <<record, history, cacheVars, tabVars, edits, whoVars, roomDoc,
                 dirty, chain, leaving, deletion, starts, obsVars>>

(* ...gives the record another version, if there still is a record...       *)
UpdateByRoom(r) ==
  /\ chain[r] # <<>> /\ stage[r] = "record"
  /\ stage' = [stage EXCEPT ![r] = "version"]
  /\ IF Current = NoRecord
     THEN UNCHANGED <<record, cache, meant, accepted>>
     ELSE /\ Put(Current + 1, chain[r][1].doc)
          /\ accepted' = accepted \cup chain[r][1].doc
  /\ UNCHANGED <<doc, history, reads, tabVars, edits, whoVars, roomDoc, dirty,
                 chain, leaving, deletion, starts, hole, late>>

(* The first save is over: the next may begin, releases go on.              *)
Shift(r) ==
  /\ chain' = [chain EXCEPT ![r] = Tail(@)]
  /\ stage' = [stage EXCEPT ![r] = "document"]
  /\ leaving' = [leaving EXCEPT ![r] = @ + chain[r][1].then]

(* ...and may keep a version for the history.                               *)
EndSave(r) ==
  /\ chain[r] # <<>> /\ stage[r] = "version"
  /\ MayKeepVersion
  /\ Shift(r)
  /\ UNCHANGED <<record, doc, cacheVars, tabVars, edits, whoVars, roomDoc, dirty,
                 deletion, starts, obsVars>>

(* A save that fails before the record has its version: the room counts as  *)
(* changed again.                                                           *)
SaveFails(r) ==
  /\ chain[r] # <<>> /\ stage[r] \in {"document", "record"}
  /\ dirty' = [dirty EXCEPT ![r] = TRUE]
  /\ Shift(r)
  /\ UNCHANGED <<diskVars, cacheVars, tabVars, edits, whoVars, roomDoc, deletion,
                 starts, obsVars>>

-----------------------------------------------------------------------------
(* LiveHub.release begins with a save: it waits for that of what is not     *)
(* saved, or for the last of the chain, or for none.                        *)
BeginRelease(r) ==
  LET n == Len(chain[r]) IN
  /\ leaving[r] < MaxRelease /\ (n > 0 => chain[r][n].then < MaxRelease)
  /\ dirty' = [dirty EXCEPT ![r] = FALSE]
  /\ \/ /\ dirty[r]
        /\ chain' = [chain EXCEPT ![r] = Joined(r, 1)]
        /\ UNCHANGED leaving
     \/ /\ ~dirty[r] /\ n > 0
        /\ chain' = [chain EXCEPT ![r][n].then = @ + 1]
        /\ UNCHANGED leaving
     \/ /\ ~dirty[r] /\ n = 0
        /\ leaving' = [leaving EXCEPT ![r] = @ + 1]
        /\ UNCHANGED chain
  /\ UNCHANGED stage

(* The last who said hello leaves...                                        *)
Leave(r) ==
  /\ peers[r] /\ peers' = [peers EXCEPT ![r] = FALSE]
  /\ BeginRelease(r)
  /\ UNCHANGED <<diskVars, cacheVars, tabVars, edits, map, life, holder, roomDoc,
                 deletion, starts, obsVars>>

(* ...or one who never did: before joining, which releases nothing, or      *)
(* after it, which does if nobody else said hello.                          *)
GiveUp(r) ==
  /\ holder[r] /\ holder' = [holder EXCEPT ![r] = FALSE]
  /\ \/ UNCHANGED saveVars
     \/ ~peers[r] /\ BeginRelease(r)
  /\ UNCHANGED <<diskVars, cacheVars, tabVars, edits, map, life, peers, roomDoc,
                 deletion, starts, obsVars>>

(* Its save done, or failed, the release may keep a version; and if nobody  *)
(* is there who said hello, the hub forgets the room.                       *)
EndRelease(r) ==
  /\ leaving[r] > 0 /\ leaving' = [leaving EXCEPT ![r] = @ - 1]
  /\ MayKeepVersion
  /\ map' = IF map = r /\ ~peers[r] THEN None ELSE map
  /\ UNCHANGED <<record, doc, cacheVars, tabVars, edits, life, holder, peers,
                 roomDoc, dirty, chain, stage, deletion, starts, obsVars>>

-----------------------------------------------------------------------------
(* Deletion.  LiveHub.deleted waits until the room of the map is open,      *)
(* forgets it and sends out everybody who said hello, the last of whom      *)
(* releases it; who did not goes on holding it...                           *)
DeleteBegins ==
  /\ deletion = "no" /\ Current # NoRecord
  /\ \A r \in Room : map = r => life[r] = "open"
  /\ deletion' = "begun" /\ map' = None
  /\ \/ /\ \E r \in Room : /\ map = r /\ peers[r]
                           /\ peers' = [peers EXCEPT ![r] = FALSE]
                           /\ BeginRelease(r)
     \/ /\ \A r \in Room : map = r => ~peers[r]
        /\ UNCHANGED <<peers, saveVars>>
  /\ Get
  /\ UNCHANGED <<diskVars, cache, tabVars, edits, life, holder, roomDoc, starts,
                 obsVars>>

(* Someone has yet to write a document or a version, or may come to.        *)
Writing(r) == life[r] = "opening" \/ Alive(r) \/ leaving[r] > 0
AtWork == (\E r \in Room : Writing(r))
          \/ \E t \in Tab : pc[t] \in {"recorded", "written"}

(* Slip: the cache keeps the record.                                        *)
DeleteRecordOnDisk ==
  /\ deletion = "begun"
  /\ deletion' = "record"
  /\ record' = NoRecord
  /\ accepted' = {} /\ meant' = {}
  /\ late' = (late \/ AtWork)
  /\ UNCHANGED <<doc, history, cacheVars, tabVars, edits, roomVars, starts, hole>>

(* ...the record goes: what was accepted is given up...                     *)
DeleteRecord ==
  /\ deletion = "begun"
  /\ deletion' = "record"
  /\ record' = NoRecord /\ cache' = Uncached
  /\ accepted' = {} /\ meant' = {}
  /\ late' = (late \/ AtWork)
  /\ UNCHANGED <<doc, history, reads, tabVars, edits, roomVars, starts, hole>>

(* Slip: snapshot.json stays.                                               *)
RemovePictures ==
  /\ deletion = "record"
  /\ deletion' = "done"
  /\ UNCHANGED <<diskVars, cacheVars, tabVars, edits, roomVars, starts, obsVars>>

(* ...then the directory, with all that is in it.                           *)
RemoveFiles ==
  /\ deletion = "record"
  /\ deletion' = "done"
  /\ doc' = NoFile /\ history' = FALSE
  /\ UNCHANGED <<record, cacheVars, tabVars, edits, roomVars, starts, obsVars>>

-----------------------------------------------------------------------------
(* The server ends at any moment and starts again: what is on disk stays.   *)
(* A tab that was saving tries again, and is refused if the record was      *)
(* updated.                                                                 *)
AfterEnd(where) == CASE where = "loading" -> "idle"
                     [] where \in {"making", "saving"} -> "edited"
                     [] where \in {"recorded", "written"} -> "refused"
                     [] OTHER -> where
Restart ==
  /\ starts < MaxStart /\ starts' = starts + 1
  /\ cache' = Uncached /\ reads' = {}
  /\ pc' = [t \in Tab |-> AfterEnd(pc[t])]
  /\ map' = None /\ life' = [r \in Room |-> "new"]
  /\ holder' = [r \in Room |-> FALSE] /\ peers' = [r \in Room |-> FALSE]
  /\ roomDoc' = [r \in Room |-> {}] /\ dirty' = [r \in Room |-> FALSE]
  /\ chain' = [r \in Room |-> <<>>] /\ stage' = [r \in Room |-> "document"]
  /\ leaving' = [r \in Room |-> 0]
  /\ deletion' = IF deletion \in {"begun", "record"} THEN "no" ELSE deletion
  /\ Hole("torn", deletion = "record" \/ \E t \in Tab : pc[t] = "recorded")
  /\ UNCHANGED <<diskVars, base, mine, edits, meant, accepted, late>>

-----------------------------------------------------------------------------
ByTab(t) == \/ LoadRecord(t) \/ LoadDocument(t) \/ Edit(t) \/ Check(t)
            \/ Update(t) \/ WriteDocument(t) \/ DocumentFails(t) \/ AddVersion(t)
ByPeople(r) == \/ AskRoom(r) \/ OpenRoom(r) \/ Come(r) \/ SayHello(r)
               \/ EditInRoom(r) \/ Leave(r) \/ GiveUp(r)
ByRoom(r) == \/ SaveRoom(r) \/ WriteRoomDocument(r) \/ UpdateByRoom(r)
             \/ EndSave(r) \/ SaveFails(r) \/ EndRelease(r)
Next ==
  \/ \E v \in reads : FillCache(v)
  \/ \E t \in Tab : ByTab(t)
  \/ \E r \in Room : ByPeople(r) \/ ByRoom(r)
  \/ DeleteBegins \/ DeleteRecord \/ RemoveFiles
  \/ Restart

Spec == Init /\ [][Next]_vars

-----------------------------------------------------------------------------
(* The versions are bounded, and so are the saves of a room that wait: one  *)
(* for each change made in it.                                              *)
TypeOK ==
  /\ record \in Version /\ cache \in Version \cup {Uncached}
  /\ reads \subseteq Version
  /\ doc \in (SUBSET Change) \cup {NoFile} /\ history \in BOOLEAN
  /\ pc \in [Tab -> {"idle", "loading", "ready", "edited", "making", "saving",
                     "recorded", "written", "refused"}]
  /\ base \in [Tab -> Version] /\ mine \in [Tab -> SUBSET Change]
  /\ edits \in [Writer -> 0 .. MaxEdit]
  /\ map \in Room \cup {None} /\ life \in [Room -> {"new", "opening", "open"}]
  /\ holder \in [Room -> BOOLEAN] /\ peers \in [Room -> BOOLEAN]
  /\ roomDoc \in [Room -> SUBSET Change] /\ dirty \in [Room -> BOOLEAN]
  /\ chain \in [Room -> Seq(Save)]
  /\ \A r \in Room : Len(chain[r]) <= MaxEdit
  /\ stage \in [Room -> {"document", "record", "version"}]
  /\ leaving \in [Room -> Nat]
  /\ deletion \in {"no", "begun", "record", "done"}
  /\ starts \in 1 .. MaxStart /\ meant \in SUBSET Change
  /\ accepted \in SUBSET Change
  /\ hole \subseteq {"remade", "stale", "early", "live", "apart", "torn"}
  /\ late \in BOOLEAN

(* Work reported as saved stays in the file, whoever else saves: of two     *)
(* tabs that loaded one version the second is refused, and a room saves     *)
(* over nothing it has not read.  The exceptions are in hole: a late read   *)
(* put an old record in the cache; a tab loaded a version before its        *)
(* document was there; a save by HTTP met a room that was still used or had *)
(* something to save; a room was opened beside such a room; the server      *)
(* ended, or a write failed, between the record and the document; the file  *)
(* was made again while a tab held the former one.                          *)
AcceptedIsKept == hole = {} /\ ~late => accepted \subseteq doc

(* Every accepted save gives the file a version above all before it, unless *)
(* the cache went back.                                                     *)
VersionsGrow ==
  [][record' # record /\ record' # NoRecord /\ "stale" \notin hole
       => record' = record + 1]_vars

(* When nobody is writing, a file has a record exactly when it has a        *)
(* document, and without a record no versions: deletion leaves nothing      *)
(* behind, takes nothing of a file made again under the same name, and a    *)
(* save that had begun before does not bring half of it back.  The          *)
(* exceptions: when the record went somebody was saving, or held, opened or *)
(* released a room, or made the file again before the directory went        *)
(* (late); the server ended, or a write failed, between record and          *)
(* document; a late read.                                                   *)
Quiet == /\ \A t \in Tab : pc[t] \notin {"recorded", "written"}
         /\ \A r \in Room : ~dirty[r] /\ chain[r] = <<>> /\ leaving[r] = 0
         /\ deletion \in {"no", "done"}
DeletedIsGone ==
  Quiet /\ ~late /\ hole \cap {"torn", "stale"} = {}
    => /\ record = NoRecord <=> doc = NoFile
       /\ record = NoRecord => ~history

=============================================================================
