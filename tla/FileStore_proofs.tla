------------------------ MODULE FileStore_proofs ------------------------
(***************************************************************************)
(* Proofs about FileStore, for any finite sets of tabs and rooms and any   *)
(* number of changes, releases and starts: types and the bounds on         *)
(* versions and on waiting saves, that versions grow, that deletion leaves *)
(* nothing half there, and that accepted work stays in the file.           *)
(***************************************************************************)
EXTENDS FileStore, TLAPS, FiniteSetTheorems

USE StoreAssumption DEF StoreAssumption

-----------------------------------------------------------------------------
(* Every variable has a value of its kind; versions are only numbers here.  *)
Kinds ==
  /\ record \in Nat /\ cache \in Nat \cup {Uncached} /\ reads \in SUBSET Nat
  /\ doc \in (SUBSET Change) \cup {NoFile} /\ history \in BOOLEAN
  /\ pc \in [Tab -> {"idle", "loading", "ready", "edited", "making", "saving",
                     "recorded", "written", "refused"}]
  /\ base \in [Tab -> Nat] /\ mine \in [Tab -> SUBSET Change]
  /\ edits \in [Writer -> 0 .. MaxEdit]
  /\ map \in Room \cup {None} /\ life \in [Room -> {"new", "opening", "open"}]
  /\ holder \in [Room -> BOOLEAN] /\ peers \in [Room -> BOOLEAN]
  /\ roomDoc \in [Room -> SUBSET Change] /\ dirty \in [Room -> BOOLEAN]
  /\ chain \in [Room -> Seq(Save)]
  /\ stage \in [Room -> {"document", "record", "version"}]
  /\ leaving \in [Room -> Nat]
  /\ deletion \in {"no", "begun", "record", "done"}
  /\ starts \in 1 .. MaxStart /\ meant \in SUBSET Change
  /\ accepted \in SUBSET Change
  /\ hole \in SUBSET {"remade", "stale", "early", "live", "apart", "torn"}
  /\ late \in BOOLEAN

(* A room that is not open has nothing to save and nobody in it.            *)
Unopened ==
  \A r \in Room : life[r] # "open" =>
    /\ ~holder[r] /\ ~peers[r] /\ ~dirty[r] /\ chain[r] = <<>> /\ leaving[r] = 0

(* Only a save under way is past its document.                              *)
Staged == \A r \in Room : stage[r] # "document" => chain[r] # <<>>

(* The changes made so far: a document holds nothing else.                  *)
Made == {ch \in Change : ch[2] <= edits[ch[1]]}

Documents ==
  /\ doc \in (SUBSET Made) \cup {NoFile}
  /\ mine \in [Tab -> SUBSET Made] /\ roomDoc \in [Room -> SUBSET Made]
  /\ \A r \in Room : \A i \in 1 .. Len(chain[r]) : chain[r][i].doc \subseteq Made

(* The saves a room still has to make, one for each change at the most; all *)
(* but one that has its version will take another.                          *)
Changed(r) == IF dirty[r] THEN 1 ELSE 0
Versioned(r) == IF stage[r] = "version" THEN 1 ELSE 0
Unsaved(r) == Len(chain[r]) + Changed(r)
Waiting(r) == Unsaved(r) - Versioned(r)
Owed == {ch \in Room \X (1 .. MaxEdit) : ch[2] <= Waiting(ch[1])}

FewSaves == \A r \in Room : Unsaved(r) <= edits[r]

(* No version is above one for the record it began with and one for each    *)
(* change, except those of rooms that are still to be saved; the version a  *)
(* tab with an unsaved change loaded is below that.                         *)
Most == 1 + Cardinality(Made) - Cardinality(Owed)

Numbers ==
  /\ record <= Most /\ cache <= Most /\ \A v \in reads : v <= Most
  /\ \A t \in Tab : /\ base[t] <= Most
                    /\ pc[t] \in {"edited", "making", "saving"} => base[t] < Most

(* The last change of a tab is nowhere else until the tab has written it.   *)
Pending == {"edited", "making", "saving", "recorded"}
Unseen ==
  \A t \in Tab : pc[t] \in Pending =>
    /\ <<t, edits[t]>> \in mine[t] /\ <<t, edits[t]>> \notin doc
    /\ \A u \in Tab \ {t} : <<t, edits[t]>> \notin mine[u]
    /\ \A r \in Room : /\ <<t, edits[t]>> \notin roomDoc[r]
                       /\ \A i \in 1 .. Len(chain[r]) :
                            <<t, edits[t]>> \notin chain[r][i].doc

(* The cache says what the disk says, but for a late read.                  *)
CacheIsTrue == "stale" \notin hole => cache \in {Uncached, record}

(* Whoever may still write has a record; without one there is no document   *)
(* and no version, and with one there is a document, or it is about to be   *)
(* written.                                                                 *)
Clean == ~late /\ hole \cap {"torn", "stale"} = {}
Whole ==
  Clean =>
    /\ AtWork => record # NoRecord
    /\ deletion = "record" => record = NoRecord
    /\ record # NoRecord /\ doc = NoFile => \E t \in Tab : pc[t] = "recorded"
    /\ record = NoRecord /\ deletion # "record" => doc = NoFile /\ ~history

(* What the version in the record stands for holds all accepted work, and   *)
(* is in the document, or with the one tab that is writing it...            *)
Sound == hole = {} /\ ~late
Stored ==
  /\ accepted \subseteq meant /\ accepted \subseteq doc
  /\ record = NoRecord => meant = {}
  /\ (\A t \in Tab : pc[t] # "recorded") => meant \subseteq doc
  /\ \A t \in Tab : pc[t] = "recorded" =>
       /\ base[t] = record /\ mine[t] = meant
       /\ \A r \in Room : ~Alive(r)

(* ...the one room that may still write has it, and each save of that room  *)
(* has all that the saves before it had...                                  *)
Roomed ==
  /\ \A q, r \in Room : Alive(q) /\ Alive(r) => q = r
  /\ \A r \in Room :
       /\ Alive(r) => meant \subseteq roomDoc[r]
       /\ \A i \in 1 .. Len(chain[r]) :
            /\ meant \subseteq chain[r][i].doc
            /\ chain[r][i].doc \subseteq roomDoc[r]
            /\ \A j \in i .. Len(chain[r]) :
                 chain[r][i].doc \subseteq chain[r][j].doc
       /\ stage[r] = "record" => doc = chain[r][1].doc

(* ...and who loaded that version has it too.                               *)
Loaded ==
  record # NoRecord =>
    \A t \in Tab :
      /\ pc[t] \in {"loading", "ready", "edited", "making", "saving", "written"}
           => base[t] <= record
      /\ pc[t] \in {"ready", "edited", "making", "saving", "written"}
           /\ base[t] = record => meant \subseteq mine[t]

Carried == Sound => Stored /\ Roomed /\ Loaded

IInv == /\ Kinds /\ Unopened /\ Staged /\ Documents /\ FewSaves /\ Numbers
        /\ Unseen /\ CacheIsTrue /\ Whole /\ Carried

-----------------------------------------------------------------------------
(* How a chain of saves changes: not, by one save more at its end, or by    *)
(* its first save less.                                                     *)
Kept(r) ==
  /\ Len(chain'[r]) = Len(chain[r])
  /\ \A i \in 1 .. Len(chain[r]) : chain'[r][i].doc = chain[r][i].doc
Longer(r) ==
  /\ Len(chain'[r]) = Len(chain[r]) + 1
  /\ \A i \in 1 .. Len(chain[r]) : chain'[r][i].doc = chain[r][i].doc
  /\ chain'[r][Len(chain[r]) + 1].doc = roomDoc[r]
Shorter(r) ==
  /\ Len(chain[r]) >= 1 /\ Len(chain'[r]) = Len(chain[r]) - 1
  /\ \A i \in 1 .. Len(chain[r]) - 1 : chain'[r][i].doc = chain[r][i + 1].doc

(* What every call of save does, and the end of every save.                 *)
Calls(r) ==
  /\ chain' \in [Room -> Seq(Save)] /\ leaving' \in [Room -> Nat]
  /\ stage' = stage /\ dirty' = [dirty EXCEPT ![r] = FALSE]
  /\ (dirty[r] /\ Longer(r)) \/ (~dirty[r] /\ Kept(r))
  /\ \A q \in Room \ {r} : chain'[q] = chain[q] /\ leaving'[q] = leaving[q]
Ends(r) ==
  /\ chain' \in [Room -> Seq(Save)] /\ leaving' \in [Room -> Nat]
  /\ stage' = [stage EXCEPT ![r] = "document"] /\ Shorter(r)
  /\ \A q \in Room \ {r} : chain'[q] = chain[q] /\ leaving'[q] = leaving[q]

(* A chain that is not empty begins with a save.                            *)
LEMMA HeadIsSave ==
  ASSUME Kinds, NEW r \in Room, chain[r] # <<>>
  PROVE  /\ chain[r] \in Seq(Save) /\ Len(chain[r]) \in Nat /\ Len(chain[r]) >= 1
         /\ chain[r][1] \in Save
         /\ chain[r][1].doc \in SUBSET Change /\ chain[r][1].then \in Nat
<1>1. chain[r] \in Seq(Save) /\ Len(chain[r]) \in Nat
  BY DEF Kinds
<1>2. Len(chain[r]) >= 1
  BY <1>1
<1>3. chain[r][1] \in Save
  BY <1>1, <1>2
<1> QED
  BY <1>1, <1>2, <1>3 DEF Save

(* A save called on a changed room comes after the others.                  *)
LEMMA JoinedIsLonger ==
  ASSUME Kinds, NEW r \in Room, NEW n \in Nat,
         chain' = [chain EXCEPT ![r] = Joined(r, n)]
  PROVE  /\ chain' \in [Room -> Seq(Save)] /\ Longer(r)
         /\ \A q \in Room \ {r} : chain'[q] = chain[q]
<1> DEFINE s == [doc |-> roomDoc[r], then |-> n]
<1>1. s \in Save /\ chain[r] \in Seq(Save)
  BY DEF Kinds, Save
<1>2. Joined(r, n) = Append(chain[r], s)
  BY DEF Joined
<1>3. /\ Append(chain[r], s) \in Seq(Save)
      /\ Len(Append(chain[r], s)) = Len(chain[r]) + 1
      /\ \A i \in 1 .. Len(chain[r]) : Append(chain[r], s)[i] = chain[r][i]
      /\ Append(chain[r], s)[Len(chain[r]) + 1] = s
  BY <1>1
<1>4. chain'[r] = Append(chain[r], s)
  BY <1>2 DEF Kinds
<1>5. chain' \in [Room -> Seq(Save)]
  BY <1>2, <1>3 DEF Kinds
<1>6. s.doc = roomDoc[r]
  OBVIOUS
<1> QED
  BY <1>3, <1>4, <1>5, <1>6 DEF Longer, Kinds

(* A release begins with a call of save...                                  *)
LEMMA ReleaseCalls ==
  ASSUME Kinds, NEW r \in Room, BeginRelease(r)
  PROVE  Calls(r)
<1> DEFINE n == Len(chain[r])
<1>1. n \in Nat /\ chain[r] \in Seq(Save)
  BY DEF Kinds
<1>2. CASE dirty[r]
  <2>1. chain' = [chain EXCEPT ![r] = Joined(r, 1)] /\ leaving' = leaving
    BY <1>2 DEF BeginRelease
  <2> QED
    BY <1>2, <2>1, JoinedIsLonger DEF BeginRelease, Calls, Kinds
<1>3. CASE ~dirty[r] /\ n > 0
  <2>1. chain' = [chain EXCEPT ![r][n].then = @ + 1] /\ leaving' = leaving
    BY <1>3 DEF BeginRelease
  <2> DEFINE s == [chain[r] EXCEPT ![n].then = @ + 1]
  <2>2. n \in 1 .. Len(chain[r]) /\ chain[r][n] \in Save
    BY <1>1, <1>3
  <2>3. [chain[r][n] EXCEPT !.then = @ + 1] \in Save
    BY <2>2 DEF Save
  <2>4. s \in Seq(Save) /\ Len(s) = n
    BY <1>1, <2>2, <2>3
  <2>5. \A i \in 1 .. n : s[i].doc = chain[r][i].doc
    BY <1>1, <2>2 DEF Save
  <2>6. /\ chain'[r] = s /\ \A q \in Room \ {r} : chain'[q] = chain[q]
        /\ chain' \in [Room -> Seq(Save)]
    BY <2>1, <2>4 DEF Kinds
  <2> QED
    BY <1>3, <2>1, <2>4, <2>5, <2>6 DEF BeginRelease, Calls, Kept, Kinds
<1>4. CASE ~dirty[r] /\ n = 0
  BY <1>4 DEF BeginRelease, Calls, Kept, Kinds
<1> QED
  BY <1>1, <1>2, <1>3, <1>4

(* ...as do the timer and a version saved on purpose...                     *)
LEMMA SaveCalls ==
  ASSUME Kinds, NEW r \in Room, SaveRoom(r)
  PROVE  Calls(r)
<1>1. chain' = [chain EXCEPT ![r] = Joined(r, 0)]
  BY DEF SaveRoom
<1> QED
  BY <1>1, JoinedIsLonger DEF SaveRoom, Calls, Kinds

(* ...and at the end of a save the next is the first.                       *)
LEMMA ShiftEnds ==
  ASSUME Kinds, NEW r \in Room, chain[r] # <<>>, Shift(r)
  PROVE  Ends(r)
<1>1. chain[r] \in Seq(Save) /\ Len(chain[r]) \in Nat
  BY DEF Kinds
<1>2. Len(chain[r]) >= 1 /\ chain[r][1] \in Save
  BY <1>1
<1>3. /\ Tail(chain[r]) \in Seq(Save) /\ Len(Tail(chain[r])) = Len(chain[r]) - 1
      /\ \A i \in 1 .. Len(chain[r]) - 1 : Tail(chain[r])[i] = chain[r][i + 1]
  BY <1>1, <1>2
<1>4. /\ chain'[r] = Tail(chain[r]) /\ \A q \in Room \ {r} : chain'[q] = chain[q]
      /\ chain' \in [Room -> Seq(Save)]
  BY <1>3 DEF Shift, Kinds
<1>5. chain[r][1].then \in Nat
  BY <1>2 DEF Save
<1>6. leaving' \in [Room -> Nat] /\ \A q \in Room \ {r} : leaving'[q] = leaving[q]
  BY <1>5 DEF Shift, Kinds
<1> QED
  BY <1>2, <1>3, <1>4, <1>6 DEF Shift, Ends, Shorter, Kinds

(* Leaving, giving up and deletion call save as well, or leave the saves    *)
(* alone; none of them touches what is on disk or in a document.            *)
Calm == UNCHANGED <<diskVars, cache, tabVars, edits, life, roomDoc, starts, obsVars>>

LEMMA CallersCall ==
  ASSUME Kinds, Unopened,
         (\E r \in Room : SaveRoom(r) \/ Leave(r) \/ GiveUp(r)) \/ DeleteBegins
  PROVE  /\ Calm
         /\ holder' \in [Room -> BOOLEAN] /\ peers' \in [Room -> BOOLEAN]
         /\ map' \in {map, None}
         /\ \A r \in Room : (holder'[r] => holder[r]) /\ (peers'[r] => peers[r])
         /\ \/ UNCHANGED saveVars
            \/ \E r \in Room : life[r] = "open" /\ Alive(r) /\ Calls(r)
<1> USE DEF Kinds, Calm, diskVars, cacheVars, tabVars, obsVars, saveVars, Alive
<1>1. ASSUME NEW r \in Room, SaveRoom(r)
      PROVE  life[r] = "open" /\ Alive(r) /\ Calls(r)
  BY <1>1, SaveCalls DEF SaveRoom, Unopened
<1>2. ASSUME NEW r \in Room, Leave(r)
      PROVE  life[r] = "open" /\ Alive(r) /\ Calls(r)
  BY <1>2, ReleaseCalls DEF Leave, Unopened
<1>3. ASSUME NEW r \in Room, GiveUp(r)
      PROVE  UNCHANGED saveVars \/ (life[r] = "open" /\ Alive(r) /\ Calls(r))
  BY <1>3, ReleaseCalls DEF GiveUp, Unopened
<1>4. ASSUME DeleteBegins
      PROVE  \/ UNCHANGED saveVars
             \/ \E r \in Room : life[r] = "open" /\ Alive(r) /\ Calls(r)
  <2>1. CASE \E r \in Room : map = r /\ peers[r] /\ BeginRelease(r)
    BY <2>1, ReleaseCalls DEF Unopened
  <2>2. CASE UNCHANGED saveVars
    BY <2>2
  <2> QED
    BY <1>4, <2>1, <2>2 DEF DeleteBegins
<1>5. ASSUME NEW r \in Room, SaveRoom(r)
      PROVE  Calm /\ UNCHANGED <<map, holder, peers>>
  BY <1>5 DEF SaveRoom, whoVars
<1>6. ASSUME NEW r \in Room, Leave(r)
      PROVE  /\ Calm /\ UNCHANGED <<map, holder>>
             /\ peers' = [peers EXCEPT ![r] = FALSE]
  BY <1>6 DEF Leave
<1>7. ASSUME NEW r \in Room, GiveUp(r)
      PROVE  /\ Calm /\ UNCHANGED <<map, peers>>
             /\ holder' = [holder EXCEPT ![r] = FALSE]
  BY <1>7 DEF GiveUp
<1>8. ASSUME DeleteBegins
      PROVE  /\ Calm /\ UNCHANGED holder /\ map' = None
             /\ \/ UNCHANGED peers
                \/ \E r \in Room : peers' = [peers EXCEPT ![r] = FALSE]
  BY <1>8 DEF DeleteBegins
<1>9. peers' \in [Room -> BOOLEAN] /\ \A r \in Room : peers'[r] => peers[r]
  BY <1>5, <1>6, <1>7, <1>8
<1>10. holder' \in [Room -> BOOLEAN] /\ \A r \in Room : holder'[r] => holder[r]
  BY <1>5, <1>6, <1>7, <1>8
<1>11. Calm /\ map' \in {map, None}
  BY <1>5, <1>6, <1>7, <1>8
<1>12. \/ UNCHANGED saveVars
       \/ \E r \in Room : life[r] = "open" /\ Alive(r) /\ Calls(r)
  BY <1>1, <1>2, <1>3, <1>4
<1> QED
  BY <1>9, <1>10, <1>11, <1>12

(* A save that failed leaves the room changed.                              *)
LEMMA SavesEnd ==
  ASSUME Kinds, Staged, NEW r \in Room, EndSave(r) \/ SaveFails(r)
  PROVE  /\ Ends(r) /\ dirty' \in [Room -> BOOLEAN]
         /\ \A q \in Room \ {r} : dirty'[q] = dirty[q]
         /\ chain[r] # <<>> /\ stage[r] \in {"document", "record", "version"}
         /\ \/ stage[r] = "version" /\ dirty' = dirty
            \/ stage[r] # "version" /\ dirty'[r]
  BY ShiftEnds DEF EndSave, SaveFails, Kinds

(* Every step keeps the kinds.                                              *)
LEMMA KindsKept ==
  ASSUME Kinds, Unopened, Staged, [Next]_vars
  PROVE  Kinds'
<1> USE DEF Kinds, diskVars, cacheVars, tabVars, whoVars, saveVars, roomVars,
            obsVars, Goes, Hole, Put, Get, Current, NoRecord, Uncached
<1>1. ASSUME NEW v \in reads, FillCache(v) PROVE Kinds'
  BY <1>1 DEF FillCache
<1>2. ASSUME NEW t \in Tab, LoadRecord(t) PROVE Kinds'
  BY <1>2 DEF LoadRecord
<1>3. ASSUME NEW t \in Tab, LoadDocument(t) PROVE Kinds'
  <2>1. CASE doc = NoFile
    BY <1>3, <2>1 DEF LoadDocument
  <2>2. CASE doc # NoFile
    <3>1. mine' = [mine EXCEPT ![t] = doc] /\ doc \in SUBSET Change
      BY <1>3, <2>2 DEF LoadDocument
    <3>2. hole' \in SUBSET {"remade", "stale", "early", "live", "apart", "torn"}
      BY <1>3, <2>2 DEF LoadDocument
    <3>3. pc' = [pc EXCEPT ![t] = "ready"]
      BY <1>3, <2>2 DEF LoadDocument
    <3> QED
      BY <1>3, <3>1, <3>2, <3>3 DEF LoadDocument
  <2> QED
    BY <2>1, <2>2
<1>4. ASSUME NEW t \in Tab, Edit(t) PROVE Kinds'
  <2>1. <<t, edits[t] + 1>> \in Change
    BY <1>4 DEF Edit, Change, Writer
  <2>2. mine' \in [Tab -> SUBSET Change]
    BY <1>4, <2>1 DEF Edit
  <2>3. edits' \in [Writer -> 0 .. MaxEdit]
    BY <1>4 DEF Edit, Writer
  <2>4. pc' \in [Tab -> {"idle", "loading", "ready", "edited", "making", "saving",
                         "recorded", "written", "refused"}]
    BY <1>4 DEF Edit
  <2> QED
    BY <1>4, <2>2, <2>3, <2>4 DEF Edit
<1>5. ASSUME NEW t \in Tab, Check(t) PROVE Kinds'
  BY <1>5 DEF Check
<1>6. ASSUME NEW t \in Tab, Update(t) PROVE Kinds'
  <2>1. Current + 1 \in Nat
    OBVIOUS
  <2>2. late' \in BOOLEAN
    BY <1>6 DEF Update
  <2>3. CASE Conflict(t)
    BY <1>6, <2>2, <2>3 DEF Update
  <2>4. CASE ~Conflict(t)
    <3>1. hole' \in SUBSET {"remade", "stale", "early", "live", "apart", "torn"}
      BY <1>6, <2>4 DEF Update
    <3>2. /\ record' = Current + 1 /\ cache' = Current + 1 /\ meant' = mine[t]
          /\ base' = [base EXCEPT ![t] = Current + 1]
          /\ pc' = [pc EXCEPT ![t] = "recorded"]
      BY <1>6, <2>4 DEF Update
    <3>3. UNCHANGED <<doc, history, reads, mine, edits, roomVars, deletion, starts,
                      accepted>>
      BY <1>6 DEF Update
    <3> HIDE DEF Current
    <3> QED
      BY <2>1, <2>2, <3>1, <3>2, <3>3
  <2> QED
    BY <2>3, <2>4
<1>7. ASSUME NEW t \in Tab, WriteDocument(t) PROVE Kinds'
  BY <1>7 DEF WriteDocument
<1>8. ASSUME NEW t \in Tab, DocumentFails(t) \/ AddVersion(t) PROVE Kinds'
  BY <1>8 DEF DocumentFails, AddVersion, MayKeepVersion
<1>9. ASSUME NEW r \in Room, AskRoom(r) PROVE Kinds'
  BY <1>9 DEF AskRoom
<1>10. ASSUME NEW r \in Room, OpenRoom(r) PROVE Kinds'
  <2>1. CASE doc = NoFile
    BY <1>10, <2>1 DEF OpenRoom
  <2>2. CASE doc # NoFile
    <3>1. hole' \in SUBSET {"remade", "stale", "early", "live", "apart", "torn"}
      BY <1>10, <2>2 DEF OpenRoom
    <3>2. /\ roomDoc' = [roomDoc EXCEPT ![r] = doc] /\ doc \in SUBSET Change
          /\ life' = [life EXCEPT ![r] = "open"]
          /\ holder' = [holder EXCEPT ![r] = TRUE] /\ map' = map
      BY <1>10, <2>2 DEF OpenRoom
    <3> QED
      BY <1>10, <3>1, <3>2 DEF OpenRoom
  <2> QED
    BY <2>1, <2>2
<1>11. ASSUME NEW r \in Room, Come(r) \/ SayHello(r) PROVE Kinds'
  BY <1>11 DEF Come, SayHello
<1>12. ASSUME NEW r \in Room, EditInRoom(r) PROVE Kinds'
  <2>1. <<r, edits[r] + 1>> \in Change
    BY <1>12 DEF EditInRoom, Change, Writer
  <2>2. edits' \in [Writer -> 0 .. MaxEdit]
    BY <1>12 DEF EditInRoom, Writer
  <2>3. roomDoc' \in [Room -> SUBSET Change] /\ dirty' \in [Room -> BOOLEAN]
    BY <1>12, <2>1 DEF EditInRoom
  <2> QED
    BY <1>12, <2>2, <2>3 DEF EditInRoom
<1>13. ASSUME NEW r \in Room, WriteRoomDocument(r) PROVE Kinds'
  <2>1. chain[r][1].doc \in SUBSET Change
    BY <1>13, HeadIsSave DEF WriteRoomDocument
  <2> QED
    BY <1>13, <2>1 DEF WriteRoomDocument
<1>14. ASSUME NEW r \in Room, UpdateByRoom(r) PROVE Kinds'
  <2>1. chain[r][1].doc \in SUBSET Change
    BY <1>14, HeadIsSave DEF UpdateByRoom
  <2>2. Current + 1 \in Nat
    OBVIOUS
  <2> QED
    BY <1>14, <2>1, <2>2 DEF UpdateByRoom
<1>15. ASSUME NEW r \in Room, EndSave(r) \/ SaveFails(r) PROVE Kinds'
  <2>1. Ends(r) /\ dirty' \in [Room -> BOOLEAN]
    BY <1>15, SavesEnd
  <2>2. history' \in BOOLEAN
    BY <1>15 DEF EndSave, SaveFails, MayKeepVersion
  <2>3. /\ chain' \in [Room -> Seq(Save)] /\ leaving' \in [Room -> Nat]
        /\ stage' \in [Room -> {"document", "record", "version"}]
    BY <2>1 DEF Ends
  <2>4. UNCHANGED <<record, doc, cacheVars, tabVars, edits, whoVars, roomDoc,
                    deletion, starts, obsVars>>
    BY <1>15 DEF EndSave, SaveFails
  <2> QED
    BY <2>1, <2>2, <2>3, <2>4
<1>16. ASSUME NEW r \in Room, EndRelease(r) PROVE Kinds'
  <2>1. history' \in BOOLEAN /\ map' \in Room \cup {None}
    BY <1>16 DEF EndRelease, MayKeepVersion
  <2>2. leaving' \in [Room -> Nat]
    BY <1>16 DEF EndRelease
  <2> QED
    BY <1>16, <2>1, <2>2 DEF EndRelease
<1>17. ASSUME \/ \E r \in Room : SaveRoom(r) \/ Leave(r) \/ GiveUp(r)
              \/ DeleteBegins
       PROVE  Kinds'
  <2>1. dirty' \in [Room -> BOOLEAN] /\ chain' \in [Room -> Seq(Save)]
        /\ stage' = stage /\ leaving' \in [Room -> Nat]
    BY <1>17, CallersCall DEF Calls
  <2>2. /\ holder' \in [Room -> BOOLEAN] /\ peers' \in [Room -> BOOLEAN]
        /\ map' \in Room \cup {None} /\ Calm
    BY <1>17, CallersCall
  <2>3. reads' \in SUBSET Nat /\ deletion' \in {"no", "begun", "record", "done"}
    BY <1>17 DEF SaveRoom, Leave, GiveUp, DeleteBegins
  <2> QED
    BY <2>1, <2>2, <2>3 DEF Calm
<1>18. ASSUME DeleteRecord PROVE Kinds'
  BY <1>18 DEF DeleteRecord
<1>19. ASSUME RemoveFiles PROVE Kinds'
  BY <1>19 DEF RemoveFiles
<1>20. ASSUME Restart PROVE Kinds'
  <2>1. \A t \in Tab : AfterEnd(pc[t]) \in {"idle", "ready", "edited", "refused"}
    BY DEF AfterEnd
  <2>2. hole' \in SUBSET {"remade", "stale", "early", "live", "apart", "torn"}
    BY <1>20 DEF Restart
  <2>3. starts' \in 1 .. MaxStart
    BY <1>20 DEF Restart
  <2>4. chain' \in [Room -> Seq(Save)]
    BY <1>20 DEF Restart
  <2> QED
    BY <1>20, <2>1, <2>2, <2>3, <2>4 DEF Restart
<1>21. CASE UNCHANGED vars
  BY <1>21 DEF vars
<1> QED
  BY <1>1, <1>2, <1>3, <1>4, <1>5, <1>6, <1>7, <1>8, <1>9, <1>10, <1>11, <1>12,
     <1>13, <1>14, <1>15, <1>16, <1>17, <1>18, <1>19, <1>20, <1>21
     DEF Next, ByTab, ByPeople, ByRoom

(* Only a room that is opened begins to be one that may still write.        *)
LEMMA RoomsKept ==
  ASSUME Kinds, Unopened, Staged, [Next]_vars
  PROVE  /\ Unopened' /\ Staged'
         /\ \A r \in Room : /\ Alive(r)' => Alive(r) \/ OpenRoom(r)
                            /\ Writing(r)' => Writing(r) \/ AskRoom(r)
<1> DEFINE Fine ==
      /\ Unopened' /\ Staged'
      /\ \A r \in Room : /\ Alive(r)' => Alive(r) \/ OpenRoom(r)
                         /\ Writing(r)' => Writing(r) \/ AskRoom(r)
<1> USE DEF Kinds, Unopened, Staged, Alive, Writing, whoVars, saveVars, roomVars
<1>1. ASSUME UNCHANGED roomVars PROVE Fine
  BY <1>1
<1>2. ASSUME \/ \E v \in reads : FillCache(v)
             \/ \E t \in Tab : ByTab(t)
             \/ DeleteRecord \/ RemoveFiles \/ UNCHANGED vars
      PROVE  Fine
  <2>1. UNCHANGED roomVars
    BY <1>2 DEF FillCache, ByTab, LoadRecord, LoadDocument, Edit, Check, Update,
       WriteDocument, DocumentFails, AddVersion, DeleteRecord, RemoveFiles, vars
  <2> QED
    BY <1>1, <2>1
<1>3. ASSUME NEW r \in Room, AskRoom(r) PROVE Fine
  BY <1>3 DEF AskRoom
<1>4. ASSUME NEW r \in Room, OpenRoom(r) PROVE Fine
  <2>1. /\ life[r] = "opening" /\ UNCHANGED <<peers, saveVars>>
        /\ life' \in {[life EXCEPT ![r] = "new"], [life EXCEPT ![r] = "open"]}
        /\ holder' \in {holder, [holder EXCEPT ![r] = TRUE]}
        /\ holder' # holder => life'[r] = "open"
        /\ map' \in {map, None}
    BY <1>4 DEF OpenRoom
  <2>2. \A q \in Room \ {r} : life'[q] = life[q] /\ holder'[q] = holder[q]
    BY <2>1
  <2>3. \A q \in Room \ {r} : Alive(q)' => Alive(q)
    BY <2>1, <2>2
  <2>4. Unopened' /\ Staged'
    BY <2>1, <2>2
  <2> QED
    BY <1>4, <2>1, <2>2, <2>3, <2>4
<1>5. ASSUME NEW r \in Room, Come(r) PROVE Fine
  BY <1>5 DEF Come
<1>6. ASSUME NEW r \in Room, SayHello(r) PROVE Fine
  BY <1>6 DEF SayHello
<1>7. ASSUME NEW r \in Room, EditInRoom(r) PROVE Fine
  BY <1>7 DEF EditInRoom
<1>8. ASSUME NEW r \in Room, WriteRoomDocument(r) PROVE Fine
  BY <1>8 DEF WriteRoomDocument
<1>9. ASSUME NEW r \in Room, UpdateByRoom(r) PROVE Fine
  BY <1>9 DEF UpdateByRoom
<1>10. ASSUME NEW r \in Room, EndSave(r) \/ SaveFails(r) PROVE Fine
  <2>1. /\ Ends(r) /\ chain[r] # <<>> /\ Kinds'
        /\ \A q \in Room \ {r} : dirty'[q] = dirty[q]
    BY <1>10, SavesEnd, KindsKept DEF Next, ByRoom
  <2>2. UNCHANGED whoVars
    BY <1>10 DEF EndSave, SaveFails
  <2>3. life[r] = "open" /\ Alive(r) /\ Writing(r)
    BY <2>1
  <2>4. Unopened'
    BY <2>1, <2>2, <2>3 DEF Ends
  <2>5. Staged'
    BY <2>1 DEF Ends
  <2> QED
    BY <2>1, <2>2, <2>3, <2>4, <2>5 DEF Ends
<1>11. ASSUME NEW r \in Room, EndRelease(r) PROVE Fine
  BY <1>11 DEF EndRelease
<1>12. ASSUME \/ \E r \in Room : SaveRoom(r) \/ Leave(r) \/ GiveUp(r)
              \/ DeleteBegins
       PROVE  Fine
  <2>1. /\ life' = life /\ map' \in {map, None}
        /\ holder' \in [Room -> BOOLEAN] /\ peers' \in [Room -> BOOLEAN]
        /\ \A r \in Room : (holder'[r] => holder[r]) /\ (peers'[r] => peers[r])
    BY <1>12, CallersCall DEF Calm
  <2>2. CASE UNCHANGED saveVars
    BY <2>1, <2>2
  <2>3. ASSUME NEW r \in Room, life[r] = "open", Alive(r), Calls(r) PROVE Fine
    <3>1. \A q \in Room \ {r} : /\ chain'[q] = chain[q] /\ leaving'[q] = leaving[q]
                                /\ dirty'[q] = dirty[q] /\ stage'[q] = stage[q]
      BY <2>3 DEF Calls
    <3>2. chain[r] # <<>> => chain'[r] # <<>>
      BY <2>3 DEF Calls, Longer, Kept
    <3>3. Staged'
      BY <2>3, <3>1, <3>2 DEF Calls
    <3>4. Unopened'
      BY <2>1, <2>3, <3>1
    <3>5. ASSUME NEW q \in Room, Alive(q)' PROVE Alive(q)
      <4>1. CASE q = r
        BY <2>3, <4>1
      <4>2. CASE q # r
        <5>1. q # None /\ map' = q => map = q
          BY <2>1
        <5> QED
          BY <2>1, <3>1, <3>5, <4>2, <5>1
      <4> QED
        BY <4>1, <4>2
    <3>6. \A q \in Room : Writing(q)' => Writing(q)
      BY <2>1, <2>3, <3>1, <3>5
    <3> QED
      BY <3>3, <3>4, <3>5, <3>6
  <2>4. \/ UNCHANGED saveVars
        \/ \E r \in Room : life[r] = "open" /\ Alive(r) /\ Calls(r)
    BY <1>12, CallersCall
  <2> QED
    BY <2>2, <2>3, <2>4
<1>13. ASSUME Restart PROVE Fine
  BY <1>13 DEF Restart
<1> HIDE DEF Fine, Kinds, Unopened, Staged, Alive, Writing, whoVars, saveVars,
            roomVars
<1>14. Fine
  BY <1>2, <1>3, <1>4, <1>5, <1>6, <1>7, <1>8, <1>9, <1>10, <1>11, <1>12, <1>13
     DEF Next, ByPeople, ByRoom
<1> QED
  BY <1>14 DEF Fine

-----------------------------------------------------------------------------
(* Making a change adds just that one.                                      *)
LEMMA OneMore ==
  ASSUME Kinds, NEW w \in Writer, edits[w] < MaxEdit,
         edits' = [edits EXCEPT ![w] = @ + 1]
  PROVE  /\ Made' = Made \cup {<<w, edits[w] + 1>>}
         /\ <<w, edits[w] + 1>> \notin Made
<1>1. edits[w] \in Nat /\ edits[w] + 1 \in 1 .. MaxEdit
  BY DEF Kinds
<1>2. \A ch \in Change : ch \in Made' <=> ch \in Made \/ ch = <<w, edits[w] + 1>>
  <2> SUFFICES ASSUME NEW v \in Writer, NEW n \in 1 .. MaxEdit
               PROVE  n <= edits'[v] <=> n <= edits[v] \/ <<v, n>> = <<w, edits[w] + 1>>
    BY DEF Made, Change
  <2> QED
    BY <1>1 DEF Kinds
<1>3. <<w, edits[w] + 1>> \in Change
  BY <1>1 DEF Change
<1> QED
  BY <1>1, <1>2, <1>3 DEF Made

(* ...and without one they stay as they are.                                *)
LEMMA NoneMade ==
  ASSUME edits' = edits
  PROVE  Made' = Made
  BY DEF Made

(* No document is mistaken for a missing file.                              *)
LEMMA NoFileIsNone ==
  \A d \in SUBSET Change : d # NoFile /\ \A ch \in Change : ch \notin NoFile
<1>1. \A ch \in Change : ch # <<"none", 0>>
  <2> SUFFICES ASSUME NEW w \in Writer, NEW n \in 1 .. MaxEdit
               PROVE  <<w, n>> # <<"none", 0>>
    BY DEF Change
  <2>1. n # 0
    OBVIOUS
  <2> QED
    BY <2>1
<1>2. \A ch \in Change : ch \notin NoFile
  BY <1>1 DEF NoFile
<1> QED
  BY <1>2 DEF NoFile

(* What a document or a save may come to hold: only what another had, and a *)
(* change that a tab or a room makes in its own document.                   *)
DocMoves ==
  \/ doc' \in {doc, NoFile}
  \/ \E t \in Tab : pc[t] = "recorded" /\ pc'[t] = "written" /\ doc' = mine[t]
  \/ \E r \in Room : chain[r] # <<>> /\ doc' = chain[r][1].doc
MineMoves ==
  \A t \in Tab : \/ mine'[t] = mine[t]
                 \/ mine'[t] = {} /\ pc'[t] = "loading"
                 \/ mine'[t] = doc /\ doc # NoFile /\ pc'[t] = "ready"
                 \/ /\ Edit(t) /\ pc'[t] = "edited"
                    /\ mine'[t] = mine[t] \cup {<<t, edits[t] + 1>>}
RoomDocMoves ==
  \A r \in Room : \/ roomDoc'[r] = roomDoc[r]
                  \/ roomDoc'[r] = {}
                  \/ roomDoc'[r] = doc /\ doc # NoFile
                  \/ /\ EditInRoom(r)
                     /\ roomDoc'[r] = roomDoc[r] \cup {<<r, edits[r] + 1>>}
ChainMoves ==
  \A r \in Room : \A i \in 1 .. Len(chain'[r]) :
    \/ chain'[r][i].doc = roomDoc[r]
    \/ \E j \in 1 .. Len(chain[r]) : chain'[r][i].doc = chain[r][j].doc
PendingMoves ==
  \A t \in Tab : pc'[t] \in Pending => pc[t] \in Pending \/ Edit(t)

LEMMA Moved ==
  ASSUME Kinds, Unopened, Staged, [Next]_vars
  PROVE  DocMoves /\ MineMoves /\ RoomDocMoves /\ ChainMoves /\ PendingMoves
<1> DEFINE Moves == DocMoves /\ MineMoves /\ RoomDocMoves /\ ChainMoves /\ PendingMoves
<1>0. Kinds'
  BY KindsKept
<1> USE DEF Kinds, DocMoves, MineMoves, RoomDocMoves, ChainMoves, PendingMoves,
            Pending, diskVars, cacheVars, tabVars, whoVars, saveVars, roomVars,
            obsVars, Goes
<1>1. ASSUME NEW t \in Tab, LoadRecord(t) \/ Check(t) PROVE Moves
  BY <1>1 DEF LoadRecord, Check
<1>2. ASSUME NEW t \in Tab, LoadDocument(t) PROVE Moves
  <2>1. CASE doc = NoFile
    BY <1>2, <2>1 DEF LoadDocument
  <2>2. CASE doc # NoFile
    <3>1. mine' = [mine EXCEPT ![t] = doc] /\ pc' = [pc EXCEPT ![t] = "ready"]
      BY <1>2, <2>2 DEF LoadDocument
    <3> QED
      BY <1>2, <2>2, <3>1 DEF LoadDocument
  <2> QED
    BY <2>1, <2>2
<1>3. ASSUME NEW t \in Tab, Edit(t) PROVE Moves
  BY <1>3 DEF Edit
<1>4. ASSUME NEW t \in Tab, Update(t) PROVE Moves
  BY <1>4 DEF Update
<1>5. ASSUME NEW t \in Tab, WriteDocument(t) PROVE Moves
  BY <1>5 DEF WriteDocument
<1>6. ASSUME NEW t \in Tab, DocumentFails(t) \/ AddVersion(t) PROVE Moves
  BY <1>6 DEF DocumentFails, AddVersion
<1>7. ASSUME NEW r \in Room, OpenRoom(r) PROVE Moves
  <2>1. CASE doc = NoFile
    BY <1>7, <2>1 DEF OpenRoom
  <2>2. CASE doc # NoFile
    <3>1. roomDoc' = [roomDoc EXCEPT ![r] = doc]
      BY <1>7, <2>2 DEF OpenRoom
    <3> QED
      BY <1>7, <2>2, <3>1 DEF OpenRoom
  <2> QED
    BY <2>1, <2>2
<1>8. ASSUME NEW r \in Room, EditInRoom(r) PROVE Moves
  BY <1>8 DEF EditInRoom
<1>9. ASSUME NEW r \in Room, WriteRoomDocument(r) PROVE Moves
  BY <1>9 DEF WriteRoomDocument
<1>10. ASSUME NEW r \in Room, EndSave(r) \/ SaveFails(r) PROVE Moves
  <2>1. Shorter(r) /\ \A q \in Room \ {r} : chain'[q] = chain[q]
    BY <1>10, SavesEnd DEF Ends
  <2>2. UNCHANGED <<doc, tabVars, edits, roomDoc>>
    BY <1>10 DEF EndSave, SaveFails
  <2>3. Len(chain[r]) \in Nat
    OBVIOUS
  <2>4. \A i \in 1 .. Len(chain'[r]) : /\ i + 1 \in 1 .. Len(chain[r])
                                       /\ chain'[r][i].doc = chain[r][i + 1].doc
    BY <2>1, <2>3 DEF Shorter
  <2>5. ChainMoves
    BY <2>1, <2>4
  <2> QED
    BY <2>2, <2>5
<1>11. ASSUME \/ \E r \in Room : SaveRoom(r) \/ Leave(r) \/ GiveUp(r)
              \/ DeleteBegins
       PROVE  Moves
  <2>1. Calm
    BY <1>11, CallersCall
  <2>2. CASE UNCHANGED saveVars
    BY <2>1, <2>2 DEF Calm
  <2>3. ASSUME NEW r \in Room, Calls(r) PROVE Moves
    <3>1. \A q \in Room \ {r} : chain'[q] = chain[q]
      BY <2>3 DEF Calls
    <3>2. Len(chain[r]) \in Nat
      OBVIOUS
    <3>3. CASE Longer(r)
      <4>1. \A i \in 1 .. Len(chain'[r]) : \/ i = Len(chain[r]) + 1
                                           \/ i \in 1 .. Len(chain[r])
        BY <3>2, <3>3 DEF Longer
      <4>2. ChainMoves
        BY <3>1, <3>3, <4>1 DEF Longer
      <4> QED
        BY <2>1, <4>2 DEF Calm
    <3>4. CASE Kept(r)
      <4>1. ChainMoves
        BY <3>1, <3>4 DEF Kept
      <4> QED
        BY <2>1, <4>1 DEF Calm
    <3> QED
      BY <2>3, <3>3, <3>4 DEF Calls
  <2> QED
    BY <1>11, <2>2, <2>3, CallersCall
<1>12. ASSUME RemoveFiles PROVE Moves
  BY <1>12 DEF RemoveFiles
<1>13. ASSUME Restart PROVE Moves
  BY <1>13 DEF Restart, AfterEnd
<1>14. ASSUME \/ \E v \in reads : FillCache(v)
              \/ \E r \in Room : \/ AskRoom(r) \/ Come(r) \/ SayHello(r)
                                 \/ UpdateByRoom(r) \/ EndRelease(r)
              \/ DeleteRecord
              \/ UNCHANGED vars
       PROVE  Moves
  <2>1. UNCHANGED <<doc, tabVars, edits, roomDoc, chain>>
    BY <1>14 DEF FillCache, AskRoom, Come, SayHello, UpdateByRoom, EndRelease,
       DeleteRecord, vars
  <2> QED
    BY <2>1
<1> HIDE DEF Moves, Kinds, DocMoves, MineMoves, RoomDocMoves, ChainMoves,
             PendingMoves, Pending, diskVars, cacheVars, tabVars, whoVars,
             saveVars, roomVars, obsVars, Goes
<1>15. Moves
  BY <1>1, <1>2, <1>3, <1>4, <1>5, <1>6, <1>7, <1>8, <1>9, <1>10, <1>11, <1>12,
     <1>13, <1>14 DEF Next, ByTab, ByPeople, ByRoom
<1> QED
  BY <1>15 DEF Moves

(* Who makes changes: one tab or one room, one at a time.                   *)
LEMMA Edited ==
  ASSUME Kinds, Unopened, [Next]_vars
  PROVE  \/ edits' = edits
         \/ \E w \in Writer : /\ edits[w] < MaxEdit
                              /\ edits' = [edits EXCEPT ![w] = @ + 1]
                              /\ (w \in Tab /\ Edit(w)) \/ (w \in Room /\ EditInRoom(w))
<1> USE DEF diskVars, cacheVars, tabVars, whoVars, saveVars, roomVars, obsVars
<1>1. ASSUME NEW t \in Tab, ByTab(t) PROVE edits' = edits \/ Edit(t)
  BY <1>1 DEF ByTab, LoadRecord, LoadDocument, Check, Update, WriteDocument,
     DocumentFails, AddVersion
<1>2. ASSUME NEW r \in Room, ByPeople(r) \/ ByRoom(r)
      PROVE  edits' = edits \/ EditInRoom(r)
  BY <1>2 DEF ByPeople, ByRoom, AskRoom, OpenRoom, Come, SayHello, Leave, GiveUp,
     SaveRoom, WriteRoomDocument, UpdateByRoom, EndSave, SaveFails, EndRelease
<1>3. ASSUME \/ \E v \in reads : FillCache(v)
             \/ DeleteBegins \/ DeleteRecord \/ RemoveFiles \/ Restart
             \/ UNCHANGED vars
      PROVE  edits' = edits
  BY <1>3 DEF FillCache, DeleteBegins, DeleteRecord, RemoveFiles, Restart, vars
<1>4. \/ edits' = edits
      \/ \E t \in Tab : Edit(t)
      \/ \E r \in Room : EditInRoom(r)
  BY <1>1, <1>2, <1>3 DEF Next
<1>5. Tab \subseteq Writer /\ Room \subseteq Writer
  BY DEF Writer
<1> QED
  BY <1>4, <1>5 DEF Edit, EditInRoom

(* A document only ever takes in changes that were made.                    *)
LEMMA DocumentsKept ==
  ASSUME Kinds, Unopened, Staged, Documents, [Next]_vars
  PROVE  Documents' /\ Made \subseteq Made'
<1>1. Kinds' /\ DocMoves /\ MineMoves /\ RoomDocMoves /\ ChainMoves
  BY KindsKept, Moved
<1>2. Made \subseteq Made'
  BY Edited, OneMore, NoneMade
<1>3. \A w \in Writer : edits'[w] = edits[w] + 1 => <<w, edits[w] + 1>> \in Made'
  <2> SUFFICES ASSUME NEW w \in Writer, edits'[w] = edits[w] + 1
               PROVE  <<w, edits[w] + 1>> \in Made'
    OBVIOUS
  <2>1. edits[w] + 1 \in 1 .. MaxEdit
    BY <1>1 DEF Kinds
  <2> QED
    BY <2>1 DEF Made, Change
<1>4. doc' \in (SUBSET Made) \cup {NoFile}
  <2>1. ASSUME NEW r \in Room, chain[r] # <<>> PROVE chain[r][1].doc \subseteq Made
    <3>1. 1 \in 1 .. Len(chain[r])
      BY <2>1, HeadIsSave
    <3> QED
      BY <3>1 DEF Documents
  <2> QED
    BY <1>1, <2>1 DEF DocMoves, Documents
<1>5. \A t \in Tab : mine'[t] \subseteq Made'
  <2> TAKE t \in Tab
  <2>1. CASE Edit(t)
    <3>1. mine'[t] = mine[t] \cup {<<t, edits[t] + 1>>} /\ edits'[t] = edits[t] + 1
      BY <2>1 DEF Edit, Kinds, Writer
    <3> QED
      BY <1>2, <1>3, <3>1 DEF Documents, Writer
  <2>2. CASE ~Edit(t)
    BY <1>1, <1>2, <2>2 DEF MineMoves, Documents
  <2> QED
    BY <2>1, <2>2
<1>6. \A r \in Room : roomDoc'[r] \subseteq Made'
  <2> TAKE r \in Room
  <2>1. CASE EditInRoom(r)
    <3>1. /\ roomDoc'[r] = roomDoc[r] \cup {<<r, edits[r] + 1>>}
          /\ edits'[r] = edits[r] + 1
      BY <2>1 DEF EditInRoom, Kinds, Writer
    <3> QED
      BY <1>2, <1>3, <3>1 DEF Documents, Writer
  <2>2. CASE ~EditInRoom(r)
    BY <1>1, <1>2, <2>2 DEF RoomDocMoves, Documents
  <2> QED
    BY <2>1, <2>2
<1>7. \A r \in Room : \A i \in 1 .. Len(chain'[r]) : chain'[r][i].doc \subseteq Made
  BY <1>1 DEF ChainMoves, Documents
<1>8. /\ doc' \in (SUBSET Made') \cup {NoFile}
      /\ \A r \in Room : \A i \in 1 .. Len(chain'[r]) : chain'[r][i].doc \subseteq Made'
  BY <1>2, <1>4, <1>7
<1>9. mine' \in [Tab -> SUBSET Made'] /\ roomDoc' \in [Room -> SUBSET Made']
  BY <1>1, <1>5, <1>6 DEF Kinds
<1> QED
  BY <1>2, <1>8, <1>9 DEF Documents

(* Until its tab writes it, the last change of a tab is with that tab alone. *)
LEMMA UnseenKept ==
  ASSUME Kinds, Unopened, Staged, Documents, Unseen, [Next]_vars
  PROVE  Unseen'
<1>1. DocMoves /\ MineMoves /\ RoomDocMoves /\ ChainMoves /\ PendingMoves
  BY Moved
<1> SUFFICES ASSUME NEW t \in Tab, pc'[t] \in Pending
             PROVE  /\ <<t, edits'[t]>> \in mine'[t] /\ <<t, edits'[t]>> \notin doc'
                    /\ \A u \in Tab \ {t} : <<t, edits'[t]>> \notin mine'[u]
                    /\ \A r \in Room :
                         /\ <<t, edits'[t]>> \notin roomDoc'[r]
                         /\ \A i \in 1 .. Len(chain'[r]) :
                              <<t, edits'[t]>> \notin chain'[r][i].doc
  BY DEF Unseen, Pending
<1>2. CASE Edit(t)
  <2>1. edits[t] + 1 \in 1 .. MaxEdit /\ t \in Writer
    BY <1>2 DEF Edit, Kinds, Writer
  <2>2. <<t, edits[t] + 1>> \notin Made
    BY <1>2, OneMore DEF Edit, Writer
  <2>3. <<t, edits[t] + 1>> \notin NoFile
    BY <2>1, NoFileIsNone DEF Change
  <2>4. /\ edits'[t] = edits[t] + 1 /\ mine'[t] = mine[t] \cup {<<t, edits[t] + 1>>}
        /\ doc' = doc /\ roomDoc' = roomDoc /\ chain' = chain
        /\ \A u \in Tab \ {t} : mine'[u] = mine[u]
    BY <1>2, <2>1 DEF Edit, Kinds, diskVars, roomVars, saveVars
  <2> QED
    BY <2>2, <2>3, <2>4 DEF Documents
<1>3. CASE ~Edit(t)
  <2> DEFINE ch == <<t, edits[t]>>
  <2>1. pc[t] \in Pending
    BY <1>1, <1>3 DEF PendingMoves
  <2>2. edits'[t] = edits[t]
    BY <1>3, Edited DEF Kinds, Writer
  <2>3. ch \in mine[t] /\ edits[t] \in 0 .. MaxEdit
    BY <2>1 DEF Unseen, Kinds, Writer
  <2>4. ch \notin NoFile
    <3>1. ch \in Change
      BY <2>3 DEF Kinds
    <3> QED
      BY <3>1, NoFileIsNone
  <2>5. ch \in mine'[t]
    BY <1>1, <1>3, <2>3 DEF MineMoves, Pending
  <2>6. ch \notin doc'
    <3>1. ASSUME NEW u \in Tab, pc'[u] = "written" PROVE ch \notin mine[u]
      <4>1. u # t
        BY <3>1 DEF Pending
      <4> QED
        BY <2>1, <4>1 DEF Unseen
    <3>2. ASSUME NEW r \in Room, chain[r] # <<>> PROVE ch \notin chain[r][1].doc
      <4>1. 1 \in 1 .. Len(chain[r])
        BY <3>2, HeadIsSave
      <4> QED
        BY <2>1, <4>1 DEF Unseen
    <3> QED
      BY <1>1, <2>1, <2>4, <3>1, <3>2 DEF DocMoves, Unseen
  <2>7. ASSUME NEW u \in Tab \ {t} PROVE ch \notin mine'[u]
    <3>1. ch # <<u, edits[u] + 1>>
      OBVIOUS
    <3>2. ch \notin mine[u] /\ ch \notin doc
      BY <2>1 DEF Unseen
    <3> QED
      BY <1>1, <3>1, <3>2 DEF MineMoves
  <2>8. ASSUME NEW r \in Room PROVE ch \notin roomDoc'[r]
    <3>1. ch # <<r, edits[r] + 1>>
      OBVIOUS
    <3>2. ch \notin roomDoc[r] /\ ch \notin doc
      BY <2>1 DEF Unseen
    <3> QED
      BY <1>1, <3>1, <3>2 DEF RoomDocMoves
  <2>9. ASSUME NEW r \in Room, NEW i \in 1 .. Len(chain'[r])
        PROVE  ch \notin chain'[r][i].doc
    BY <1>1, <2>1 DEF ChainMoves, Unseen
  <2> QED
    BY <2>2, <2>5, <2>6, <2>7, <2>8, <2>9
<1> QED
  BY <1>2, <1>3

-----------------------------------------------------------------------------
(* Only a late read, which hole names, makes the cache differ from the disk; *)
(* and what hole names stays.                                               *)
LEMMA CacheKept ==
  ASSUME Kinds, CacheIsTrue, [Next]_vars
  PROVE  CacheIsTrue' /\ hole \subseteq hole' /\ (late => late')
<1> USE DEF CacheIsTrue, diskVars, cacheVars, tabVars, whoVars, saveVars,
            roomVars, obsVars, Goes, Hole, Put, Current
<1> DEFINE Fine == CacheIsTrue' /\ hole \subseteq hole' /\ (late => late')
<1>1. ASSUME NEW v \in reads, FillCache(v) PROVE Fine
  BY <1>1 DEF FillCache
<1>2. ASSUME NEW t \in Tab, ByTab(t) PROVE Fine
  <2>1. CASE LoadRecord(t) \/ Edit(t) \/ Check(t) \/ WriteDocument(t) \/ AddVersion(t)
    BY <2>1 DEF LoadRecord, Edit, Check, WriteDocument, AddVersion
  <2>2. CASE LoadDocument(t)
    BY <2>2 DEF LoadDocument
  <2>3. CASE Update(t)
    BY <2>3 DEF Update
  <2>4. CASE DocumentFails(t)
    BY <2>4 DEF DocumentFails
  <2> QED
    BY <1>2, <2>1, <2>2, <2>3, <2>4 DEF ByTab
<1>3. ASSUME NEW r \in Room, ByPeople(r) \/ ByRoom(r) PROVE Fine
  <2>1. CASE OpenRoom(r)
    BY <2>1 DEF OpenRoom
  <2>2. CASE UpdateByRoom(r)
    BY <2>2 DEF UpdateByRoom
  <2>3. CASE ~OpenRoom(r) /\ ~UpdateByRoom(r)
    <3>1. UNCHANGED <<record, cache, hole, late>>
      BY <1>3, <2>3 DEF ByPeople, ByRoom, AskRoom, Come, SayHello, EditInRoom,
         Leave, GiveUp, SaveRoom, WriteRoomDocument, EndSave, SaveFails, EndRelease
    <3> QED
      BY <3>1
  <2> QED
    BY <2>1, <2>2, <2>3
<1>4. ASSUME DeleteBegins \/ RemoveFiles \/ UNCHANGED vars PROVE Fine
  BY <1>4 DEF DeleteBegins, RemoveFiles, vars
<1>5. ASSUME DeleteRecord PROVE Fine
  BY <1>5 DEF DeleteRecord
<1>6. ASSUME Restart PROVE Fine
  BY <1>6 DEF Restart
<1> QED
  BY <1>1, <1>2, <1>3, <1>4, <1>5, <1>6 DEF Next

(* But for late writers, failures and an end of the server in between,      *)
(* record and document come and go together.                                *)
LEMMA WholeKept ==
  ASSUME Kinds, Unopened, Staged, CacheIsTrue, Whole, [Next]_vars
  PROVE  Whole'
<1> SUFFICES ASSUME Clean' PROVE Whole'
  BY DEF Whole
<1>1. hole \subseteq hole' /\ (late => late')
  BY CacheKept
<1>2. Clean /\ Current = record
  BY <1>1 DEF Clean, CacheIsTrue, Current
<1>3. /\ \A r \in Room : Writing(r)' => Writing(r) \/ AskRoom(r)
      /\ Kinds'
  BY RoomsKept, KindsKept
<1>4. /\ AtWork => record # NoRecord
      /\ deletion = "record" => record = NoRecord
      /\ record # NoRecord /\ doc = NoFile => \E t \in Tab : pc[t] = "recorded"
      /\ record = NoRecord /\ deletion # "record" => doc = NoFile /\ ~history
  BY <1>2 DEF Whole
<1> USE DEF diskVars, cacheVars, tabVars, whoVars, saveVars, roomVars, obsVars,
            Goes, Hole
<1>5. ASSUME AtWork', ~AtWork
      PROVE  (\E r \in Room : AskRoom(r)) \/ (\E t \in Tab : Update(t) /\ ~Conflict(t))
  <2>1. ASSUME NEW t \in Tab, pc'[t] \in {"recorded", "written"}
        PROVE  \E u \in Tab : Update(u) /\ ~Conflict(u)
    <3>1. pc[t] \notin {"recorded", "written"}
      BY <1>5 DEF AtWork
    <3>2. ASSUME NEW u \in Tab, ByTab(u) PROVE Update(u) /\ ~Conflict(u)
      BY <2>1, <3>1, <3>2 DEF ByTab, LoadRecord, LoadDocument, Edit, Check,
         Update, WriteDocument, DocumentFails, AddVersion, Kinds
    <3>3. ASSUME NEW r \in Room, ByPeople(r) \/ ByRoom(r) PROVE pc' = pc
      BY <3>3 DEF ByPeople, ByRoom, AskRoom, OpenRoom, Come, SayHello, EditInRoom,
         Leave, GiveUp, SaveRoom, WriteRoomDocument, UpdateByRoom, EndSave,
         SaveFails, EndRelease
    <3>4. ASSUME \/ \E v \in reads : FillCache(v)
                 \/ DeleteBegins \/ DeleteRecord \/ RemoveFiles \/ UNCHANGED vars
          PROVE  pc' = pc
      BY <3>4 DEF FillCache, DeleteBegins, DeleteRecord, RemoveFiles, vars
    <3>5. ASSUME Restart PROVE FALSE
      <4>1. AfterEnd(pc[t]) \notin {"recorded", "written"}
        BY <3>1 DEF AfterEnd
      <4> QED
        BY <2>1, <3>5, <4>1 DEF Restart
    <3> QED
      BY <2>1, <3>1, <3>2, <3>3, <3>4, <3>5 DEF Next
  <2> QED
    BY <1>3, <1>5, <2>1 DEF AtWork
<1>6. ASSUME record' = record, deletion' = deletion, UNCHANGED <<doc, history, pc>>
      PROVE  Whole'
  <2>1. AtWork' => AtWork \/ \E r \in Room : AskRoom(r)
    BY <1>5, <1>6 DEF Update, Kinds
  <2>2. (\E r \in Room : AskRoom(r)) => record # NoRecord
    BY <1>2 DEF AskRoom
  <2> QED
    BY <1>4, <1>6, <2>1, <2>2 DEF Whole
<1>7. ASSUME NEW v \in reads, FillCache(v) PROVE Whole'
  BY <1>6, <1>7 DEF FillCache
<1>8. ASSUME NEW t \in Tab, ByTab(t) PROVE Whole'
  <2> USE DEF Kinds
  <2>1. CASE LoadRecord(t) \/ LoadDocument(t) \/ Edit(t) \/ Check(t)
    <3>1. record' = record /\ deletion' = deletion /\ UNCHANGED <<doc, history>>
      BY <2>1 DEF LoadRecord, LoadDocument, Edit, Check
    <3>2. \A u \in Tab : pc'[u] = "recorded" <=> pc[u] = "recorded"
      BY <2>1 DEF LoadRecord, LoadDocument, Edit, Check
    <3>3. AtWork' => AtWork
      BY <1>3, <2>1 DEF LoadRecord, LoadDocument, Edit, Check, AtWork, Writing, Alive
    <3> QED
      BY <1>4, <3>1, <3>2, <3>3 DEF Whole
  <2>2. CASE Update(t) /\ Conflict(t)
    <3>1. record' = record /\ deletion' = deletion /\ UNCHANGED <<doc, history>>
      BY <2>2 DEF Update
    <3>2. \A u \in Tab : pc'[u] = "recorded" <=> pc[u] = "recorded"
      BY <2>2 DEF Update
    <3>3. AtWork' => AtWork
      BY <2>2 DEF Update, AtWork, Writing, Alive
    <3> QED
      BY <1>4, <3>1, <3>2, <3>3 DEF Whole
  <2>3. CASE Update(t) /\ ~Conflict(t)
    <3>1. record' = record + 1 /\ pc' = [pc EXCEPT ![t] = "recorded"]
      BY <1>2, <2>3 DEF Update, Put
    <3>2. deletion # "record" /\ deletion' = deletion
      BY <2>3 DEF Update, Clean
    <3>3. record' # NoRecord /\ pc'[t] = "recorded"
      BY <3>1 DEF NoRecord
    <3> QED
      BY <3>2, <3>3 DEF Whole
  <2>4. CASE WriteDocument(t)
    <3>1. doc' # NoFile /\ record' = record /\ deletion' = deletion
      BY <2>4, NoFileIsNone DEF WriteDocument
    <3>2. AtWork /\ record # NoRecord
      BY <1>4, <2>4 DEF WriteDocument, AtWork
    <3> QED
      BY <1>4, <3>1, <3>2 DEF Whole
  <2>5. CASE DocumentFails(t)
    BY <2>5 DEF DocumentFails, Clean
  <2>6. CASE AddVersion(t)
    <3>1. AtWork /\ record # NoRecord
      BY <1>4, <2>6 DEF AddVersion, AtWork
    <3>2. UNCHANGED <<record, doc, deletion>>
      BY <2>6 DEF AddVersion
    <3>3. \A u \in Tab : pc[u] = "recorded" => pc'[u] = "recorded"
      BY <2>6 DEF AddVersion
    <3> QED
      BY <1>4, <3>1, <3>2, <3>3 DEF Whole
  <2> QED
    BY <1>8, <2>1, <2>2, <2>3, <2>4, <2>5, <2>6 DEF ByTab
<1>9. ASSUME NEW r \in Room, ByPeople(r) \/ ByRoom(r) PROVE Whole'
  <2>1. CASE UNCHANGED <<record, doc, history, pc, deletion>>
    BY <1>6, <2>1
  <2>2. CASE WriteRoomDocument(r)
    <3>1. doc' # NoFile
      BY <2>2, HeadIsSave, NoFileIsNone DEF WriteRoomDocument
    <3>2. AtWork
      BY <2>2 DEF WriteRoomDocument, AtWork, Writing, Alive, Unopened, Kinds
    <3>3. record # NoRecord /\ UNCHANGED <<record, pc, deletion>>
      BY <1>4, <2>2, <3>2 DEF WriteRoomDocument
    <3> QED
      BY <1>4, <3>1, <3>3 DEF Whole
  <2>3. CASE UpdateByRoom(r)
    <3>1. AtWork
      BY <2>3 DEF UpdateByRoom, AtWork, Writing, Alive, Unopened, Kinds
    <3>2. record # NoRecord
      BY <1>4, <3>1
    <3>3. record' = record + 1 /\ UNCHANGED <<doc, history, pc, deletion>>
      BY <1>2, <2>3, <3>2 DEF UpdateByRoom, Put
    <3>4. record' # NoRecord
      BY <3>3 DEF Kinds, NoRecord
    <3> QED
      BY <1>4, <3>2, <3>3, <3>4 DEF Whole
  <2>4. CASE EndSave(r) \/ EndRelease(r)
    <3>1. AtWork
      BY <2>4 DEF EndSave, EndRelease, AtWork, Writing, Alive, Unopened, Kinds
    <3>2. record # NoRecord /\ UNCHANGED <<record, doc, pc, deletion>>
      BY <1>4, <2>4, <3>1 DEF EndSave, EndRelease
    <3> QED
      BY <1>4, <3>2 DEF Whole
  <2> QED
    BY <1>9, <2>1, <2>2, <2>3, <2>4 DEF ByPeople, ByRoom, AskRoom, OpenRoom,
       Come, SayHello, EditInRoom, Leave, GiveUp, SaveRoom, SaveFails
<1>10. ASSUME DeleteBegins PROVE Whole'
  <2>1. record # NoRecord /\ UNCHANGED <<record, doc, history, pc>>
    BY <1>2, <1>10 DEF DeleteBegins
  <2>2. deletion' = "begun"
    BY <1>10 DEF DeleteBegins
  <2> QED
    BY <1>4, <2>1, <2>2 DEF Whole
<1>11. ASSUME DeleteRecord PROVE Whole'
  <2>1. ~AtWork
    BY <1>11 DEF DeleteRecord, Clean
  <2>2. ~AtWork'
    BY <1>11, <2>1 DEF DeleteRecord, AtWork, Writing, Alive
  <2> QED
    BY <1>11, <2>2 DEF DeleteRecord, Whole
<1>12. ASSUME RemoveFiles PROVE Whole'
  <2>1. record = NoRecord /\ ~AtWork
    BY <1>4, <1>12 DEF RemoveFiles
  <2>2. ~AtWork'
    BY <1>12, <2>1 DEF RemoveFiles, AtWork, Writing, Alive
  <2> QED
    BY <1>12, <2>1, <2>2 DEF RemoveFiles, Whole
<1>13. ASSUME Restart PROVE Whole'
  <2>1. deletion # "record" /\ \A t \in Tab : pc[t] # "recorded"
    BY <1>13 DEF Restart, Clean
  <2>2. ~AtWork'
    BY <1>13 DEF Restart, AtWork, Writing, Alive, AfterEnd
  <2>3. UNCHANGED <<record, doc, history>> /\ deletion' \in {"no", deletion}
    BY <1>13 DEF Restart
  <2> QED
    BY <1>4, <2>1, <2>2, <2>3 DEF Whole
<1>14. ASSUME UNCHANGED vars PROVE Whole'
  BY <1>6, <1>14 DEF vars
<1> QED
  BY <1>7, <1>8, <1>9, <1>10, <1>11, <1>12, <1>13, <1>14 DEF Next

(* What the record stands for is handed from one who holds it to the next.  *)
LEMMA CarriedKept ==
  ASSUME Kinds, Unopened, Staged, Unseen, CacheIsTrue, Whole, Carried,
         [Next]_vars
  PROVE  Carried'
<1> SUFFICES ASSUME Sound' PROVE Stored' /\ Roomed' /\ Loaded'
  BY DEF Carried
<1>1. hole \subseteq hole' /\ (late => late')
  BY CacheKept
<1>2. Sound /\ Clean /\ Current = record
  BY <1>1 DEF Sound, Clean, CacheIsTrue, Current
<1>3. Stored /\ Roomed /\ Loaded
  BY <1>2 DEF Carried
<1>4. /\ \A r \in Room : Alive(r)' => Alive(r) \/ OpenRoom(r)
      /\ Unopened' /\ Staged' /\ Kinds'
  BY RoomsKept, KindsKept
<1>5. /\ AtWork => record # NoRecord
      /\ deletion = "record" => record = NoRecord
  BY <1>2 DEF Whole
<1>6. \A r \in Room : Len(chain[r]) \in Nat /\ (chain[r] # <<>> => Alive(r))
  BY DEF Kinds, Alive, Unopened
<1> USE DEF diskVars, cacheVars, tabVars, whoVars, saveVars, roomVars, obsVars,
            Goes, Hole, Put
<1>7. ASSUME UNCHANGED <<record, doc, meant, accepted>>,
             \A t \in Tab : /\ pc'[t] = "recorded" <=> pc[t] = "recorded"
                            /\ pc[t] = "recorded" =>
                                 base'[t] = base[t] /\ mine'[t] = mine[t],
             \A r \in Room : Alive(r)' => Alive(r)
      PROVE  Stored'
  BY <1>3, <1>7 DEF Stored
<1>8. ASSUME UNCHANGED <<doc, meant, roomDoc, chain, stage>>,
             \A r \in Room : Alive(r)' => Alive(r)
      PROVE  Roomed'
  BY <1>3, <1>8 DEF Roomed
<1>9. ASSUME UNCHANGED <<record, tabVars, meant>>
      PROVE  Loaded'
  BY <1>3, <1>9 DEF Loaded
<1>10. ASSUME UNCHANGED <<record, doc, tabVars, meant, accepted, roomDoc, chain, stage>>,
              \A r \in Room : ~OpenRoom(r)
       PROVE  Stored' /\ Roomed' /\ Loaded'
  BY <1>4, <1>7, <1>8, <1>9, <1>10
<1>11. ASSUME NEW v \in reads, FillCache(v) PROVE Stored' /\ Roomed' /\ Loaded'
  <2>1. \A r \in Room : Alive(r)' => Alive(r)
    BY <1>11 DEF FillCache, Alive
  <2> QED
    BY <1>7, <1>8, <1>9, <1>11, <2>1 DEF FillCache
<1>12. ASSUME NEW t \in Tab, ByTab(t) PROVE Stored' /\ Roomed' /\ Loaded'
  <2>0. \A r \in Room : Alive(r)' => Alive(r)
    BY <1>12 DEF ByTab, LoadRecord, LoadDocument, Edit, Check, Update,
       WriteDocument, DocumentFails, AddVersion, Alive
  <2>1. CASE LoadRecord(t) \/ LoadDocument(t) \/ Edit(t) \/ Check(t) \/ AddVersion(t)
    <3>1. UNCHANGED <<record, doc, meant, accepted, roomVars>>
      BY <2>1 DEF LoadRecord, LoadDocument, Edit, Check, AddVersion
    <3>2. \A u \in Tab : /\ pc'[u] = "recorded" <=> pc[u] = "recorded"
                         /\ pc[u] = "recorded" =>
                              base'[u] = base[u] /\ mine'[u] = mine[u]
      BY <2>1 DEF LoadRecord, LoadDocument, Edit, Check, AddVersion, Kinds
    <3>3. Loaded'
      <4>1. CASE LoadRecord(t)
        BY <1>2, <1>3, <4>1 DEF LoadRecord, Loaded, Kinds
      <4>2. CASE LoadDocument(t)
        BY <1>2, <1>3, <4>2 DEF LoadDocument, Loaded, Kinds, Sound
      <4>3. CASE Edit(t)
        BY <1>3, <4>3 DEF Edit, Loaded, Kinds
      <4>4. CASE Check(t)
        BY <1>3, <4>4 DEF Check, Loaded, Kinds
      <4>5. CASE AddVersion(t)
        BY <1>3, <4>5 DEF AddVersion, Loaded, Kinds
      <4> QED
        BY <2>1, <4>1, <4>2, <4>3, <4>4, <4>5
    <3> QED
      BY <1>7, <1>8, <2>0, <3>1, <3>2, <3>3
  <2>2. CASE Update(t) /\ Conflict(t)
    <3>1. UNCHANGED <<record, doc, base, mine, meant, accepted, roomVars>>
      BY <2>2 DEF Update
    <3>2. pc' = [pc EXCEPT ![t] = "refused"] /\ pc[t] \in {"making", "saving"}
      BY <2>2 DEF Update
    <3>3. Loaded'
      BY <1>3, <3>1, <3>2 DEF Loaded, Kinds
    <3>4. \A u \in Tab : pc'[u] = "recorded" <=> pc[u] = "recorded"
      BY <3>2 DEF Kinds
    <3> QED
      BY <1>7, <1>8, <2>0, <3>1, <3>3, <3>4
  <2>3. CASE Update(t) /\ ~Conflict(t)
    <3>1. /\ record' = record + 1 /\ meant' = mine[t]
          /\ base' = [base EXCEPT ![t] = record + 1]
          /\ pc' = [pc EXCEPT ![t] = "recorded"]
          /\ UNCHANGED <<doc, mine, accepted, roomVars>>
      BY <1>2, <2>3 DEF Update
    <3>2. (\A r \in Room : ~Alive(r)) /\ pc[t] \in {"making", "saving"}
      BY <2>3 DEF Update, Sound
    <3>3. record = NoRecord \/ (pc[t] = "saving" /\ base[t] = record)
      BY <1>2, <2>3 DEF Update, Conflict
    <3>4. meant \subseteq mine[t]
      BY <1>3, <3>3 DEF Stored, Loaded
    <3>5. ASSUME NEW u \in Tab \ {t}, pc[u] = "recorded" PROVE FALSE
      <4>1. mine[u] = meant
        BY <1>3, <3>5 DEF Stored
      <4>2. <<u, edits[u]>> \in mine[u] /\ <<u, edits[u]>> \notin mine[t]
        BY <3>5 DEF Unseen, Pending
      <4> QED
        BY <3>4, <4>1, <4>2
    <3>6. record = NoRecord => \A u \in Tab \ {t} : pc[u] \in {"idle", "refused"}
      BY <1>2, <2>3 DEF Update, Sound
    <3>7. \A r \in Room : ~Alive(r)'
      BY <1>4, <2>0, <3>2
    <3>8. record' # NoRecord
      BY <3>1 DEF Kinds, NoRecord
    <3>9. Stored'
      BY <1>3, <3>1, <3>4, <3>5, <3>7, <3>8 DEF Stored, Kinds
    <3>10. Roomed'
      <4>1. \A r \in Room : chain'[r] = <<>> /\ stage'[r] = "document"
        BY <1>4, <3>7 DEF Staged, Alive, Unopened, Kinds
      <4> QED
        BY <3>7, <4>1 DEF Roomed
    <3>11. Loaded'
      <4>1. ASSUME NEW u \in Tab,
                   pc'[u] \in {"loading", "ready", "edited", "making", "saving",
                              "written"}
            PROVE  base'[u] \in Nat /\ base'[u] <= record
        <5>1. u # t /\ pc'[u] = pc[u] /\ base'[u] = base[u]
          BY <3>1, <4>1 DEF Kinds
        <5>2. record # NoRecord
          BY <3>6, <4>1, <5>1
        <5> QED
          BY <1>3, <4>1, <5>1, <5>2 DEF Loaded, Kinds
      <4>2. \A u \in Tab : base'[u] \in Nat /\ base'[u] <= record => base'[u] # record'
        BY <3>1 DEF Kinds
      <4>3. \A u \in Tab : base'[u] \in Nat /\ base'[u] <= record => base'[u] <= record'
        BY <3>1 DEF Kinds
      <4> QED
        BY <4>1, <4>2, <4>3 DEF Loaded
    <3> QED
      BY <3>9, <3>10, <3>11
  <2>4. CASE WriteDocument(t)
    <3>1. /\ mine[t] = meant /\ base[t] = record /\ \A r \in Room : ~Alive(r)
          /\ accepted \subseteq meant
      BY <1>3, <2>4 DEF WriteDocument, Stored
    <3>2. /\ doc' = meant /\ accepted' = accepted \cup meant
          /\ pc' = [pc EXCEPT ![t] = "written"] /\ pc[t] = "recorded"
          /\ UNCHANGED <<record, base, mine, meant, roomVars>>
      BY <2>4, <3>1 DEF WriteDocument
    <3>3. AtWork /\ record # NoRecord
      BY <1>5, <3>2 DEF AtWork
    <3>4. Stored'
      BY <1>3, <2>0, <3>1, <3>2, <3>3 DEF Stored, Kinds
    <3>5. Roomed'
      <4>1. \A r \in Room : chain'[r] = <<>> /\ stage'[r] = "document"
        BY <1>4, <1>6, <3>1, <3>2 DEF Staged, Kinds
      <4> QED
        BY <2>0, <3>1, <4>1 DEF Roomed
    <3>6. Loaded'
      BY <1>3, <3>1, <3>2 DEF Loaded, Kinds
    <3> QED
      BY <3>4, <3>5, <3>6
  <2>5. CASE DocumentFails(t)
    BY <2>5 DEF DocumentFails, Sound
  <2> QED
    BY <1>12, <2>1, <2>2, <2>3, <2>4, <2>5 DEF ByTab
<1>13. ASSUME NEW r \in Room, AskRoom(r) \/ Come(r) \/ SayHello(r) \/ EndRelease(r)
       PROVE  Stored' /\ Roomed' /\ Loaded'
  <2>1. \A q \in Room : ~OpenRoom(q)
    <3>1. ASSUME NEW q \in Room, OpenRoom(q), AskRoom(r) PROVE FALSE
      BY <3>1 DEF OpenRoom, AskRoom, Kinds
    <3>2. ASSUME NEW q \in Room, OpenRoom(q), Come(r) \/ SayHello(r) \/ EndRelease(r)
          PROVE  FALSE
      BY <3>2 DEF OpenRoom, Come, SayHello, EndRelease, Kinds
    <3> QED
      BY <1>13, <3>1, <3>2
  <2> QED
    BY <1>10, <1>13, <2>1 DEF AskRoom, Come, SayHello, EndRelease
<1>14. ASSUME NEW r \in Room, OpenRoom(r) PROVE Stored' /\ Roomed' /\ Loaded'
  <2>1. CASE doc = NoFile
    <3>1. \A q \in Room : Alive(q)' => Alive(q)
      BY <1>14, <2>1 DEF OpenRoom, Alive, Kinds, Unopened
    <3> QED
      BY <1>7, <1>8, <1>9, <1>14, <2>1, <3>1 DEF OpenRoom
  <2>2. CASE doc # NoFile
    <3>1. /\ roomDoc' = [roomDoc EXCEPT ![r] = doc] /\ life[r] = "opening"
          /\ life' = [life EXCEPT ![r] = "open"]
          /\ holder' = [holder EXCEPT ![r] = TRUE] /\ map' = map
          /\ UNCHANGED <<diskVars, tabVars, peers, saveVars, meant, accepted>>
      BY <1>14, <2>2 DEF OpenRoom
    <3>2. (\A t \in Tab : pc[t] # "recorded") /\ \A q \in Room : ~Alive(q)
      BY <1>14, <2>2 DEF OpenRoom, Sound
    <3>3. meant \subseteq doc
      BY <1>3, <3>2 DEF Stored
    <3>4. \A q \in Room \ {r} : ~Alive(q)'
      BY <3>1, <3>2 DEF Alive, Kinds
    <3>5. Stored'
      BY <1>3, <3>1, <3>2 DEF Stored
    <3>6. \A q \in Room : chain'[q] = <<>> /\ stage'[q] = "document"
      BY <1>6, <3>1, <3>2 DEF Staged, Kinds
    <3>7. Roomed'
      <4>1. \A p, q \in Room : Alive(p)' /\ Alive(q)' => p = q
        BY <3>4
      <4>2. \A q \in Room : Alive(q)' => meant \subseteq roomDoc'[q]
        BY <3>1, <3>3, <3>4 DEF Kinds
      <4> QED
        BY <3>1, <3>6, <4>1, <4>2 DEF Roomed
    <3> QED
      BY <1>9, <3>1, <3>5, <3>7
  <2> QED
    BY <2>1, <2>2
<1>15. ASSUME NEW r \in Room, EditInRoom(r) PROVE Stored' /\ Roomed' /\ Loaded'
  <2>1. \A q \in Room : Alive(q)' => Alive(q)
    BY <1>15 DEF EditInRoom, Alive, Kinds, Unopened
  <2>2. /\ \A q \in Room : roomDoc[q] \subseteq roomDoc'[q]
        /\ UNCHANGED <<record, doc, tabVars, meant, accepted, chain, stage>>
    BY <1>15 DEF EditInRoom, Kinds
  <2>3. Roomed'
    BY <1>3, <2>1, <2>2 DEF Roomed
  <2> QED
    BY <1>7, <1>9, <2>1, <2>2, <2>3
<1>16. ASSUME NEW r \in Room, WriteRoomDocument(r) PROVE Stored' /\ Roomed' /\ Loaded'
  <2>1. /\ doc' = chain[r][1].doc /\ chain[r] # <<>> /\ Alive(r)
        /\ stage' = [stage EXCEPT ![r] = "record"]
        /\ UNCHANGED <<record, tabVars, meant, accepted, whoVars, roomDoc, dirty,
                       chain, leaving>>
    BY <1>6, <1>16 DEF WriteRoomDocument
  <2>2. 1 \in 1 .. Len(chain[r]) /\ meant \subseteq doc'
    BY <1>3, <2>1, HeadIsSave DEF Roomed
  <2>3. \A q \in Room : Alive(q)' = Alive(q)
    BY <2>1 DEF Alive
  <2>4. Stored'
    BY <1>3, <2>1, <2>2, <2>3 DEF Stored
  <2>5. \A q \in Room \ {r} : stage'[q] = "document"
    BY <1>3, <1>6, <2>1 DEF Roomed, Staged, Kinds
  <2>6. Roomed'
    BY <1>3, <2>1, <2>3, <2>5 DEF Roomed
  <2> QED
    BY <1>9, <2>1, <2>4, <2>6
<1>17. ASSUME NEW r \in Room, UpdateByRoom(r) PROVE Stored' /\ Roomed' /\ Loaded'
  <2>1. /\ stage[r] = "record" /\ chain[r] # <<>> /\ Alive(r)
        /\ stage' = [stage EXCEPT ![r] = "version"]
        /\ UNCHANGED <<doc, tabVars, whoVars, roomDoc, dirty, chain, leaving>>
    BY <1>6, <1>17 DEF UpdateByRoom
  <2>2. record # NoRecord
    BY <1>5, <2>1 DEF AtWork, Writing
  <2>3. /\ record' = record + 1 /\ meant' = chain[r][1].doc
        /\ accepted' = accepted \cup chain[r][1].doc
    BY <1>2, <1>17, <2>2 DEF UpdateByRoom
  <2>4. doc = chain[r][1].doc /\ 1 \in 1 .. Len(chain[r]) /\ meant \subseteq meant'
    BY <1>3, <2>1, <2>3, HeadIsSave DEF Roomed
  <2>5. \A q \in Room : Alive(q)' = Alive(q)
    BY <2>1 DEF Alive
  <2>6. \A t \in Tab : pc[t] # "recorded"
    BY <1>3, <2>1 DEF Stored
  <2>7. Stored'
    BY <1>3, <2>1, <2>2, <2>3, <2>4, <2>6 DEF Stored, Kinds, NoRecord
  <2>8. \A q \in Room \ {r} : ~Alive(q) /\ chain[q] = <<>>
    BY <1>3, <1>6, <2>1 DEF Roomed
  <2>9. ASSUME NEW i \in 1 .. Len(chain[r])
        PROVE  meant' \subseteq chain[r][i].doc /\ meant' \subseteq roomDoc[r]
    BY <1>3, <2>3, <2>4 DEF Roomed
  <2>10. Roomed'
    <3>1. \A q \in Room : Alive(q)' => meant' \subseteq roomDoc'[q]
      BY <2>1, <2>4, <2>5, <2>8, <2>9
    <3>2. \A q \in Room : \A i \in 1 .. Len(chain'[q]) :
            /\ meant' \subseteq chain'[q][i].doc
            /\ chain'[q][i].doc \subseteq roomDoc'[q]
            /\ \A j \in i .. Len(chain'[q]) : chain'[q][i].doc \subseteq chain'[q][j].doc
      BY <1>3, <2>1, <2>8, <2>9 DEF Roomed
    <3>3. \A q \in Room : stage'[q] # "record"
      BY <2>1, <2>8 DEF Staged, Kinds
    <3> QED
      BY <1>3, <2>5, <3>1, <3>2, <3>3 DEF Roomed
  <2>11. Loaded'
    BY <1>3, <2>1, <2>2, <2>3 DEF Loaded, Kinds
  <2> QED
    BY <2>7, <2>10, <2>11
<1>18. ASSUME NEW r \in Room, EndSave(r) \/ SaveFails(r)
       PROVE  Stored' /\ Roomed' /\ Loaded'
  <2>1. Ends(r) /\ chain[r] # <<>> /\ Alive(r)
    BY <1>6, <1>18, SavesEnd
  <2>2. UNCHANGED <<record, doc, tabVars, roomDoc, life, meant, accepted>>
    BY <1>18 DEF EndSave, SaveFails
  <2>3. \A q \in Room : Alive(q)' => Alive(q)
    <3>1. \A q \in Room : ~OpenRoom(q)
      BY <1>18 DEF EndSave, SaveFails, OpenRoom, Kinds
    <3> QED
      BY <1>4, <3>1
  <2>4. Roomed'
    <3>1. \A q \in Room \ {r} : chain'[q] = chain[q] /\ stage'[q] = stage[q]
      BY <2>1 DEF Ends, Kinds
    <3>2. ASSUME NEW i \in 1 .. Len(chain'[r])
          PROVE  /\ meant \subseteq chain'[r][i].doc
                 /\ chain'[r][i].doc \subseteq roomDoc[r]
                 /\ \A j \in i .. Len(chain'[r]) :
                      chain'[r][i].doc \subseteq chain'[r][j].doc
      <4>1. PICK n \in Nat : n = Len(chain'[r])
        BY <2>1 DEF Ends
      <4>2. Len(chain[r]) \in Nat
        BY <1>6
      <4>3. Len(chain[r]) = n + 1
        BY <2>1, <4>1, <4>2 DEF Ends, Shorter
      <4>4. i \in 1 .. n /\ \A j \in 1 .. n : chain'[r][j].doc = chain[r][j + 1].doc
        BY <2>1, <3>2, <4>1, <4>3 DEF Ends, Shorter
      <4>5. \A j \in i .. Len(chain'[r]) :
              /\ j + 1 \in 1 .. Len(chain[r]) /\ j + 1 \in i + 1 .. Len(chain[r])
              /\ chain'[r][j].doc = chain[r][j + 1].doc
        BY <4>1, <4>3, <4>4
      <4>6. i + 1 \in 1 .. Len(chain[r]) /\ chain'[r][i].doc = chain[r][i + 1].doc
        BY <4>3, <4>4
      <4>7. \A j \in i + 1 .. Len(chain[r]) :
              chain[r][i + 1].doc \subseteq chain[r][j].doc
        BY <1>3, <4>6 DEF Roomed
      <4>8. /\ meant \subseteq chain[r][i + 1].doc
            /\ chain[r][i + 1].doc \subseteq roomDoc[r]
        BY <1>3, <4>6 DEF Roomed
      <4> QED
        BY <4>5, <4>6, <4>7, <4>8
    <3>3. stage'[r] = "document"
      BY <2>1 DEF Ends, Kinds
    <3> QED
      BY <1>3, <2>2, <2>3, <3>1, <3>2, <3>3 DEF Roomed
  <2> QED
    BY <1>7, <1>9, <2>2, <2>3, <2>4
<1>19. ASSUME \/ \E r \in Room : SaveRoom(r) \/ Leave(r) \/ GiveUp(r)
              \/ DeleteBegins
       PROVE  Stored' /\ Roomed' /\ Loaded'
  <2>1. UNCHANGED <<record, doc, tabVars, roomDoc, life, meant, accepted>>
    BY <1>19, CallersCall DEF Calm
  <2>2. \A q \in Room : Alive(q)' => Alive(q)
    <3>1. \A q \in Room : ~OpenRoom(q)
      BY <2>1 DEF OpenRoom, Kinds
    <3> QED
      BY <1>4, <3>1
  <2>3. CASE UNCHANGED saveVars
    BY <1>7, <1>8, <1>9, <2>1, <2>2, <2>3
  <2>4. ASSUME NEW r \in Room, Alive(r), Calls(r) PROVE Roomed'
    <3>1. stage' = stage /\ \A q \in Room \ {r} : chain'[q] = chain[q]
      BY <2>4 DEF Calls
    <3>2. CASE Kept(r)
      BY <1>3, <2>1, <2>2, <3>1, <3>2 DEF Roomed, Kept, Staged
    <3>3. CASE Longer(r)
      <4>1. ASSUME NEW i \in 1 .. Len(chain'[r])
            PROVE  /\ meant \subseteq chain'[r][i].doc
                   /\ chain'[r][i].doc \subseteq roomDoc[r]
                   /\ \A j \in i .. Len(chain'[r]) :
                        chain'[r][i].doc \subseteq chain'[r][j].doc
        <5>1. \A j \in i .. Len(chain'[r]) :
                \/ j = Len(chain[r]) + 1 /\ chain'[r][j].doc = roomDoc[r]
                \/ j \in i .. Len(chain[r]) /\ j \in 1 .. Len(chain[r])
                   /\ chain'[r][j].doc = chain[r][j].doc
          BY <1>6, <3>3, <4>1 DEF Longer
        <5>2. \/ i = Len(chain[r]) + 1 /\ chain'[r][i].doc = roomDoc[r]
              \/ i \in 1 .. Len(chain[r]) /\ chain'[r][i].doc = chain[r][i].doc
          BY <1>6, <3>3, <4>1 DEF Longer
        <5>3. meant \subseteq roomDoc[r]
          BY <1>3, <2>4 DEF Roomed
        <5>4. CASE i = Len(chain[r]) + 1
          BY <1>6, <5>1, <5>2, <5>3, <5>4
        <5>5. CASE i \in 1 .. Len(chain[r])
          BY <1>3, <1>6, <5>1, <5>2, <5>3, <5>5 DEF Roomed
        <5> QED
          BY <5>2, <5>4, <5>5
      <4>2. stage[r] = "record" => doc = chain'[r][1].doc
        <5>1. ASSUME stage[r] = "record" PROVE doc = chain'[r][1].doc
          <6>1. doc = chain[r][1].doc /\ chain[r] # <<>>
            BY <1>3, <5>1 DEF Roomed, Staged
          <6>2. 1 \in 1 .. Len(chain[r])
            BY <6>1, HeadIsSave
          <6> QED
            BY <3>3, <6>1, <6>2 DEF Longer
        <5> QED
          BY <5>1
      <4> QED
        BY <1>3, <2>1, <2>2, <3>1, <4>1, <4>2 DEF Roomed
    <3> QED
      BY <2>4, <3>2, <3>3 DEF Calls
  <2>5. Roomed' \/ UNCHANGED saveVars
    BY <1>19, <2>4, CallersCall
  <2> QED
    BY <1>7, <1>9, <2>1, <2>2, <2>3, <2>5
<1>20. ASSUME DeleteRecord PROVE Stored' /\ Roomed' /\ Loaded'
  <2>1. ~AtWork
    BY <1>20 DEF DeleteRecord, Sound
  <2>2. (\A r \in Room : ~Alive(r)) /\ \A t \in Tab : pc[t] # "recorded"
    BY <2>1 DEF AtWork, Writing
  <2>3. /\ record' = NoRecord /\ accepted' = {} /\ meant' = {}
        /\ UNCHANGED <<doc, tabVars, roomVars>>
    BY <1>20 DEF DeleteRecord
  <2>4. \A r \in Room : ~Alive(r)' /\ chain'[r] = <<>> /\ stage'[r] = "document"
    BY <1>6, <2>2, <2>3 DEF Alive, Staged, Kinds
  <2> QED
    BY <2>2, <2>3, <2>4 DEF Stored, Roomed, Loaded
<1>21. ASSUME RemoveFiles PROVE Stored' /\ Roomed' /\ Loaded'
  <2>1. record = NoRecord /\ ~AtWork
    BY <1>5, <1>21 DEF RemoveFiles
  <2>2. (\A r \in Room : ~Alive(r)) /\ \A t \in Tab : pc[t] # "recorded"
    BY <2>1 DEF AtWork, Writing
  <2>3. UNCHANGED <<record, tabVars, roomVars, meant, accepted>>
    BY <1>21 DEF RemoveFiles
  <2>4. meant = {} /\ accepted = {}
    BY <1>3, <2>1 DEF Stored
  <2>5. \A r \in Room : ~Alive(r)' /\ chain'[r] = <<>> /\ stage'[r] = "document"
    BY <1>6, <2>2, <2>3 DEF Alive, Staged, Kinds
  <2> QED
    BY <2>1, <2>2, <2>3, <2>4, <2>5 DEF Stored, Roomed, Loaded
<1>22. ASSUME Restart PROVE Stored' /\ Roomed' /\ Loaded'
  <2>1. \A t \in Tab : pc[t] # "recorded"
    BY <1>22 DEF Restart, Sound
  <2>2. \A r \in Room : ~Alive(r)' /\ chain'[r] = <<>> /\ stage'[r] = "document"
    BY <1>22 DEF Restart, Alive
  <2>3. UNCHANGED <<record, doc, base, mine, meant, accepted>>
    BY <1>22 DEF Restart
  <2>4. \A t \in Tab : /\ pc'[t] # "recorded"
                       /\ pc'[t] \in {"loading", "ready", "edited", "making",
                                      "saving", "written"}
                            => /\ pc'[t] \in {"ready", "edited"}
                               /\ pc[t] \in {"ready", "edited", "making", "saving"}
    BY <1>22, <2>1 DEF Restart, AfterEnd, Kinds
  <2>5. Stored'
    BY <1>3, <2>1, <2>2, <2>3, <2>4 DEF Stored
  <2>6. Loaded'
    BY <1>3, <2>3, <2>4 DEF Loaded
  <2>7. Roomed'
    BY <2>2 DEF Roomed
  <2> QED
    BY <2>5, <2>6, <2>7
<1>23. ASSUME UNCHANGED vars PROVE Stored' /\ Roomed' /\ Loaded'
  <2>1. \A r \in Room : Alive(r)' => Alive(r)
    BY <1>23 DEF vars, Alive
  <2> QED
    BY <1>7, <1>8, <1>9, <1>23, <2>1 DEF vars
<1> QED
  BY <1>11, <1>12, <1>13, <1>14, <1>15, <1>16, <1>17, <1>18, <1>19, <1>20, <1>21,
     <1>22, <1>23 DEF Next, ByPeople, ByRoom

-----------------------------------------------------------------------------
(* A room never has more saves to make than changes were made in it.        *)
LEMMA FewSavesKept ==
  ASSUME Kinds, Unopened, Staged, FewSaves, [Next]_vars
  PROVE  FewSaves'
<1>0. Kinds'
  BY KindsKept
<1>1. \A r \in Room : /\ Len(chain[r]) \in Nat /\ Len(chain'[r]) \in Nat
                      /\ edits[r] \in Nat /\ edits'[r] \in Nat
                      /\ edits[r] <= edits'[r]
                      /\ Changed(r) \in {0, 1} /\ Changed(r)' \in {0, 1}
  <2> TAKE r \in Room
  <2>1. r \in Writer /\ edits[r] \in Nat /\ edits'[r] \in Nat
    BY <1>0 DEF Kinds, Writer
  <2>2. ASSUME edits' = edits PROVE edits[r] <= edits'[r]
    BY <2>1, <2>2
  <2>3. ASSUME NEW w \in Writer, edits' = [edits EXCEPT ![w] = @ + 1]
        PROVE  edits[r] <= edits'[r]
    BY <2>1, <2>3 DEF Kinds
  <2>4. edits[r] <= edits'[r]
    BY <2>1, <2>2, <2>3, Edited
  <2>5. Changed(r) \in {0, 1} /\ Changed(r)' \in {0, 1}
    BY DEF Changed
  <2> QED
    BY <1>0, <2>1, <2>4, <2>5 DEF Kinds
<1> SUFFICES ASSUME NEW r \in Room PROVE Unsaved(r)' <= edits'[r]
  BY DEF FewSaves
<1>2. Unsaved(r) <= edits[r] /\ Unsaved(r) \in Nat
  <2>1. Unsaved(r) <= edits[r]
    BY DEF FewSaves
  <2>2. Unsaved(r) \in Nat
    BY <1>1 DEF Unsaved
  <2> QED
    BY <2>1, <2>2
<1> USE DEF whoVars, saveVars, roomVars
<1>3. ASSUME UNCHANGED <<dirty, chain>> PROVE Unsaved(r)' <= edits'[r]
  <2>1. Changed(r)' = Changed(r)
    BY <1>3 DEF Changed
  <2> QED
    BY <1>1, <1>2, <1>3, <2>1 DEF Unsaved
<1>4. ASSUME NEW q \in Room, EditInRoom(q) PROVE Unsaved(r)' <= edits'[r]
  <2>1. CASE q = r
    <3>1. edits'[r] = edits[r] + 1 /\ dirty'[r] /\ chain' = chain
      BY <1>4, <2>1 DEF EditInRoom, Kinds, Writer
    <3> QED
      BY <1>1, <1>2, <3>1 DEF Unsaved
  <2>2. CASE q # r
    <3>1. Changed(r)' = Changed(r) /\ chain' = chain
      BY <1>4, <2>2 DEF EditInRoom, Kinds, Changed
    <3> QED
      BY <1>1, <1>2, <3>1 DEF Unsaved
  <2> QED
    BY <2>1, <2>2
<1>5. ASSUME NEW q \in Room, EndSave(q) \/ SaveFails(q) PROVE Unsaved(r)' <= edits'[r]
  <2>1. Ends(q) /\ \A p \in Room \ {q} : dirty'[p] = dirty[p]
    BY <1>5, SavesEnd
  <2>2. CASE q = r
    <3>1. Len(chain'[r]) = Len(chain[r]) - 1
      BY <2>1, <2>2 DEF Ends, Shorter
    <3> QED
      BY <1>1, <1>2, <3>1 DEF Unsaved
  <2>3. CASE q # r
    <3>1. Changed(r)' = Changed(r) /\ chain'[r] = chain[r]
      BY <2>1, <2>3 DEF Ends, Changed
    <3> QED
      BY <1>1, <1>2, <3>1 DEF Unsaved
  <2> QED
    BY <2>2, <2>3
<1>6. ASSUME NEW q \in Room, Calls(q) PROVE Unsaved(r)' <= edits'[r]
  <2>1. CASE q = r
    <3>1. Changed(r)' = 0
      BY <1>6, <2>1 DEF Calls, Changed, Kinds
    <3>2. \/ Changed(r) = 1 /\ Len(chain'[r]) = Len(chain[r]) + 1
          \/ Changed(r) = 0 /\ Len(chain'[r]) = Len(chain[r])
      BY <1>6, <2>1 DEF Calls, Longer, Kept, Changed
    <3> QED
      BY <1>1, <1>2, <3>1, <3>2 DEF Unsaved
  <2>2. CASE q # r
    <3>1. Changed(r)' = Changed(r) /\ chain'[r] = chain[r]
      BY <1>6, <2>2 DEF Calls, Changed, Kinds
    <3> QED
      BY <1>1, <1>2, <3>1 DEF Unsaved
  <2> QED
    BY <2>1, <2>2
<1>7. ASSUME \/ \E q \in Room : SaveRoom(q) \/ Leave(q) \/ GiveUp(q)
             \/ DeleteBegins
      PROVE  Unsaved(r)' <= edits'[r]
  BY <1>3, <1>6, <1>7, CallersCall
<1>8. ASSUME Restart PROVE Unsaved(r)' <= edits'[r]
  <2>1. chain'[r] = <<>> /\ Changed(r)' = 0
    BY <1>8 DEF Restart, Changed
  <2>2. Len(chain'[r]) = 0
    BY <2>1
  <2> QED
    BY <1>1, <2>1, <2>2 DEF Unsaved
<1>9. ASSUME \/ \E v \in reads : FillCache(v)
             \/ \E t \in Tab : ByTab(t)
             \/ \E q \in Room : \/ AskRoom(q) \/ OpenRoom(q) \/ Come(q) \/ SayHello(q)
                                \/ WriteRoomDocument(q) \/ UpdateByRoom(q)
                                \/ EndRelease(q)
             \/ DeleteRecord \/ RemoveFiles \/ UNCHANGED vars
      PROVE  UNCHANGED <<dirty, chain>>
  BY <1>9 DEF FillCache, ByTab, LoadRecord, LoadDocument, Edit, Check, Update,
     WriteDocument, DocumentFails, AddVersion, AskRoom, OpenRoom, Come, SayHello,
     WriteRoomDocument, UpdateByRoom, EndRelease, DeleteRecord, RemoveFiles, vars
<1> HIDE DEF whoVars, saveVars, roomVars
<1> QED
  BY <1>3, <1>4, <1>5, <1>7, <1>8, <1>9 DEF Next, ByPeople, ByRoom

(* There are at most MaxEdit changes of each writer, and at most MaxEdit    *)
(* saves each room owes.                                                    *)
LEMMA HowMany ==
  /\ IsFiniteSet(Made) /\ Cardinality(Made) \in Nat
  /\ Cardinality(Made) <= Cardinality(Writer) * MaxEdit
  /\ Cardinality(Writer) * MaxEdit \in Nat
  /\ \A S \in SUBSET (Room \X (1 .. MaxEdit)) :
       IsFiniteSet(S) /\ Cardinality(S) \in Nat
<1>1. IsFiniteSet(Writer)
  BY FS_Union DEF Writer
<1>2. IsFiniteSet(1 .. MaxEdit) /\ Cardinality(1 .. MaxEdit) = MaxEdit
  BY FS_Interval
<1>3. IsFiniteSet(Change) /\ Cardinality(Change) = Cardinality(Writer) * MaxEdit
  <2>1. /\ IsFiniteSet(Writer \X (1 .. MaxEdit))
        /\ Cardinality(Writer \X (1 .. MaxEdit))
             = Cardinality(Writer) * Cardinality(1 .. MaxEdit)
    BY <1>1, <1>2, FS_Product, Zenon
  <2> QED
    BY <1>2, <2>1 DEF Change
<1>4. Made \subseteq Change
  BY DEF Made
<1>5. IsFiniteSet(Room \X (1 .. MaxEdit))
  BY <1>2, FS_Product, Zenon
<1>7. \A S \in SUBSET (Room \X (1 .. MaxEdit)) :
        IsFiniteSet(S) /\ Cardinality(S) \in Nat
  BY <1>5, FS_Subset, FS_CardinalityType
<1>8. IsFiniteSet(Made) /\ Cardinality(Made) <= Cardinality(Change)
  BY <1>3, <1>4, FS_Subset
<1>9. Cardinality(Made) \in Nat /\ Cardinality(Change) \in Nat
  BY <1>3, <1>8, FS_CardinalityType
<1> QED
  BY <1>3, <1>7, <1>8, <1>9

(* What a room owes is a number from 0 to MaxEdit...                        *)
Small == \A r \in Room : Waiting(r) \in 0 .. MaxEdit

LEMMA WaitingIsSmall == Kinds /\ Staged /\ FewSaves => Small
<1> SUFFICES ASSUME Kinds, Staged, FewSaves, NEW r \in Room
             PROVE  Waiting(r) \in 0 .. MaxEdit
  BY DEF Small
<1>1. /\ Len(chain[r]) \in Nat /\ edits[r] \in 0 .. MaxEdit
      /\ stage[r] = "version" => chain[r] # <<>>
  BY DEF Kinds, Staged, Writer
<1>2. chain[r] # <<>> => Len(chain[r]) >= 1
  BY HeadIsSave
<1>3. Unsaved(r) <= edits[r]
  BY DEF FewSaves
<1>4. /\ Changed(r) \in {0, 1} /\ Versioned(r) \in {0, 1}
      /\ Versioned(r) = 1 => stage[r] = "version"
  BY DEF Changed, Versioned
<1> QED
  BY <1>1, <1>2, <1>3, <1>4 DEF Waiting, Unsaved

(* ...and as it changes, so does the count of them all.                     *)
LEMMA OweMore ==
  ASSUME Small, Small', NEW r \in Room,
         \A q \in Room \ {r} : Waiting(q)' = Waiting(q)
  PROVE  /\ Waiting(r)' = Waiting(r) => Cardinality(Owed') = Cardinality(Owed)
         /\ Waiting(r)' = Waiting(r) + 1
              => Cardinality(Owed') = Cardinality(Owed) + 1
         /\ Waiting(r)' = Waiting(r) - 1
              => Cardinality(Owed') = Cardinality(Owed) - 1
<1>0. /\ Owed \subseteq Room \X (1 .. MaxEdit)
      /\ Owed' \subseteq Room \X (1 .. MaxEdit)
  BY DEF Owed
<1>1. Waiting(r) \in 0 .. MaxEdit /\ Waiting(r)' \in 0 .. MaxEdit
  BY DEF Small
<1>2. /\ IsFiniteSet(Owed) /\ Cardinality(Owed) \in Nat
      /\ IsFiniteSet(Owed') /\ Cardinality(Owed') \in Nat
  BY <1>0, HowMany
<1>4. ASSUME Waiting(r)' = Waiting(r) PROVE Owed' = Owed
  BY <1>4 DEF Owed
<1>5. ASSUME Waiting(r)' = Waiting(r) + 1
      PROVE  /\ Owed' = Owed \cup {<<r, Waiting(r) + 1>>}
             /\ <<r, Waiting(r) + 1>> \notin Owed
  BY <1>1, <1>5 DEF Owed
<1>6. ASSUME Waiting(r)' = Waiting(r) - 1
      PROVE  Owed' = Owed \ {<<r, Waiting(r)>>} /\ <<r, Waiting(r)>> \in Owed
  BY <1>1, <1>6 DEF Owed
<1>7. ASSUME Waiting(r)' = Waiting(r) + 1
      PROVE  Cardinality(Owed') = Cardinality(Owed) + 1
  BY <1>2, <1>5, <1>7, FS_AddElement
<1>8. ASSUME Waiting(r)' = Waiting(r) - 1
      PROVE  Cardinality(Owed') = Cardinality(Owed) - 1
  BY <1>2, <1>6, <1>8, FS_RemoveElement
<1> QED
  BY <1>4, <1>7, <1>8

(* No step takes Most down; a change of a tab, and a version given by a     *)
(* room, take it up.                                                        *)
LEMMA MostGrows ==
  ASSUME Kinds, Unopened, Staged, FewSaves, [Next]_vars
  PROVE  /\ Most \in Int /\ Most' \in Int /\ Most <= Most'
         /\ (\E r \in Room : UpdateByRoom(r)) \/ (\E t \in Tab : Edit(t))
              => Most' = Most + 1
<1> DEFINE c == Cardinality(Made)
           o == Cardinality(Owed)
           Up == (\E r \in Room : UpdateByRoom(r)) \/ (\E t \in Tab : Edit(t))
           Goal == Most <= Most' /\ (Up => Most' = Most + 1)
<1>1. Kinds' /\ Unopened' /\ Staged' /\ FewSaves'
  BY KindsKept, RoomsKept, FewSavesKept
<1>2. Small /\ Small'
  <2>1. Small
    BY WaitingIsSmall
  <2>2. Kinds' /\ Staged' /\ FewSaves' => Small'
    BY WaitingIsSmall, PTL
  <2> QED
    BY <1>1, <2>1, <2>2
<1>3. IsFiniteSet(Made) /\ c \in Nat /\ o \in Nat /\ c' \in Nat /\ o' \in Nat
  <2>1. /\ Owed \in SUBSET (Room \X (1 .. MaxEdit))
        /\ Owed' \in SUBSET (Room \X (1 .. MaxEdit))
    BY DEF Owed
  <2>2. IsFiniteSet(Made')
    <3>1. CASE edits' = edits
      BY <3>1, HowMany, NoneMade
    <3>2. ASSUME NEW w \in Writer, edits[w] < MaxEdit,
                 edits' = [edits EXCEPT ![w] = @ + 1]
          PROVE  IsFiniteSet(Made')
      <4>1. Made' = Made \cup {<<w, edits[w] + 1>>}
        BY <3>2, OneMore
      <4> QED
        BY <4>1, HowMany, FS_AddElement
    <3> QED
      BY <3>1, <3>2, Edited
  <2> QED
    BY <2>1, <2>2, HowMany, FS_CardinalityType
<1>4. Most = 1 + c - o /\ Most' = 1 + c' - o' /\ Most \in Int /\ Most' \in Int
  BY <1>3 DEF Most
<1>5. edits' = edits => c' = c
  BY NoneMade
<1>6. ASSUME NEW w \in Writer, edits[w] < MaxEdit,
             edits' = [edits EXCEPT ![w] = @ + 1]
      PROVE  c' = c + 1
  BY <1>3, <1>6, OneMore, FS_AddElement
<1>7. ASSUME UNCHANGED <<dirty, chain, stage>> PROVE o' = o
  <2>1. \A r \in Room : Waiting(r)' = Waiting(r)
    BY <1>7 DEF Waiting, Unsaved, Changed, Versioned
  <2>2. Owed' = Owed
    BY <2>1 DEF Owed
  <2> QED
    BY <2>2
<1>8. \A r \in Room : /\ Len(chain[r]) \in Nat /\ Len(chain'[r]) \in Nat
                      /\ Changed(r) \in {0, 1} /\ Changed(r)' \in {0, 1}
                      /\ Versioned(r) \in {0, 1} /\ Versioned(r)' \in {0, 1}
  BY <1>1 DEF Kinds, Changed, Versioned
<1> USE DEF whoVars, saveVars, roomVars, diskVars, tabVars
<1> HIDE DEF c, o
<1>9. ASSUME NEW t \in Tab, ByTab(t) PROVE Goal
  <2>1. UNCHANGED <<dirty, chain, stage>> /\ ~\E r \in Room : UpdateByRoom(r)
    <3>1. UNCHANGED <<dirty, chain, stage>>
      BY <1>9 DEF ByTab, LoadRecord, LoadDocument, Edit, Check, Update,
         WriteDocument, DocumentFails, AddVersion
    <3>2. ASSUME NEW r \in Room, UpdateByRoom(r) PROVE FALSE
      BY <3>1, <3>2 DEF UpdateByRoom, Kinds
    <3> QED
      BY <3>1, <3>2
  <2>2. CASE \E u \in Tab : Edit(u)
    <3>1. c' = c + 1
      <4>1. Tab \subseteq Writer
        BY DEF Writer
      <4> QED
        BY <1>6, <2>2, <4>1 DEF Edit
    <3> QED
      BY <1>3, <1>4, <1>7, <2>1, <3>1
  <2>3. CASE ~\E u \in Tab : Edit(u)
    <3>1. edits' = edits
      BY <1>9, <2>3 DEF ByTab, LoadRecord, LoadDocument, Check, Update,
         WriteDocument, DocumentFails, AddVersion
    <3> QED
      BY <1>3, <1>4, <1>5, <1>7, <2>1, <2>3, <3>1
  <2> QED
    BY <2>2, <2>3
<1>10. ASSUME UNCHANGED <<dirty, chain, stage, edits>> PROVE Goal
  <2>1. ASSUME NEW r \in Room, UpdateByRoom(r) PROVE FALSE
    BY <1>10, <2>1 DEF UpdateByRoom, Kinds
  <2>2. ASSUME NEW t \in Tab, Edit(t) PROVE FALSE
    <3>1. t \in Writer /\ edits[t] \in Nat
      BY DEF Kinds, Writer
    <3>2. edits'[t] = edits[t] + 1
      BY <2>2, <3>1 DEF Edit, Kinds
    <3> QED
      BY <1>10, <3>1, <3>2
  <2> QED
    BY <1>3, <1>4, <1>5, <1>7, <1>10, <2>1, <2>2
<1>11. ASSUME edits' = edits, ~Up PROVE o' <= o => Goal
  <2>1. \A i, m, n \in Nat : m <= n => 1 + i - n <= 1 + i - m
    OBVIOUS
  <2>2. o' <= o => Most <= Most'
    BY <1>3, <1>4, <1>5, <1>11, <2>1
  <2> QED
    BY <1>11, <2>2
<1>12. ASSUME NEW r \in Room, EditInRoom(r) PROVE Goal
  <2>1. /\ edits[r] < MaxEdit /\ edits' = [edits EXCEPT ![r] = @ + 1]
        /\ dirty' = [dirty EXCEPT ![r] = TRUE] /\ UNCHANGED <<chain, stage, tabVars>>
    BY <1>12 DEF EditInRoom
  <2>2. r \in Writer
    BY DEF Writer
  <2>3. c' = c + 1
    BY <1>6, <2>1, <2>2
  <2>4. \A q \in Room \ {r} : Waiting(q)' = Waiting(q)
    BY <2>1 DEF Waiting, Unsaved, Changed, Versioned, Kinds
  <2>5. Waiting(r)' = Waiting(r) \/ Waiting(r)' = Waiting(r) + 1
    <3>1. Changed(r)' = 1 /\ Versioned(r)' = Versioned(r) /\ chain'[r] = chain[r]
      BY <2>1 DEF Changed, Versioned, Kinds
    <3> QED
      BY <1>8, <3>1 DEF Waiting, Unsaved
  <2>6. o' = o \/ o' = o + 1
    BY <1>2, <2>4, <2>5, OweMore DEF o
  <2>7. ~Up
    <3>1. \A t \in Tab : ~Edit(t)
      BY <2>1 DEF Edit, Goes, Kinds
    <3>2. \A q \in Room : ~UpdateByRoom(q)
      BY <2>1 DEF UpdateByRoom, Kinds
    <3> QED
      BY <3>1, <3>2
  <2>8. Most <= Most'
    <3>1. \A i, m, n \in Nat : n \in {m, m + 1} => 1 + i - m <= 1 + (i + 1) - n
      OBVIOUS
    <3> QED
      BY <1>3, <1>4, <2>3, <2>6, <3>1
  <2> QED
    BY <2>7, <2>8
<1>13. ASSUME NEW r \in Room, WriteRoomDocument(r) PROVE Goal
  <2>1. /\ stage[r] = "document" /\ stage' = [stage EXCEPT ![r] = "record"]
        /\ UNCHANGED <<dirty, chain, edits, tabVars>>
    BY <1>13 DEF WriteRoomDocument
  <2>2. \A q \in Room : Versioned(q)' = Versioned(q)
    BY <2>1 DEF Versioned, Kinds
  <2>3. Owed' = Owed
    BY <2>1, <2>2 DEF Owed, Waiting, Unsaved, Changed
  <2>4. ~Up
    <3>1. \A t \in Tab : ~Edit(t)
      BY <2>1 DEF Edit, Kinds, Writer
    <3>2. \A q \in Room : ~UpdateByRoom(q)
      BY <2>1 DEF UpdateByRoom, Kinds
    <3> QED
      BY <3>1, <3>2
  <2> QED
    BY <1>3, <1>11, <2>1, <2>3, <2>4 DEF o
<1>14. ASSUME NEW r \in Room, UpdateByRoom(r) PROVE Goal
  <2>1. /\ stage[r] = "record" /\ stage' = [stage EXCEPT ![r] = "version"]
        /\ UNCHANGED <<dirty, chain, edits>>
    BY <1>14 DEF UpdateByRoom
  <2>2. Versioned(r)' = 1 /\ Versioned(r) = 0 /\ chain'[r] = chain[r]
        /\ Changed(r)' = Changed(r)
    BY <2>1 DEF Versioned, Changed, Kinds
  <2>3. Waiting(r)' = Waiting(r) - 1
    BY <1>8, <2>2 DEF Waiting, Unsaved
  <2>4. \A q \in Room \ {r} : Waiting(q)' = Waiting(q)
    BY <2>1 DEF Waiting, Unsaved, Changed, Versioned, Kinds
  <2>5. o' = o - 1
    BY <1>2, <2>3, <2>4, OweMore DEF o
  <2> QED
    BY <1>3, <1>4, <1>5, <2>1, <2>5
<1>15. ASSUME NEW r \in Room, EndSave(r) \/ SaveFails(r) PROVE Goal
  <2>1. /\ Ends(r) /\ \A q \in Room \ {r} : dirty'[q] = dirty[q]
        /\ \/ stage[r] = "version" /\ dirty' = dirty
           \/ stage[r] # "version" /\ dirty'[r]
    BY <1>15, SavesEnd
  <2>2. UNCHANGED <<edits, mine>>
    BY <1>15 DEF EndSave, SaveFails
  <2>3. Len(chain'[r]) = Len(chain[r]) - 1 /\ stage' = [stage EXCEPT ![r] = "document"]
    BY <2>1 DEF Ends, Shorter
  <2>4. \A q \in Room \ {r} : Waiting(q)' = Waiting(q)
    <3> TAKE q \in Room \ {r}
    <3>1. chain'[q] = chain[q] /\ Changed(q)' = Changed(q)
      BY <2>1 DEF Ends, Changed
    <3>2. Versioned(q)' = Versioned(q)
      BY <2>3 DEF Versioned, Kinds
    <3> QED
      BY <3>1, <3>2 DEF Waiting, Unsaved
  <2>5. Waiting(r)' = Waiting(r) \/ Waiting(r)' = Waiting(r) - 1
    <3>1. Versioned(r)' = 0
      BY <2>3 DEF Versioned, Kinds
    <3>2. \/ Versioned(r) = 1 /\ Changed(r)' = Changed(r)
          \/ Versioned(r) = 0 /\ Changed(r)' = 1
      BY <2>1 DEF Versioned, Changed
    <3> QED
      BY <1>8, <2>3, <3>1, <3>2 DEF Waiting, Unsaved
  <2>6. o' = o \/ o' = o - 1
    BY <1>2, <2>4, <2>5, OweMore DEF o
  <2>7. ~Up
    <3>1. \A t \in Tab : ~Edit(t)
      BY <2>2 DEF Edit, Kinds, Writer
    <3>2. \A q \in Room : ~UpdateByRoom(q)
      BY <2>3 DEF UpdateByRoom, Kinds
    <3> QED
      BY <3>1, <3>2
  <2> QED
    BY <1>3, <1>11, <2>2, <2>6, <2>7
<1>16. ASSUME NEW r \in Room, Calls(r), edits' = edits PROVE Goal
  <2>1. /\ stage' = stage /\ \A q \in Room \ {r} : chain'[q] = chain[q]
        /\ dirty' = [dirty EXCEPT ![r] = FALSE]
    BY <1>16 DEF Calls
  <2>2. \A q \in Room \ {r} : Waiting(q)' = Waiting(q)
    BY <2>1 DEF Waiting, Unsaved, Changed, Versioned, Kinds
  <2>3. Waiting(r)' = Waiting(r)
    <3>1. Changed(r)' = 0 /\ Versioned(r)' = Versioned(r)
      BY <2>1 DEF Changed, Versioned, Kinds
    <3>2. \/ Changed(r) = 1 /\ Len(chain'[r]) = Len(chain[r]) + 1
          \/ Changed(r) = 0 /\ Len(chain'[r]) = Len(chain[r])
      BY <1>16 DEF Calls, Longer, Kept, Changed
    <3> QED
      BY <1>8, <3>1, <3>2 DEF Waiting, Unsaved
  <2>4. o' = o
    BY <1>2, <2>2, <2>3, OweMore DEF o
  <2>5. ~Up
    <3>1. \A t \in Tab : ~Edit(t)
      BY <1>16 DEF Edit, Kinds, Writer
    <3>2. \A q \in Room : ~UpdateByRoom(q)
      BY <2>1 DEF UpdateByRoom, Kinds
    <3> QED
      BY <3>1, <3>2
  <2> QED
    BY <1>3, <1>11, <1>16, <2>4, <2>5
<1>17. ASSUME \/ \E r \in Room : SaveRoom(r) \/ Leave(r) \/ GiveUp(r)
              \/ DeleteBegins
       PROVE  Goal
  <2>1. edits' = edits
    BY <1>17, CallersCall DEF Calm
  <2>2. CASE UNCHANGED saveVars
    BY <1>10, <2>1, <2>2
  <2> QED
    BY <1>16, <1>17, <2>1, <2>2, CallersCall
<1>18. ASSUME Restart PROVE Goal
  <2>1. edits' = edits /\ mine' = mine
    BY <1>18 DEF Restart
  <2>2. \A r \in Room : Waiting(r)' = 0
    <3> TAKE r \in Room
    <3>1. chain'[r] = <<>> /\ Changed(r)' = 0 /\ Versioned(r)' = 0
      BY <1>18 DEF Restart, Changed, Versioned
    <3>2. Len(chain'[r]) = 0
      BY <3>1
    <3> QED
      BY <3>1, <3>2 DEF Waiting, Unsaved
  <2>3. Owed' = {}
    BY <2>2 DEF Owed
  <2>4. o' = 0
    BY <2>3, FS_EmptySet DEF o
  <2>5. ~Up
    <3>1. \A t \in Tab : ~Edit(t)
      BY <2>1 DEF Edit, Kinds, Writer
    <3>2. \A q \in Room : ~UpdateByRoom(q)
      BY <1>18 DEF Restart, UpdateByRoom, Kinds
    <3> QED
      BY <3>1, <3>2
  <2> QED
    BY <1>3, <1>11, <2>1, <2>4, <2>5
<1>19. ASSUME \/ \E v \in reads : FillCache(v)
              \/ \E r \in Room : \/ AskRoom(r) \/ OpenRoom(r) \/ Come(r)
                                 \/ SayHello(r) \/ EndRelease(r)
              \/ DeleteRecord \/ RemoveFiles \/ UNCHANGED vars
       PROVE  UNCHANGED <<dirty, chain, stage, edits>>
  BY <1>19 DEF FillCache, AskRoom, OpenRoom, Come, SayHello, EndRelease,
     DeleteRecord, RemoveFiles, vars
<1> HIDE DEF whoVars, saveVars, roomVars, diskVars, tabVars, Goal
<1>20. Goal
  BY <1>9, <1>10, <1>12, <1>13, <1>14, <1>15, <1>17, <1>18, <1>19
     DEF Next, ByPeople, ByRoom
<1> QED
  BY <1>4, <1>20 DEF Goal

(* Whoever gives the next version found one below Most.                     *)
LEMMA NumbersKept ==
  ASSUME Kinds, Unopened, Staged, FewSaves, Numbers, [Next]_vars
  PROVE  Numbers'
<1>0. Most \in Int /\ Most' \in Int /\ Most <= Most'
  BY MostGrows
<1> USE DEF Kinds, Numbers, diskVars, cacheVars, tabVars, obsVars, Goes, Put, Get,
            Current, NoRecord, Uncached
<1>1. ASSUME NEW v \in reads, FillCache(v) PROVE Numbers'
  BY <1>1, <1>0 DEF FillCache
<1>2. ASSUME NEW t \in Tab, LoadRecord(t) PROVE Numbers'
  BY <1>2, <1>0 DEF LoadRecord
<1>3. ASSUME NEW t \in Tab, LoadDocument(t) PROVE Numbers'
  BY <1>3, <1>0 DEF LoadDocument
<1>4. ASSUME NEW t \in Tab, Edit(t) PROVE Numbers'
  <2>1. Most' = Most + 1
    BY <1>4, MostGrows
  <2> QED
    BY <1>0, <1>4, <2>1 DEF Edit
<1>5. ASSUME NEW t \in Tab, Check(t) PROVE Numbers'
  BY <1>5, <1>0 DEF Check
<1>6. ASSUME NEW t \in Tab, Update(t) PROVE Numbers'
  <2>1. base[t] < Most
    BY <1>6 DEF Update
  <2>2. ASSUME Conflict(t) PROVE Numbers'
    BY <1>0, <1>6, <2>2 DEF Update
  <2>3. ASSUME ~Conflict(t) PROVE Numbers'
    <3>1. Current + 1 <= Most'
      BY <1>0, <2>1, <2>3 DEF Conflict
    <3>2. /\ record' = Current + 1 /\ cache' = Current + 1 /\ reads' = reads
          /\ base' = [base EXCEPT ![t] = Current + 1]
          /\ pc' = [pc EXCEPT ![t] = "recorded"]
      BY <1>6, <2>3 DEF Update
    <3> HIDE DEF Current
    <3> QED
      BY <1>0, <3>1, <3>2
  <2> QED
    BY <2>2, <2>3
<1>7. ASSUME NEW t \in Tab, WriteDocument(t) \/ DocumentFails(t) \/ AddVersion(t)
      PROVE  Numbers'
  <2>1. UNCHANGED <<record, cache, reads, base>>
    BY <1>7 DEF WriteDocument, DocumentFails, AddVersion
  <2>2. \A u \in Tab : pc'[u] \in {"edited", "making", "saving"} => pc'[u] = pc[u]
    BY <1>7 DEF WriteDocument, DocumentFails, AddVersion
  <2> QED
    BY <1>0, <2>1, <2>2
<1>8. ASSUME NEW r \in Room, UpdateByRoom(r) PROVE Numbers'
  <2>1. Most' = Most + 1
    BY <1>8, MostGrows
  <2> QED
    BY <1>0, <1>8, <2>1 DEF UpdateByRoom
<1>9. ASSUME NEW r \in Room, ByPeople(r) \/ (ByRoom(r) /\ ~UpdateByRoom(r))
      PROVE  Numbers'
  <2>1. /\ UNCHANGED <<record, cache, pc, base>>
        /\ reads' \subseteq reads \cup {record}
    BY <1>9 DEF ByPeople, ByRoom, AskRoom, OpenRoom, Come, SayHello, EditInRoom,
       Leave, GiveUp, SaveRoom, WriteRoomDocument, EndSave, SaveFails, EndRelease
  <2> QED
    BY <1>0, <2>1
<1>10. ASSUME DeleteBegins \/ DeleteRecord \/ RemoveFiles \/ UNCHANGED vars
       PROVE  Numbers'
  <2>1. /\ record' \in {record, NoRecord} /\ cache' \in {cache, Uncached}
        /\ UNCHANGED <<pc, base>> /\ reads' \subseteq reads \cup {record}
    BY <1>10 DEF DeleteBegins, DeleteRecord, RemoveFiles, vars
  <2>2. 0 <= Most
    BY <1>0
  <2> QED
    BY <1>0, <2>1, <2>2
<1>11. ASSUME Restart PROVE Numbers'
  <2>1. /\ record' = record /\ cache' = Uncached /\ reads' = {} /\ base' = base
        /\ pc' = [t \in Tab |-> AfterEnd(pc[t])]
    BY <1>11 DEF Restart
  <2>2. \A t \in Tab : pc'[t] \in {"edited", "making", "saving"}
                         => pc[t] \in {"edited", "making", "saving"}
    BY <2>1 DEF AfterEnd
  <2> QED
    BY <1>0, <2>1, <2>2
<1> HIDE DEF Kinds, Numbers, diskVars, cacheVars, tabVars, obsVars, Goes, Put, Get,
             Current, NoRecord, Uncached
<1> QED
  BY <1>1, <1>2, <1>3, <1>4, <1>5, <1>6, <1>7, <1>8, <1>9, <1>10, <1>11
     DEF Next, ByTab

-----------------------------------------------------------------------------
(* The inductive invariant.                                                 *)
LEMMA IInvInit == Init => IInv
<1> SUFFICES ASSUME Init PROVE IInv
  OBVIOUS
<1>1. Kinds
  <2>1. 0 \in 0 .. MaxEdit /\ 1 \in 1 .. MaxStart
    OBVIOUS
  <2>2. edits \in [Writer -> 0 .. MaxEdit] /\ starts \in 1 .. MaxStart
    BY <2>1 DEF Init
  <2>3. chain \in [Room -> Seq(Save)] /\ leaving \in [Room -> Nat]
    BY DEF Init
  <2>4. {} \in SUBSET Change
    OBVIOUS
  <2>5. /\ record \in Nat /\ cache \in Nat \cup {Uncached} /\ reads \in SUBSET Nat
        /\ doc \in (SUBSET Change) \cup {NoFile} /\ history \in BOOLEAN
    BY <2>4 DEF Init
  <2>6. /\ pc \in [Tab -> {"idle", "loading", "ready", "edited", "making", "saving",
                            "recorded", "written", "refused"}]
        /\ base \in [Tab -> Nat] /\ mine \in [Tab -> SUBSET Change]
    BY <2>4 DEF Init
  <2>7. /\ map \in Room \cup {None} /\ life \in [Room -> {"new", "opening", "open"}]
        /\ holder \in [Room -> BOOLEAN] /\ peers \in [Room -> BOOLEAN]
        /\ roomDoc \in [Room -> SUBSET Change] /\ dirty \in [Room -> BOOLEAN]
        /\ stage \in [Room -> {"document", "record", "version"}]
    BY <2>4 DEF Init
  <2>8. /\ deletion \in {"no", "begun", "record", "done"} /\ meant \in SUBSET Change
        /\ accepted \in SUBSET Change /\ late \in BOOLEAN /\ hole = {}
    BY <2>4 DEF Init
  <2> QED
    BY <2>2, <2>3, <2>5, <2>6, <2>7, <2>8 DEF Kinds
<1>2. /\ \A r \in Room : chain[r] = <<>> /\ Len(chain[r]) = 0 /\ ~dirty[r]
      /\ \A t \in Tab : pc[t] = "idle"
  BY DEF Init
<1>3. Unopened /\ Staged
  BY <1>2 DEF Init, Unopened, Staged
<1>4. Documents /\ Unseen
  BY <1>2 DEF Init, Documents, Unseen, Pending
<1>5. CacheIsTrue /\ Whole
  <2>1. doc # NoFile
    BY DEF Init, NoFile
  <2>2. record # NoRecord /\ deletion # "record" /\ cache = Uncached
    BY DEF Init, NoRecord
  <2> QED
    BY <2>1, <2>2 DEF Whole, CacheIsTrue
<1>6. Carried
  <2>1. \A r \in Room : ~Alive(r) /\ stage[r] = "document"
    BY DEF Init, Alive
  <2>2. Stored
    BY <1>2 DEF Init, Stored
  <2>3. Roomed
    BY <1>2, <2>1 DEF Roomed
  <2>4. Loaded
    BY <1>2 DEF Loaded
  <2> QED
    BY <2>2, <2>3, <2>4 DEF Carried
<1>7. \A r \in Room : Unsaved(r) = 0 /\ Waiting(r) = 0
  <2> TAKE r \in Room
  <2>1. Changed(r) = 0 /\ Versioned(r) = 0
    BY DEF Init, Changed, Versioned
  <2> QED
    BY <1>2, <2>1 DEF Waiting, Unsaved
<1>8. FewSaves
  BY <1>7 DEF Init, FewSaves, Writer
<1>9. Most \in Int /\ Most >= 1
  <2>1. Owed = {}
    BY <1>7 DEF Owed
  <2>2. Cardinality(Owed) = 0
    BY <2>1, FS_EmptySet
  <2> QED
    BY <2>2, HowMany DEF Most
<1>10. Numbers
  BY <1>2, <1>9 DEF Init, Numbers, Uncached
<1> QED
  BY <1>1, <1>3, <1>4, <1>5, <1>6, <1>8, <1>10 DEF IInv

(* Every step keeps it...                                                   *)
LEMMA IInvStep == IInv /\ [Next]_vars => IInv'
  BY KindsKept, RoomsKept, DocumentsKept, FewSavesKept, NumbersKept, UnseenKept,
     CacheKept, WholeKept, CarriedKept DEF IInv

(* ...and so it always holds.                                               *)
LEMMA IInvAlways == Spec => []IInv
  BY IInvInit, IInvStep, PTL DEF Spec

(* Every variable keeps its type; no version is above one for each change   *)
(* and one for the record it began with: a refused, failed or repeated save *)
(* takes none; and a room has no more saves waiting than changes were made  *)
(* in it (putFile, Room.save).                                              *)
THEOREM StoreTypes == Spec => []TypeOK
<1>1. ASSUME IInv PROVE TypeOK
  <2> USE <1>1 DEF IInv
  <2>1. /\ Cardinality(Made) \in Nat /\ Cardinality(Writer) * MaxEdit \in Nat
        /\ Cardinality(Made) <= Cardinality(Writer) * MaxEdit
    BY HowMany
  <2>2. Owed \in SUBSET (Room \X (1 .. MaxEdit))
    BY DEF Owed
  <2>3. Cardinality(Owed) \in Nat
    BY <2>2, HowMany
  <2>4. \A v \in Nat : v <= Most => v \in Version
    <3> SUFFICES ASSUME NEW v \in Nat, v <= Most PROVE v \in Version
      OBVIOUS
    <3>1. v <= 1 + Cardinality(Made) - Cardinality(Owed)
      BY DEF Most
    <3> QED
      BY <2>1, <2>3, <3>1 DEF Version
  <2>5. /\ record \in Version /\ cache \in Version \cup {Uncached}
        /\ reads \subseteq Version /\ base \in [Tab -> Version]
    BY <2>4 DEF Kinds, Numbers
  <2>6. \A r \in Room : Len(chain[r]) <= MaxEdit
    <3> TAKE r \in Room
    <3>1. Len(chain[r]) \in Nat /\ edits[r] \in 0 .. MaxEdit
      BY DEF Kinds, Writer
    <3>2. Unsaved(r) <= edits[r]
      BY DEF FewSaves
    <3>3. Changed(r) \in {0, 1}
      BY DEF Changed
    <3> QED
      BY <3>1, <3>2, <3>3 DEF Unsaved
  <2> QED
    BY <2>5, <2>6 DEF TypeOK, Kinds
<1> QED
  BY <1>1, IInvAlways, PTL

(* Work reported as saved stays in the file, whoever else saves, outside    *)
(* the ways hole names (putFile, Room.save, release, deleteFile).           *)
THEOREM AcceptedStays == Spec => []AcceptedIsKept
<1>1. IInv => AcceptedIsKept
  BY DEF IInv, Carried, Stored, Sound, AcceptedIsKept
<1> QED
  BY <1>1, IInvAlways, PTL

(* When nobody is writing, a file has a record exactly when it has a        *)
(* document, and no versions without them (deleteFile, sweepBranches,       *)
(* closeAll, Room.save, release).                                           *)
THEOREM DeletionIsWhole == Spec => []DeletedIsGone
<1>1. IInv => DeletedIsGone
  BY DEF IInv, Whole, Clean, Quiet, DeletedIsGone
<1> QED
  BY <1>1, IInvAlways, PTL

(* Each accepted save gives the file the next version (JsonStore.update).   *)
THEOREM VersionsGoUp == Spec => VersionsGrow
<1>1. ASSUME Kinds, CacheIsTrue, [Next]_vars, "stale" \notin hole
      PROVE  record' \in {record, NoRecord, record + 1}
  <2> USE <1>1 DEF CacheIsTrue, Put, Current, NoRecord, Uncached, diskVars
  <2>1. ASSUME NEW t \in Tab, Update(t) PROVE record' \in {record, record + 1}
    BY <2>1 DEF Update
  <2>2. ASSUME NEW r \in Room, UpdateByRoom(r) PROVE record' \in {record, record + 1}
    BY <2>2 DEF UpdateByRoom
  <2>3. DeleteRecord => record' = NoRecord
    BY DEF DeleteRecord
  <2>4. ASSUME NEW t \in Tab, ByTab(t), ~Update(t) PROVE record' = record
    BY <2>4 DEF ByTab, LoadRecord, LoadDocument, Edit, Check, WriteDocument,
       DocumentFails, AddVersion
  <2>5. ASSUME NEW r \in Room, ByPeople(r) \/ ByRoom(r), ~UpdateByRoom(r)
        PROVE  record' = record
    BY <2>5 DEF ByPeople, ByRoom, AskRoom, OpenRoom, Come, SayHello, EditInRoom,
       Leave, GiveUp, SaveRoom, WriteRoomDocument, EndSave, SaveFails, EndRelease
  <2>6. ASSUME \/ \E v \in reads : FillCache(v)
               \/ DeleteBegins \/ RemoveFiles \/ Restart \/ UNCHANGED vars
        PROVE  record' = record
    BY <2>6 DEF FillCache, DeleteBegins, RemoveFiles, Restart, vars
  <2> QED
    BY <1>1, <2>1, <2>2, <2>3, <2>4, <2>5, <2>6 DEF Next
<1>2. IInv /\ [Next]_vars
      => [record' # record /\ record' # NoRecord /\ "stale" \notin hole
            => record' = record + 1]_vars
  BY <1>1 DEF IInv
<1> QED
  BY <1>2, IInvAlways, PTL DEF Spec, VersionsGrow

=============================================================================
