------------------------ MODULE VoiceJobs_proofs ------------------------
(***************************************************************************)
(* Proofs about VoiceJobs, for any finite set of jobs, any uploads, any    *)
(* number of workers, permits, failures and starts: the variables keep     *)
(* their types, every permit is accounted for, the input of a job stays, a *)
(* cancellation in time counts, files match rows, and an end is final.     *)
(*                                                                         *)
(* What the threads rely on without saying so is in Phases: how far the    *)
(* request, the future and the worker of a job can be for a given row.     *)
(***************************************************************************)
EXTENDS VoiceJobs, TLAPS, FiniteSetTheorems

USE JobsAssumption DEF JobsAssumption

(* The row and the threads of one job.  Until it is submitted it has no     *)
(* future and nobody can cancel it; whoever will change its row finds it    *)
(* unfinished; a cancelled future is one whose cancellation is being        *)
(* carried out or failed halfway, or that shutdown cancelled; shutdown      *)
(* leaves no future waiting, and none running in the end.                   *)
Phases == \A j \in Job :
  /\ call[j] \in {"new", "asked", "permit"} => row[j] = "none"
  /\ call[j] = "row" => row[j] = "queued"
  /\ call[j] # "done" => future[j] = "none" /\ j \notin tracked
  /\ future[j] = "running" <=> stage[j] # "idle"
  /\ future[j] = "pending" \/ stage[j] = "start" => row[j] = "queued"
  /\ future[j] = "dropped" => row[j] \in {"queued", "cancelled", "gone"}
  /\ future[j] = "dropped" /\ server \in {"up", "stopping"}
       => busy = j \/ j \in broken
  /\ stage[j] \in {"build", "export"} \cup Ended => row[j] \in Unfinished
  /\ busy = j => call[j] = "done" /\ future[j] = "dropped"
  /\ server \in {"closing", "down"} => future[j] # "pending"
  /\ server = "down" => future[j] # "running"

(* The upload of a job that is being created or has not ended has its row,  *)
(* and with a row its files, which no sweep is about to remove.             *)
Inputs ==
  /\ \A u \in Upload :
       /\ upload[u] = "here" => u \in input
       /\ u \in doomed.uploads => upload[u] = "gone"
  /\ \A j \in Job : Creating(j) \/ row[j] \in Unfinished => upload[Main[j]] = "here"

(* A job cancelled in time is told so before it can complete: its event is  *)
(* set, and it is not past the last look at it.                             *)
Early == \A j \in early :
  /\ call[j] = "done"
  /\ row[j] # "completed" /\ stage[j] \notin {"export", "completed"}
  /\ future[j] \in {"pending", "dropped"} \/ stage[j] \in {"start", "build"}
       => j \in event

(* The result is there from the moment the worker is about to report it,    *)
(* and not before it exports.                                               *)
Files ==
  /\ \A j \in doomed.jobs : row[j] = "gone"
  /\ FilesMatch
  /\ \A j \in Job \ interrupted :
       /\ stage[j] = "completed" => j \in result
       /\ \/ call[j] # "done" \/ future[j] \in {"pending", "dropped"}
          \/ stage[j] \in {"start", "build"}
          => j \notin result

(* The balance of PermitsAccounted; the rest of it is part of Phases.       *)
Balanced == free + leaked + Cardinality({j \in Job : Holds(j)}) = Permits

IInv == TypeOK /\ Phases /\ Inputs /\ Early /\ Files /\ Balanced

-----------------------------------------------------------------------------
(* What a sweep over the rows r does, said pointwise.                        *)
Swept(r) ==
  /\ row' = [j \in Job |-> row'[j]] /\ upload' = [u \in Upload |-> upload'[u]]
  /\ doomed' \in [jobs : SUBSET Job, uploads : SUBSET Upload]
  /\ \A j \in Job : row'[j] = r[j] \/ (r[j] \in Ended /\ row'[j] = "gone")
  /\ \A j \in doomed'.jobs : row'[j] = "gone"
  /\ \A u \in Upload : upload'[u] \in {upload[u], "gone"}
  /\ \A u \in doomed'.uploads : upload'[u] = "gone"
  /\ \A j \in Job :
       r[j] \in Unfinished \/ Creating(j) => upload'[Main[j]] = upload[Main[j]]

LEMMA SweptRows ==
  ASSUME NEW r, NEW fresh, SweepRows(r, fresh)
  PROVE  Swept(r)
<1>1. PICK jobs \in SUBSET {j \in Job \ fresh : r[j] \in Ended},
           ups \in SUBSET {u \in Upload :
                      /\ upload[u] = "here"
                      /\ ~ \E j \in Job :
                           Main[j] = u /\ (r[j] \in Unfinished \/ Creating(j))} :
        /\ row' = [j \in Job |-> IF j \in jobs THEN "gone" ELSE r[j]]
        /\ upload' = [u \in Upload |-> IF u \in ups THEN "gone" ELSE upload[u]]
        /\ doomed' = [jobs |-> jobs, uploads |-> ups]
  BY DEF SweepRows
<1> QED
  BY <1>1 DEF Swept

(* The rows as Restart finds them for its sweep.                            *)
Failed == [j \in Job |-> IF row[j] \in Unfinished THEN "failed" ELSE row[j]]

LEMMA RestartSweeps ==
  ASSUME Restart
  PROVE  Swept(Failed)
<1>1. [j \in Job |-> IF j \in {i \in Job : row[i] \in Unfinished}
                     THEN "failed" ELSE row[j]] = Failed
  BY DEF Failed
<1> QED
  BY <1>1, SweptRows DEF Restart

-----------------------------------------------------------------------------
(* Every step keeps the types; Acquire takes a permit only if one is free.  *)
LEMMA TypeKept ==
  ASSUME TypeOK, [Next]_vars
  PROVE  TypeOK'
<1> USE DEF TypeOK, rowVars, fileVars, memVars, obsVars, Ended, Unfinished,
        GoTo, UpdateRow
<1>1. ASSUME NEW u \in Upload, Save(u) PROVE TypeOK'
  BY <1>1 DEF Save
<1>2. ASSUME NEW k \in Job, Ask(k) PROVE TypeOK'
  BY <1>2 DEF Ask
<1>3. ASSUME NEW k \in Job, Acquire(k) PROVE TypeOK'
  BY <1>3 DEF Acquire
<1>4. ASSUME NEW k \in Job, AddRow(k) PROVE TypeOK'
  BY <1>4 DEF AddRow
<1>5. ASSUME NEW k \in Job, Submit(k) PROVE TypeOK'
  BY <1>5 DEF Submit
<1>6. ASSUME NEW k \in Job, Pick(k) PROVE TypeOK'
  BY <1>6 DEF Pick
<1>7. ASSUME NEW k \in Job, Begin(k) PROVE TypeOK'
  BY <1>7 DEF Begin
<1>8. ASSUME NEW k \in Job, Build(k) PROVE TypeOK'
  BY <1>8 DEF Build
<1>9. ASSUME NEW k \in Job, Export(k) PROVE TypeOK'
  BY <1>9 DEF Export
<1>10. ASSUME NEW k \in Job, Record(k) PROVE TypeOK'
  BY <1>10 DEF Record, RecordFails
<1>11. ASSUME NEW k \in Job, Finally(k) PROVE TypeOK'
  BY <1>11 DEF Finally
<1>12. ASSUME NEW k \in Job, AskCancel(k) PROVE TypeOK'
  BY <1>12 DEF AskCancel
<1>13. ASSUME NEW k \in Job, Cancel(k) PROVE TypeOK'
  BY <1>13 DEF Cancel, Signal, Cancellable
<1>14. ASSUME NEW k \in Job, EndCancel(k) PROVE TypeOK'
  BY <1>14 DEF EndCancel
<1>15. CASE CleanRows
  BY <1>15, SweptRows DEF CleanRows, Swept
<1>16. CASE CleanFiles
  BY <1>16 DEF CleanFiles
<1>17. CASE Stop
  BY <1>17 DEF Stop
<1>18. CASE Close
  BY <1>18 DEF Close
<1>19. CASE Stopped
  BY <1>19 DEF Stopped
<1>20. CASE StartAgain
  BY <1>20, SweptRows DEF StartAgain, Swept
<1>21. CASE Restart
  BY <1>21, RestartSweeps DEF Restart, Swept, Failed
<1>22. CASE UNCHANGED vars
  BY <1>22 DEF vars, rowVars, fileVars, memVars, obsVars
<1> QED
  BY <1>1, <1>2, <1>3, <1>4, <1>5, <1>6, <1>7, <1>8, <1>9, <1>10, <1>11, <1>12,
     <1>13, <1>14, <1>15, <1>16, <1>17, <1>18, <1>19, <1>20, <1>21, <1>22 DEF
     Next, Create, Work

(* Every step keeps each job where its row allows it to be.                 *)
LEMMA PhasesKept ==
  ASSUME TypeOK, Phases, [Next]_vars
  PROVE  Phases'
<1> USE DEF TypeOK, Phases, rowVars, fileVars, memVars, obsVars, Ended,
        Unfinished, GoTo, UpdateRow
<1>1. ASSUME NEW u \in Upload, Save(u) PROVE Phases'
  BY <1>1 DEF Save
<1>2. ASSUME NEW k \in Job, Ask(k) PROVE Phases'
  BY <1>2 DEF Ask
<1>3. ASSUME NEW k \in Job, Acquire(k) PROVE Phases'
  BY <1>3 DEF Acquire
<1>4. ASSUME NEW k \in Job, AddRow(k) PROVE Phases'
  BY <1>4 DEF AddRow
<1>5. ASSUME NEW k \in Job, Submit(k) PROVE Phases'
  BY <1>5 DEF Submit
<1>6. ASSUME NEW k \in Job, Pick(k) PROVE Phases'
  BY <1>6 DEF Pick
<1>7. ASSUME NEW k \in Job, Begin(k) PROVE Phases'
  BY <1>7 DEF Begin
<1>8. ASSUME NEW k \in Job, Build(k) PROVE Phases'
  BY <1>8 DEF Build
<1>9. ASSUME NEW k \in Job, Export(k) PROVE Phases'
  BY <1>9 DEF Export
<1>10. ASSUME NEW k \in Job, Record(k) PROVE Phases'
  BY <1>10 DEF Record, RecordFails
<1>11. ASSUME NEW k \in Job, Finally(k) PROVE Phases'
  BY <1>11 DEF Finally
<1>12. ASSUME NEW k \in Job, AskCancel(k) PROVE Phases'
  BY <1>12 DEF AskCancel
<1>13. ASSUME NEW k \in Job, Cancel(k) PROVE Phases'
  BY <1>13 DEF Cancel, Signal, Cancellable
<1>14. ASSUME NEW k \in Job, EndCancel(k) PROVE Phases'
  BY <1>14 DEF EndCancel
<1>15. CASE CleanRows
  BY <1>15, SweptRows DEF CleanRows, Swept
<1>16. CASE CleanFiles
  BY <1>16 DEF CleanFiles
<1>17. CASE Stop
  BY <1>17 DEF Stop
<1>18. CASE Close
  BY <1>18 DEF Close
<1>19. CASE Stopped
  BY <1>19 DEF Stopped, Running
<1>20. CASE StartAgain
  BY <1>20, SweptRows DEF StartAgain, Swept
<1>21. CASE Restart
  BY <1>21, RestartSweeps DEF Restart, Swept, Failed
<1>22. CASE UNCHANGED vars
  BY <1>22 DEF vars, rowVars, fileVars, memVars, obsVars
<1> QED
  BY <1>1, <1>2, <1>3, <1>4, <1>5, <1>6, <1>7, <1>8, <1>9, <1>10, <1>11, <1>12,
     <1>13, <1>14, <1>15, <1>16, <1>17, <1>18, <1>19, <1>20, <1>21, <1>22 DEF
     Next, Create, Work

(* Only the sweep takes uploads away, and it looks at all unfinished rows   *)
(* and at the requests that have just touched theirs.                       *)
LEMMA InputsStay ==
  ASSUME TypeOK, Phases, Inputs, [Next]_vars
  PROVE  Inputs'
<1> USE DEF TypeOK, Phases, Inputs, Creating, rowVars, fileVars, memVars,
        obsVars, Ended, Unfinished, GoTo, UpdateRow
<1>1. ASSUME NEW u \in Upload, Save(u) PROVE Inputs'
  BY <1>1 DEF Save
<1>2. ASSUME NEW k \in Job, Ask(k) PROVE Inputs'
  BY <1>2 DEF Ask
<1>3. ASSUME NEW k \in Job, Acquire(k) PROVE Inputs'
  BY <1>3 DEF Acquire
<1>4. ASSUME NEW k \in Job, AddRow(k) PROVE Inputs'
  BY <1>4 DEF AddRow
<1>5. ASSUME NEW k \in Job, Submit(k) PROVE Inputs'
  BY <1>5 DEF Submit
<1>6. ASSUME NEW k \in Job, Pick(k) PROVE Inputs'
  BY <1>6 DEF Pick
<1>7. ASSUME NEW k \in Job, Begin(k) PROVE Inputs'
  BY <1>7 DEF Begin
<1>8. ASSUME NEW k \in Job, Build(k) PROVE Inputs'
  BY <1>8 DEF Build
<1>9. ASSUME NEW k \in Job, Export(k) PROVE Inputs'
  BY <1>9 DEF Export
<1>10. ASSUME NEW k \in Job, Record(k) PROVE Inputs'
  BY <1>10 DEF Record, RecordFails
<1>11. ASSUME NEW k \in Job, Finally(k) PROVE Inputs'
  BY <1>11 DEF Finally
<1>12. ASSUME NEW k \in Job, AskCancel(k) PROVE Inputs'
  BY <1>12 DEF AskCancel
<1>13. ASSUME NEW k \in Job, Cancel(k) PROVE Inputs'
  BY <1>13 DEF Cancel, Signal, Cancellable
<1>14. ASSUME NEW k \in Job, EndCancel(k) PROVE Inputs'
  BY <1>14 DEF EndCancel
<1>15. CASE CleanRows
  BY <1>15, SweptRows DEF CleanRows, Swept
<1>16. CASE CleanFiles
  BY <1>16 DEF CleanFiles
<1>17. CASE Stop
  BY <1>17 DEF Stop
<1>18. CASE Close
  BY <1>18 DEF Close
<1>19. CASE Stopped
  BY <1>19 DEF Stopped
<1>20. CASE StartAgain
  BY <1>20, SweptRows DEF StartAgain, Swept
<1>21. CASE Restart
  BY <1>21, RestartSweeps DEF Restart, Swept, Failed
<1>22. CASE UNCHANGED vars
  BY <1>22 DEF vars, rowVars, fileVars, memVars, obsVars
<1> QED
  BY <1>1, <1>2, <1>3, <1>4, <1>5, <1>6, <1>7, <1>8, <1>9, <1>10, <1>11, <1>12,
     <1>13, <1>14, <1>15, <1>16, <1>17, <1>18, <1>19, <1>20, <1>21, <1>22 DEF
     Next, Create, Work

(* Whoever is cancelled in time never gets past Build.                      *)
LEMMA EarlyKept ==
  ASSUME TypeOK, Phases, Early, [Next]_vars
  PROVE  Early'
<1> USE DEF TypeOK, Phases, Early, rowVars, fileVars, memVars, obsVars, Ended,
        Unfinished, GoTo, UpdateRow
<1>1. ASSUME NEW u \in Upload, Save(u) PROVE Early'
  BY <1>1 DEF Save
<1>2. ASSUME NEW k \in Job, Ask(k) PROVE Early'
  BY <1>2 DEF Ask
<1>3. ASSUME NEW k \in Job, Acquire(k) PROVE Early'
  BY <1>3 DEF Acquire
<1>4. ASSUME NEW k \in Job, AddRow(k) PROVE Early'
  BY <1>4 DEF AddRow
<1>5. ASSUME NEW k \in Job, Submit(k) PROVE Early'
  BY <1>5 DEF Submit
<1>6. ASSUME NEW k \in Job, Pick(k) PROVE Early'
  BY <1>6 DEF Pick
<1>7. ASSUME NEW k \in Job, Begin(k) PROVE Early'
  BY <1>7 DEF Begin
<1>8. ASSUME NEW k \in Job, Build(k) PROVE Early'
  BY <1>8 DEF Build
<1>9. ASSUME NEW k \in Job, Export(k) PROVE Early'
  BY <1>9 DEF Export
<1>10. ASSUME NEW k \in Job, Record(k) PROVE Early'
  BY <1>10 DEF Record, RecordFails
<1>11. ASSUME NEW k \in Job, Finally(k) PROVE Early'
  BY <1>11 DEF Finally
<1>12. ASSUME NEW k \in Job, AskCancel(k) PROVE Early'
  BY <1>12 DEF AskCancel
<1>13. ASSUME NEW k \in Job, Cancel(k) PROVE Early'
  BY <1>13 DEF Cancel, Signal, Cancellable, InTime
<1>14. ASSUME NEW k \in Job, EndCancel(k) PROVE Early'
  BY <1>14 DEF EndCancel
<1>15. CASE CleanRows
  BY <1>15, SweptRows DEF CleanRows, Swept
<1>16. CASE CleanFiles
  BY <1>16 DEF CleanFiles
<1>17. CASE Stop
  BY <1>17 DEF Stop, InTime
<1>18. CASE Close
  BY <1>18 DEF Close
<1>19. CASE Stopped
  BY <1>19 DEF Stopped
<1>20. CASE StartAgain
  BY <1>20, SweptRows DEF StartAgain, Swept
<1>21. CASE Restart
  BY <1>21, RestartSweeps DEF Restart, Swept, Failed
<1>22. CASE UNCHANGED vars
  BY <1>22 DEF vars, rowVars, fileVars, memVars, obsVars
<1> QED
  BY <1>1, <1>2, <1>3, <1>4, <1>5, <1>6, <1>7, <1>8, <1>9, <1>10, <1>11, <1>12,
     <1>13, <1>14, <1>15, <1>16, <1>17, <1>18, <1>19, <1>20, <1>21, <1>22 DEF
     Next, Create, Work

(* Files are written before the row that speaks of them, and removed after. *)
LEMMA FilesKept ==
  ASSUME TypeOK, Phases, Files, [Next]_vars
  PROVE  Files'
<1> USE DEF TypeOK, Phases, Files, FilesMatch, rowVars, fileVars, memVars,
        obsVars, Ended, Unfinished, GoTo, UpdateRow
<1>1. ASSUME NEW u \in Upload, Save(u) PROVE Files'
  BY <1>1 DEF Save
<1>2. ASSUME NEW k \in Job, Ask(k) PROVE Files'
  BY <1>2 DEF Ask
<1>3. ASSUME NEW k \in Job, Acquire(k) PROVE Files'
  BY <1>3 DEF Acquire
<1>4. ASSUME NEW k \in Job, AddRow(k) PROVE Files'
  BY <1>4 DEF AddRow
<1>5. ASSUME NEW k \in Job, Submit(k) PROVE Files'
  BY <1>5 DEF Submit
<1>6. ASSUME NEW k \in Job, Pick(k) PROVE Files'
  BY <1>6 DEF Pick
<1>7. ASSUME NEW k \in Job, Begin(k) PROVE Files'
  BY <1>7 DEF Begin
<1>8. ASSUME NEW k \in Job, Build(k) PROVE Files'
  BY <1>8 DEF Build
<1>9. ASSUME NEW k \in Job, Export(k) PROVE Files'
  BY <1>9 DEF Export
<1>10. ASSUME NEW k \in Job, Record(k) PROVE Files'
  BY <1>10 DEF Record, RecordFails
<1>11. ASSUME NEW k \in Job, Finally(k) PROVE Files'
  BY <1>11 DEF Finally
<1>12. ASSUME NEW k \in Job, AskCancel(k) PROVE Files'
  BY <1>12 DEF AskCancel
<1>13. ASSUME NEW k \in Job, Cancel(k) PROVE Files'
  BY <1>13 DEF Cancel, Signal, Cancellable
<1>14. ASSUME NEW k \in Job, EndCancel(k) PROVE Files'
  BY <1>14 DEF EndCancel
<1>15. CASE CleanRows
  BY <1>15, SweptRows DEF CleanRows, Swept
<1>16. CASE CleanFiles
  BY <1>16 DEF CleanFiles
<1>17. CASE Stop
  BY <1>17 DEF Stop
<1>18. CASE Close
  BY <1>18 DEF Close
<1>19. CASE Stopped
  BY <1>19 DEF Stopped
<1>20. CASE StartAgain
  BY <1>20, SweptRows DEF StartAgain, Swept
<1>21. CASE Restart
  BY <1>21, RestartSweeps DEF Restart, Swept, Failed
<1>22. CASE UNCHANGED vars
  BY <1>22 DEF vars, rowVars, fileVars, memVars, obsVars
<1> QED
  BY <1>1, <1>2, <1>3, <1>4, <1>5, <1>6, <1>7, <1>8, <1>9, <1>10, <1>11, <1>12,
     <1>13, <1>14, <1>15, <1>16, <1>17, <1>18, <1>19, <1>20, <1>21, <1>22 DEF
     Next, Create, Work

(* What EndedStaysEnded says of a step.                                     *)
EndsStay == \A j \in Job : row[j] \in Ended => row'[j] \in {row[j], "gone"}

(* Whoever writes a row finds it unfinished, by Phases.                     *)
LEMMA EndsKept ==
  ASSUME TypeOK, Phases, [Next]_vars
  PROVE  EndsStay
<1> USE DEF EndsStay, TypeOK, Phases, Ended, Unfinished
<1>1. ASSUME NEW k \in Job, AddRow(k) PROVE EndsStay
  BY <1>1 DEF AddRow
<1>2. ASSUME NEW k \in Job, Begin(k) PROVE EndsStay
  BY <1>2 DEF Begin, UpdateRow
<1>3. ASSUME NEW k \in Job, Record(k) PROVE EndsStay
  BY <1>3 DEF Record, RecordFails, UpdateRow
<1>4. ASSUME NEW k \in Job, Cancel(k) PROVE EndsStay
  BY <1>4 DEF Cancel, Signal, Cancellable, UpdateRow
<1>5. CASE CleanRows \/ StartAgain
  BY <1>5, SweptRows DEF CleanRows, StartAgain, Swept
<1>6. CASE Restart
  BY <1>6, RestartSweeps DEF Swept, Failed
<1>7. ASSUME NEW k \in Job,
             \/ Ask(k) \/ Acquire(k) \/ Submit(k) \/ Pick(k) \/ Build(k)
             \/ Export(k) \/ Finally(k) \/ AskCancel(k) \/ EndCancel(k)
      PROVE  row' = row
  BY <1>7 DEF Ask, Acquire, Submit, Pick, Build, Export, Finally, AskCancel,
     EndCancel, rowVars
<1>8. (\E u \in Upload : Save(u)) \/ CleanFiles \/ Stop \/ Close \/ Stopped
        \/ UNCHANGED vars => row' = row
  BY DEF Save, CleanFiles, Stop, Close, Stopped, vars, rowVars
<1>9. CASE row' = row
  BY <1>9
<1> QED
  BY <1>1, <1>2, <1>3, <1>4, <1>5, <1>6, <1>7, <1>8, <1>9 DEF Next, Create, Work

-----------------------------------------------------------------------------
(* Permits.  Held are the jobs that hold one.  A step leaves them alone,     *)
(* takes one for job k, returns that of job k, or loses a free one.          *)
Held == {j \in Job : Holds(j)}

SameHold == \A j \in Job : Holds(j)' <=> Holds(j)
OthersHold(k) == \A j \in Job \ {k} : Holds(j)' <=> Holds(j)

Keeps == SameHold /\ free' = free /\ leaked' = leaked
Loses == SameHold /\ free' = free - 1 /\ leaked' = leaked + 1
Takes(k) == /\ ~Holds(k) /\ Holds(k)' /\ OthersHold(k)
            /\ free' = free - 1 /\ leaked' = leaked
Returns(k) == /\ Holds(k) /\ ~Holds(k)' /\ OthersHold(k)
              /\ free' = free + 1 /\ leaked' = leaked

(* A step keeps the balance when it changes who holds a permit and the rest *)
(* of the permits by the same number.                                       *)
LEMMA Balance ==
  ASSUME TypeOK, Balanced,
         Keeps \/ Loses \/ \E k \in Job : Takes(k) \/ Returns(k)
  PROVE  Balanced'
<1>1. IsFiniteSet(Held)
  BY FS_Subset DEF Held
<1>2. PICK c \in Nat : c = Cardinality(Held)
  BY <1>1, FS_CardinalityType
<1>3. free \in Nat /\ leaked \in Nat
  BY DEF TypeOK
<1>4. free + leaked + c = Permits
  BY <1>2 DEF Balanced, Held
<1>5. SUFFICES free' + leaked' + Cardinality(Held') = Permits
  BY DEF Balanced, Held
<1>6. CASE Keeps \/ Loses
  <2>1. Held' = Held
    BY <1>6 DEF Keeps, Loses, SameHold, Held
  <2>2. Cardinality(Held') = c
    BY <1>2, <2>1
  <2>3. free' + leaked' + c = Permits
    <3>1. (free - 1) + (leaked + 1) + c = Permits
      BY <1>3, <1>4
    <3> QED
      BY <1>4, <1>6, <3>1 DEF Keeps, Loses
  <2> QED
    BY <2>2, <2>3
<1>7. ASSUME NEW k \in Job, Takes(k)
      PROVE  free' + leaked' + Cardinality(Held') = Permits
  <2>1. Held' = Held \cup {k} /\ k \notin Held
    BY <1>7 DEF Takes, OthersHold, Held
  <2>2. Cardinality(Held') = c + 1
    BY <1>1, <1>2, <2>1, FS_AddElement
  <2>3. (free - 1) + leaked + (c + 1) = Permits
    BY <1>3, <1>4
  <2> QED
    BY <1>7, <2>2, <2>3 DEF Takes
<1>8. ASSUME NEW k \in Job, Returns(k)
      PROVE  free' + leaked' + Cardinality(Held') = Permits
  <2>1. Held' = Held \ {k} /\ k \in Held
    BY <1>8 DEF Returns, OthersHold, Held
  <2>2. Cardinality(Held') = c - 1
    BY <1>1, <1>2, <2>1, FS_RemoveElement
  <2>3. (free + 1) + leaked + (c - 1) = Permits
    BY <1>3, <1>4
  <2> QED
    BY <1>8, <2>2, <2>3 DEF Returns
<1> QED
  BY <1>6, <1>7, <1>8

(* Nobody holds a permit when the service starts.                           *)
LEMMA StartBalance ==
  ASSUME StartAgain \/ Restart, TypeOK, Phases
  PROVE  Balanced'
<1>1. \A j \in Job : ~Holds(j)'
  BY DEF StartAgain, Restart, TypeOK, Phases, Holds
<1>2. free' = Permits /\ leaked' = 0
  BY DEF StartAgain, Restart
<1>3. {j \in Job : Holds(j)}' = {}
  BY <1>1
<1> QED
  BY <1>2, <1>3, FS_EmptySet DEF Balanced

(* Every step that takes a permit, gives one back or passes it on.          *)
LEMMA PermitsKept ==
  ASSUME TypeOK, TypeOK', Phases, Balanced, [Next]_vars
  PROVE  Balanced'
<1> USE DEF rowVars, fileVars, memVars, obsVars
<1>1. ASSUME NEW k \in Job, Acquire(k) PROVE Keeps \/ Takes(k) \/ Loses
  <2>1. ~Holds(k) /\ OthersHold(k)
    BY <1>1 DEF Acquire, TypeOK, Phases, Holds, OthersHold
  <2>2. CASE free' = free /\ leaked' = leaked
    BY <1>1, <2>1, <2>2 DEF Acquire, TypeOK, Phases, Holds, Keeps, SameHold,
       OthersHold
  <2>3. CASE call'[k] = "permit" /\ free' = free - 1 /\ leaked' = leaked
    BY <2>1, <2>3 DEF Holds, Takes
  <2>4. CASE call'[k] = "new" /\ free' = free - 1 /\ leaked' = leaked + 1
    BY <1>1, <2>1, <2>4 DEF Acquire, TypeOK, Phases, Holds, Loses, SameHold,
       OthersHold
  <2> QED
    BY <1>1, <2>2, <2>3, <2>4 DEF Acquire, TypeOK
<1>2. ASSUME NEW k \in Job, AddRow(k) PROVE Keeps \/ Returns(k)
  BY <1>2 DEF AddRow, TypeOK, Phases, Holds, Keeps, SameHold, Returns,
     OthersHold
<1>3. ASSUME NEW k \in Job, Submit(k) PROVE Keeps \/ Returns(k)
  BY <1>3 DEF Submit, TypeOK, Phases, Holds, Keeps, SameHold, Returns,
     OthersHold
<1>4. ASSUME NEW k \in Job, Finally(k) PROVE Returns(k)
  BY <1>4 DEF Finally, GoTo, TypeOK, Phases, Holds, Returns, OthersHold
<1>5. ASSUME NEW k \in Job, Cancel(k) PROVE Keeps
  BY <1>5 DEF Cancel, Signal, Cancellable, TypeOK, Phases, Holds, Keeps, SameHold
<1>6. ASSUME NEW k \in Job, EndCancel(k) PROVE Keeps \/ Returns(k)
  BY <1>6 DEF EndCancel, TypeOK, Phases, Holds, Keeps, SameHold, Returns,
     OthersHold
<1>7. ASSUME NEW k \in Job, Pick(k) PROVE Keeps
  BY <1>7 DEF Pick, TypeOK, Holds, Keeps, SameHold
<1>8. ASSUME NEW k \in Job,
             Begin(k) \/ Build(k) \/ Export(k) \/ Record(k) \/ AskCancel(k)
      PROVE  Keeps
  BY <1>8 DEF Begin, Build, Export, Record, RecordFails, AskCancel, Holds, Keeps, SameHold
<1>9. ASSUME NEW k \in Job, Ask(k) PROVE Keeps
  BY <1>9 DEF Ask, TypeOK, Phases, Holds, Keeps, SameHold
<1>10. Close => Keeps
  BY DEF Close, TypeOK, Holds, Keeps, SameHold
<1>11. (\E u \in Upload : Save(u)) \/ CleanRows \/ CleanFiles \/ Stop \/ Stopped
         \/ UNCHANGED vars => Keeps
  BY DEF Save, CleanRows, CleanFiles, Stop, Stopped, Holds, Keeps, SameHold,
     vars
<1>12. ASSUME NEW k \in Job,
              \/ Ask(k) \/ Create(k) \/ Pick(k) \/ Work(k)
              \/ AskCancel(k) \/ Cancel(k) \/ EndCancel(k)
       PROVE  Keeps \/ Loses \/ Takes(k) \/ Returns(k)
  BY <1>12, <1>1, <1>2, <1>3, <1>4, <1>5, <1>6, <1>7, <1>8, <1>9 DEF Create,
     Work
<1>13. \/ Keeps \/ Loses \/ \E k \in Job : Takes(k) \/ Returns(k)
       \/ StartAgain \/ Restart
  BY <1>10, <1>11, <1>12 DEF Next
<1> QED
  BY <1>13, Balance, StartBalance

-----------------------------------------------------------------------------
(* The inductive invariant.                                                 *)
LEMMA IInvInit == Init => IInv
<1> SUFFICES ASSUME Init PROVE IInv
  OBVIOUS
<1>1. TypeOK /\ Phases /\ Inputs /\ Early /\ Files
  BY DEF Init, TypeOK, Phases, Inputs, Early, Files, FilesMatch, Creating,
     Ended, Unfinished
<1>2. {j \in Job : Holds(j)} = {}
  BY DEF Init, Holds
<1>3. Balanced
  BY <1>2, FS_EmptySet DEF Init, Balanced
<1> QED
  BY <1>1, <1>3 DEF IInv

LEMMA IInvStep == IInv /\ [Next]_vars => IInv'
<1> SUFFICES ASSUME IInv, [Next]_vars PROVE IInv'
  OBVIOUS
<1>1. TypeOK'
  BY TypeKept DEF IInv
<1> QED
  BY <1>1, PhasesKept, InputsStay, EarlyKept, FilesKept, PermitsKept DEF IInv

LEMMA IInvAlways == Spec => []IInv
  BY IInvInit, IInvStep, PTL DEF Spec

(* Every variable keeps its type: in particular a permit is never taken     *)
(* from an empty semaphore (JobService._new_job).                           *)
THEOREM JobTypes == Spec => []TypeOK
<1>1. IInv => TypeOK
  BY DEF IInv
<1> QED
  BY <1>1, IInvAlways, PTL

(* Every permit is free, held by exactly one job, or lost by a failing      *)
(* mkdir: no interleaving of submitting, ending, cancelling and stopping    *)
(* gives one back twice, and while the service works only a cancellation    *)
(* that is being carried out or failed halfway leaves a permit with a job   *)
(* nobody will run (_new_job, _run_safely, cancel, shutdown).               *)
THEOREM PermitsBalance == Spec => []PermitsAccounted
<1>1. IInv => PermitsAccounted
  BY DEF IInv, Balanced, Phases, PermitsAccounted
<1> QED
  BY <1>1, IInvAlways, PTL

(* No sweep of expired objects removes the upload of a job that is being    *)
(* created, waits or runs (cleanup_expired).                                *)
THEOREM InputsSurvive == Spec => []InputsKept
<1>1. IInv => InputsKept
  BY DEF IInv, Inputs, InputsKept, TypeOK
<1> QED
  BY <1>1, IInvAlways, PTL

(* Who cancels, or shuts down, before the input has been read never sees    *)
(* the job completed (cancel, shutdown, the workers' looks at the event).   *)
THEOREM CancellationCounts == Spec => []CancelInTimeCounts
<1>1. IInv => CancelInTimeCounts
  BY DEF IInv, Early, CancelInTimeCounts
<1> QED
  BY <1>1, IInvAlways, PTL

(* The row of an ended job tells what files there are, in every order of    *)
(* workers, cancellations and sweeps, a report excepted whose cancellation  *)
(* failed halfway (_run_safely, cancel, cleanup_expired).                   *)
THEOREM FilesAreAsTold == Spec => []FilesMatch
<1>1. IInv => FilesMatch
  BY DEF IInv, Files
<1> QED
  BY <1>1, IInvAlways, PTL

(* The end of a job is final, also when a cancellation meets the worker or  *)
(* another process starts (update_job, Registry._initialize).               *)
THEOREM EndsAreFinal == Spec => EndedStaysEnded
<1>1. IInv /\ [Next]_vars
      => [\A j \in Job : row[j] \in Ended => row'[j] \in {row[j], "gone"}]_vars
  BY EndsKept DEF IInv, EndsStay
<1> QED
  BY <1>1, IInvAlways, PTL DEF Spec, EndedStaysEnded

=============================================================================
