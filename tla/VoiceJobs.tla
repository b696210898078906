--------------------------- MODULE VoiceJobs ---------------------------
(***************************************************************************)
(* Background jobs of Voice: JobService (voice/backend/jobs.py) over the   *)
(* registry of uploads and jobs (voice/backend/storage.py).                *)
(*                                                                         *)
(* Threads: one per request (creating, cancelling, looking), the workers   *)
(* of an executor, the thread that removes expired objects, and the one    *)
(* that starts and stops the service.  They share a semaphore of permits,  *)
(* the maps of cancellation events and futures under a lock, the rows in   *)
(* the database, and the files of uploads and jobs.  A job whose row was   *)
(* not added is as good as never asked for.                                *)
(***************************************************************************)
EXTENDS Integers, FiniteSets

CONSTANTS
  Job, Upload,  \* jobs that may be requested, uploads that may be saved
  Main,         \* Main[j]: the upload job j works on
  Nobody,
  Workers,      \* config.job_workers
  Permits,      \* the capacity, job_workers * 4 in the code
  MaxFault,     \* failing calls of the file system or the database (bound)
  MaxStart      \* starts of the service (bound)

ASSUME JobsAssumption ==
  /\ IsFiniteSet(Job) /\ Nobody \notin Job
  /\ Main \in [Job -> Upload]
  /\ Workers \in Nat \ {0} /\ Permits \in Nat \ {0}
  /\ MaxFault \in Nat /\ MaxStart \in Nat

VARIABLES
  (* the database *)
  row,       \* status of the job's row; "running" is inspecting .. exporting
  upload,    \* the upload's row: "none", "here", "gone"
  (* files *)
  input,     \* uploads whose files exist
  result,    \* jobs with a result
  report,    \* jobs with a report
  (* the service *)
  free,      \* permits of the semaphore
  call,      \* where the request that creates the job is
  tracked,   \* jobs in _cancellations and _futures
  event,     \* jobs whose cancellation event is set
  future,    \* state of the job's future
  stage,     \* where its worker is
  asked,     \* jobs whose cancellation read an unfinished row
  busy,      \* the job whose cancellation holds the lock, or Nobody
  doomed,    \* [jobs, uploads]: rows removed, files not yet
  server,    \* "up", "stopping", "closing", "down"
  (* bounds and observation *)
  faults, starts,
  leaked,    \* permits lost by a failing mkdir
  cut,       \* jobs cut off: stopped before they ran, or an end not recorded
  broken,    \* jobs whose cancellation failed halfway
  early,     \* jobs cancelled before their input was read to the end
  interrupted \* jobs a process left unfinished, or half cancelled

rowVars  == <<row, upload>>
fileVars == <<input, result, report>>
memVars  == <<tracked, event, future, stage>>
obsVars  == <<leaked, cut, broken, early, interrupted>>
vars == <<rowVars, fileVars, free, call, memVars, asked, busy, doomed, server,
          faults, starts, obsVars>>

Ended == {"completed", "failed", "cancelled"}
Unfinished == {"queued", "running"}
Running == {j \in Job : future[j] = "running"}

(* A request is between reading its upload and adding its row.              *)
Creating(j) == call[j] \in {"asked", "permit"}

(* Job j holds a permit: on its way in, submitted, or with a future that is *)
(* cancelled and not forgotten.                                             *)
Holds(j) == call[j] \in {"permit", "row"}
            \/ future[j] \in {"pending", "running", "dropped"}

Init ==
  /\ row = [j \in Job |-> "none"] /\ upload = [u \in Upload |-> "none"]
  /\ input = {} /\ result = {} /\ report = {}
  /\ free = Permits /\ call = [j \in Job |-> "new"]
  /\ tracked = {} /\ event = {} /\ future = [j \in Job |-> "none"]
  /\ stage = [j \in Job |-> "idle"]
  /\ asked = {} /\ busy = Nobody /\ doomed = [jobs |-> {}, uploads |-> {}]
  /\ server = "up" /\ faults = 0 /\ starts = 1
  /\ leaked = 0 /\ cut = {} /\ broken = {} /\ early = {} /\ interrupted = {}

-----------------------------------------------------------------------------
(* UploadService.save: the files take their final name, then the row is     *)
(* added; before that nobody can name the upload.                           *)
Save(u) ==
  /\ server # "down" /\ upload[u] = "none"
  /\ upload' = [upload EXCEPT ![u] = "here"]
  /\ input' = input \cup {u}
  /\ UNCHANGED <<row, result, report, free, call, memVars,
                 asked, busy, doomed, server, faults, starts, obsVars>>

-----------------------------------------------------------------------------
(* A request that creates a job.  The upload must be there.                 *)
Ask(j) ==
  /\ server # "down" /\ call[j] = "new"
  /\ upload[Main[j]] = "here"
  /\ call' = [call EXCEPT ![j] = "asked"]
  /\ UNCHANGED <<rowVars, fileVars, free, memVars, asked, busy, doomed,
                 server, faults, starts, obsVars>>

(* Slip: nobody looks whether there was a permit.                           *)
AcquireAlways(j) ==
  /\ call[j] = "asked"
  /\ free' = free - 1
  /\ \/ /\ call' = [call EXCEPT ![j] = "permit"]
        /\ UNCHANGED <<faults, leaked>>
     \/ /\ faults < MaxFault /\ faults' = faults + 1
        /\ call' = [call EXCEPT ![j] = "new"]
        /\ leaked' = leaked + 1
  /\ UNCHANGED <<rowVars, fileVars, memVars, asked, busy, doomed, server,
                 starts, cut, broken, early, interrupted>>

(* _new_job: a permit is taken, or the queue is full; then the workspace is *)
(* made.  mkdir stands before the try: when it fails, the permit is lost.   *)
Acquire(j) ==
  /\ call[j] = "asked"
  /\ \/ /\ free = 0
        /\ call' = [call EXCEPT ![j] = "new"]
        /\ UNCHANGED <<free, faults, leaked>>
     \/ /\ free > 0 /\ free' = free - 1
        /\ call' = [call EXCEPT ![j] = "permit"]
        /\ UNCHANGED <<faults, leaked>>
     \/ /\ free > 0 /\ free' = free - 1
        /\ faults < MaxFault /\ faults' = faults + 1
        /\ call' = [call EXCEPT ![j] = "new"]
        /\ leaked' = leaked + 1
  /\ UNCHANGED <<rowVars, fileVars, memVars, asked, busy, doomed, server,
                 starts, cut, broken, early, interrupted>>

(* The row is added; if that fails, the permit comes back.                  *)
AddRow(j) ==
  /\ call[j] = "permit"
  /\ \/ /\ row' = [row EXCEPT ![j] = "queued"]
        /\ call' = [call EXCEPT ![j] = "row"]
        /\ UNCHANGED <<free, faults>>
     \/ /\ faults < MaxFault /\ faults' = faults + 1
        /\ call' = [call EXCEPT ![j] = "new"]
        /\ free' = free + 1
        /\ UNCHANGED row
  /\ UNCHANGED <<upload, fileVars, memVars, asked, busy, doomed,
                 server, starts, obsVars>>

(* Under the lock: the event is kept, the worker submitted.  After shutdown *)
(* submit raises: the permit comes back, the row stays.                     *)
Submit(j) ==
  /\ call[j] = "row" /\ busy = Nobody
  /\ tracked' = tracked \cup {j}
  /\ call' = [call EXCEPT ![j] = "done"]
  /\ IF server \in {"up", "stopping"}
     THEN /\ future' = [future EXCEPT ![j] = "pending"]
          /\ UNCHANGED <<free, cut>>
     ELSE /\ free' = free + 1
          /\ cut' = cut \cup {j}
          /\ UNCHANGED future
  /\ UNCHANGED <<rowVars, fileVars, event, stage, asked, busy, doomed, server,
                 faults, starts, leaked, broken, early, interrupted>>

-----------------------------------------------------------------------------
(* A worker takes a future that was not cancelled...                        *)
Pick(j) ==
  /\ future[j] = "pending" /\ Cardinality(Running) < Workers
  /\ future' = [future EXCEPT ![j] = "running"]
  /\ stage' = [stage EXCEPT ![j] = "start"]
  /\ UNCHANGED <<rowVars, fileVars, free, call, tracked, event, asked, busy,
                 doomed, server, faults, starts, obsVars>>

GoTo(j, where) == stage' = [stage EXCEPT ![j] = where]

(* update_job changes a row that is there, and nothing without one.         *)
UpdateRow(j, status) ==
  row' = [row EXCEPT ![j] = IF @ = "gone" THEN @ ELSE status]

(* ...and looks at its event once before it begins; a job whose row cannot  *)
(* be updated fails.                                                        *)
Begin(j) ==
  /\ stage[j] = "start"
  /\ \/ j \in event /\ GoTo(j, "cancelled") /\ UNCHANGED <<row, faults>>
     \/ /\ j \notin event /\ GoTo(j, "build")
        /\ UpdateRow(j, "running") /\ UNCHANGED faults
     \/ /\ j \notin event /\ GoTo(j, "failed") /\ UNCHANGED row
        /\ faults < MaxFault /\ faults' = faults + 1
  /\ UNCHANGED <<upload, fileVars, free, call, tracked, event,
                 future, asked, busy, doomed, server, starts, obsVars>>

(* Slip: the event is not looked at while the rows are read.                *)
BuildUnseen(j) ==
  /\ stage[j] = "build"
  /\ report' = report \cup {j}
  /\ \/ Main[j] \in input /\ GoTo(j, "export")
     \/ GoTo(j, "failed")
  /\ UNCHANGED <<rowVars, input, result, free, call, tracked, event, future,
                 asked, busy, doomed, server, faults, starts, obsVars>>

(* The upload is read, each row after a look at the event; a file without a *)
(* row fails.  The report is opened meanwhile.                              *)
Build(j) ==
  /\ stage[j] = "build"
  /\ report' = report \cup {j}
  /\ \/ Main[j] \in input /\ j \notin event /\ GoTo(j, "export")
     \/ j \in event /\ GoTo(j, "cancelled")
     \/ GoTo(j, "failed")
  /\ UNCHANGED <<rowVars, input, result, free, call, tracked, event,
                 future, asked, busy, doomed, server, faults, starts, obsVars>>

(* An upload with commands may be read, which nothing protects: the job     *)
(* fails without it.  The result is written row by row; with nothing left   *)
(* to write nobody looks at the event.                                      *)
Export(j) ==
  /\ stage[j] = "export"
  /\ \/ result' = result \cup {j} /\ GoTo(j, "completed")
     \/ j \in event /\ GoTo(j, "cancelled") /\ UNCHANGED result
     \/ GoTo(j, "failed") /\ UNCHANGED result
  /\ UNCHANGED <<rowVars, input, report, free, call, tracked, event,
                 future, asked, busy, doomed, server, faults, starts, obsVars>>

(* The end of a worker that cannot be recorded: a completion the database   *)
(* refuses becomes a failure; any other end is only logged by the future,   *)
(* with the result removed or not, and a report or none.                    *)
RecordFails(j) ==
  /\ faults < MaxFault /\ faults' = faults + 1 /\ UNCHANGED row
  /\ \/ /\ stage[j] = "completed" /\ GoTo(j, "failed")
        /\ UNCHANGED <<result, report, cut>>
     \/ /\ stage[j] # "completed" /\ GoTo(j, "finally")
        /\ cut' = cut \cup {j}
        /\ \/ UNCHANGED <<result, report>>
           \/ result' = result \ {j} /\ report' \in {report, report \cup {j}}

(* Slip: the result of a job that fails after all is left behind.           *)
RecordOnly(j) ==
  /\ stage[j] \in Ended
  /\ \/ /\ report' = report \cup {j} /\ UNCHANGED result
        /\ UpdateRow(j, stage[j]) /\ GoTo(j, "finally")
        /\ UNCHANGED <<faults, cut>>
     \/ RecordFails(j)
  /\ UNCHANGED <<upload, input, free, call, tracked, event, future,
                 asked, busy, doomed, server, starts, leaked, broken, early,
                 interrupted>>

(* _run_safely records the end: the result of what was not completed is     *)
(* removed, a report is there, then the row.                                *)
Record(j) ==
  /\ stage[j] \in Ended
  /\ \/ /\ report' = report \cup {j}
        /\ result' = IF stage[j] = "completed" THEN result ELSE result \ {j}
        /\ UpdateRow(j, stage[j]) /\ GoTo(j, "finally")
        /\ UNCHANGED <<faults, cut>>
     \/ RecordFails(j)
  /\ UNCHANGED <<upload, input, free, call, tracked, event, future,
                 asked, busy, doomed, server, starts, leaked, broken, early,
                 interrupted>>

(* ...finally, under the lock, it is forgotten, and the permit comes back.  *)
Finally(j) ==
  /\ stage[j] = "finally" /\ busy = Nobody
  /\ tracked' = tracked \ {j}
  /\ future' = [future EXCEPT ![j] = "over"]
  /\ GoTo(j, "idle")
  /\ free' = free + 1
  /\ UNCHANGED <<rowVars, fileVars, call, event, asked, busy, doomed, server,
                 faults, starts, obsVars>>

-----------------------------------------------------------------------------
(* Jobs that a set event still keeps from completing.                       *)
InTime == {j \in Job : \/ future[j] \in {"pending", "dropped"}
                       \/ stage[j] \in {"start", "build"}}

(* cancel reads the row first; an ended job is left alone...                *)
AskCancel(j) ==
  /\ server # "down" /\ row[j] \in Unfinished /\ j \notin asked
  /\ asked' = asked \cup {j}
  /\ UNCHANGED <<rowVars, fileVars, free, call, memVars, busy, doomed, server,
                 faults, starts, obsVars>>

(* Under the lock the event of the job is set; there may be other requests  *)
(* to cancel it, which have read its row too.                               *)
Signal(j) ==
  /\ j \in asked /\ busy = Nobody
  /\ asked' \in {asked, asked \ {j}}
  /\ event' = event \cup ({j} \cap tracked)
  /\ early' = early \cup ({j} \cap tracked \cap InTime)

(* future.cancel(): yes if no worker has taken it, also when it has already *)
(* been cancelled.                                                          *)
Cancellable(j) == j \in tracked /\ future[j] \in {"pending", "dropped"}

(* Slip: whatever future.cancel() says, the job counts as cancelled.        *)
CancelAnyway(j) ==
  /\ Signal(j)
  /\ IF j \in tracked
     THEN UpdateRow(j, "cancelled") /\ busy' = j
     ELSE UNCHANGED <<row, busy>>
  /\ UNCHANGED <<upload, fileVars, free, call, tracked, future, stage, doomed,
                 server, faults, starts, leaked, cut, broken, interrupted>>

(* Slip: the future is cancelled, the row is not.                           *)
CancelFuture(j) ==
  /\ Signal(j)
  /\ IF Cancellable(j)
     THEN future' = [future EXCEPT ![j] = "dropped"] /\ busy' = j
     ELSE UNCHANGED <<future, busy>>
  /\ UNCHANGED <<rowVars, fileVars, free, call, tracked, stage, doomed, server,
                 faults, starts, leaked, cut, broken, interrupted>>

(* ...a future that no worker has taken is cancelled, and so is the row.    *)
(* When the database refuses that, the request ends: no worker takes the    *)
(* job any more, its row stays, and so does its permit, until somebody      *)
(* cancels it again...                                                      *)
Cancel(j) ==
  /\ Signal(j)
  /\ \/ ~Cancellable(j) /\ UNCHANGED <<future, row, busy, faults, broken>>
     \/ /\ Cancellable(j) /\ future' = [future EXCEPT ![j] = "dropped"]
        /\ UpdateRow(j, "cancelled") /\ busy' = j
        /\ UNCHANGED <<faults, broken>>
     \/ /\ Cancellable(j) /\ future' = [future EXCEPT ![j] = "dropped"]
        /\ faults < MaxFault /\ faults' = faults + 1
        /\ broken' = broken \cup {j}
        /\ UNCHANGED <<row, busy>>
  /\ UNCHANGED <<upload, fileVars, free, call, tracked, stage, doomed,
                 server, starts, leaked, cut, interrupted>>

(* ...its report is written, it is forgotten and the permit comes back; or  *)
(* the report fails, and the row is all that was done: whoever asks now     *)
(* finds an ended job and is sent away.                                     *)
EndCancel(j) ==
  /\ busy = j /\ busy' = Nobody
  /\ \/ /\ report' = report \cup {j}
        /\ tracked' = tracked \ {j}
        /\ future' = [future EXCEPT ![j] = "over"]
        /\ free' = free + 1
        /\ broken' = broken \ {j}
        /\ UNCHANGED faults
     \/ /\ faults < MaxFault /\ faults' = faults + 1
        /\ broken' = broken \cup {j}
        /\ UNCHANGED <<report, tracked, future, free>>
  /\ UNCHANGED <<rowVars, input, result, call, event, stage, asked,
                 doomed, server, starts, leaked, cut, early, interrupted>>

-----------------------------------------------------------------------------
(* Slip: a job that waits does not count as one that works on its upload.   *)
SweepUnderQueued(r, fresh) ==
  \E jobs \in SUBSET {j \in Job \ fresh : r[j] \in Ended},
     ups \in SUBSET {u \in Upload :
                      /\ upload[u] = "here"
                      /\ ~ \E j \in Job :
                           Main[j] = u /\ (r[j] = "running" \/ Creating(j))} :
    /\ row' = [j \in Job |-> IF j \in jobs THEN "gone" ELSE r[j]]
    /\ upload' = [u \in Upload |-> IF u \in ups THEN "gone" ELSE upload[u]]
    /\ doomed' = [jobs |-> jobs, uploads |-> ups]

(* cleanup_expired over the job rows r: some ended jobs, but not the fresh  *)
(* ones, and some uploads no unfinished job works on have not been touched  *)
(* for object_ttl_seconds and go in one transaction.  A request is short:   *)
(* the upload it just touched is kept until the row of its job is there.    *)
SweepRows(r, fresh) ==
  \E jobs \in SUBSET {j \in Job \ fresh : r[j] \in Ended},
     ups \in SUBSET {u \in Upload :
                      /\ upload[u] = "here"
                      /\ ~ \E j \in Job :
                           Main[j] = u /\ (r[j] \in Unfinished \/ Creating(j))} :
    /\ row' = [j \in Job |-> IF j \in jobs THEN "gone" ELSE r[j]]
    /\ upload' = [u \in Upload |-> IF u \in ups THEN "gone" ELSE upload[u]]
    /\ doomed' = [jobs |-> jobs, uploads |-> ups]

CleanRows ==
  /\ server \in {"up", "stopping"}
  /\ doomed = [jobs |-> {}, uploads |-> {}]
  /\ SweepRows(row, {})
  /\ UNCHANGED <<fileVars, free, call, memVars, asked, busy, server, faults,
                 starts, obsVars>>

(* The directories go after the transaction, outside every lock.            *)
CleanFiles ==
  /\ doomed.jobs \cup doomed.uploads # {}
  /\ doomed' = [jobs |-> {}, uploads |-> {}]
  /\ input' = input \ doomed.uploads
  /\ result' = result \ doomed.jobs
  /\ report' = report \ doomed.jobs
  /\ UNCHANGED <<rowVars, free, call, memVars, asked, busy, server, faults,
                 starts, obsVars>>

-----------------------------------------------------------------------------
(* shutdown: the cleanup thread is told to stop; the events of all jobs are *)
(* set under the lock...                                                    *)
Stop ==
  /\ server = "up" /\ busy = Nobody
  /\ server' = "stopping"
  /\ event' = event \cup tracked
  /\ early' = early \cup (tracked \cap InTime)
  /\ UNCHANGED <<rowVars, fileVars, free, call, tracked, future, stage, asked,
                 busy, doomed, faults, starts, leaked, cut, broken, interrupted>>

(* ...the executor is closed and the waiting futures are cancelled...       *)
Close ==
  LET waiting == {j \in Job : future[j] = "pending"}
  IN
  /\ server = "stopping"
  /\ server' = "closing"
  /\ future' = [j \in Job |-> IF j \in waiting THEN "dropped" ELSE future[j]]
  /\ cut' = cut \cup waiting
  /\ UNCHANGED <<rowVars, fileVars, free, call, tracked, event, stage, asked,
                 busy, doomed, faults, starts, leaked, broken, early, interrupted>>

(* ...and the running ones are waited for.                                  *)
Stopped ==
  /\ server = "closing" /\ Running = {}
  /\ server' = "down"
  /\ UNCHANGED <<rowVars, fileVars, free, call, memVars, asked, busy, doomed,
                 faults, starts, obsVars>>

(* start after shutdown in one process: a new executor, a new semaphore,    *)
(* empty maps, a sweep.  Nobody is served between the two.                  *)
StartAgain ==
  /\ server = "down" /\ starts < MaxStart
  /\ busy = Nobody /\ asked = {} /\ doomed = [jobs |-> {}, uploads |-> {}]
  /\ \A j \in Job : call[j] \in {"new", "done"}
  /\ server' = "up" /\ starts' = starts + 1
  /\ free' = Permits /\ leaked' = 0
  /\ tracked' = {} /\ event' = {}
  /\ future' = [j \in Job |-> IF future[j] = "dropped" THEN "over" ELSE future[j]]
  /\ SweepRows(row, {})
  /\ UNCHANGED <<fileVars, call, stage, asked, busy, faults, cut, broken, early,
                 interrupted>>

(* Slip: a cancelled job counts as unfinished.                              *)
RestartCancelled ==
  LET lost == {j \in Job : row[j] \in Unfinished \cup {"cancelled"}}
  IN
  /\ starts < MaxStart /\ starts' = starts + 1
  /\ SweepRows([j \in Job |-> IF j \in lost THEN "failed" ELSE row[j]], lost)
  /\ interrupted' = interrupted \cup lost \cup ({busy} \ {Nobody})
  /\ call' = [j \in Job |-> IF call[j] \in {"row", "done"} THEN "done" ELSE "new"]
  /\ free' = Permits /\ leaked' = 0
  /\ tracked' = {} /\ event' = {} /\ asked' = {} /\ busy' = Nobody
  /\ future' = [j \in Job |-> IF future[j] = "none" THEN "none" ELSE "over"]
  /\ stage' = [j \in Job |-> "idle"]
  /\ server' = "up"
  /\ UNCHANGED <<fileVars, faults, cut, broken, early>>

(* The process ends at any moment and another starts: unfinished rows       *)
(* become failed (Registry._initialize), then start sweeps.                 *)
Restart ==
  LET lost == {j \in Job : row[j] \in Unfinished}
  IN
  /\ starts < MaxStart /\ starts' = starts + 1
  /\ SweepRows([j \in Job |-> IF j \in lost THEN "failed" ELSE row[j]], lost)
  /\ interrupted' = interrupted \cup lost \cup ({busy} \ {Nobody})
  /\ call' = [j \in Job |-> IF call[j] \in {"row", "done"} THEN "done" ELSE "new"]
  /\ free' = Permits /\ leaked' = 0
  /\ tracked' = {} /\ event' = {} /\ asked' = {} /\ busy' = Nobody
  /\ future' = [j \in Job |-> IF future[j] = "none" THEN "none" ELSE "over"]
  /\ stage' = [j \in Job |-> "idle"]
  /\ server' = "up"
  /\ UNCHANGED <<fileVars, faults, cut, broken, early>>

-----------------------------------------------------------------------------
Create(j) == Acquire(j) \/ AddRow(j) \/ Submit(j)
Work(j) == \/ Begin(j) \/ Build(j) \/ Export(j) \/ Record(j)
           \/ Finally(j)
Next ==
  \/ \E u \in Upload : Save(u)
  \/ \E j \in Job : Ask(j) \/ Create(j) \/ Pick(j) \/ Work(j)
  \/ \E j \in Job : AskCancel(j) \/ Cancel(j) \/ EndCancel(j)
  \/ CleanRows \/ CleanFiles
  \/ Stop \/ Close \/ Stopped \/ StartAgain \/ Restart

Spec == Init /\ [][Next]_vars

(* Threads that are doing something go on; nobody has to ask, time does not *)
(* have to pass, and the service need not stop or start.                    *)
FairSpec ==
  /\ Spec
  /\ \A j \in Job : /\ WF_vars(Create(j)) /\ WF_vars(Pick(j))
                    /\ WF_vars(Work(j)) /\ WF_vars(EndCancel(j))

-----------------------------------------------------------------------------
TypeOK ==
  /\ row \in [Job -> Unfinished \cup Ended \cup {"none", "gone"}]
  /\ upload \in [Upload -> {"none", "here", "gone"}]
  /\ input \subseteq Upload /\ result \subseteq Job /\ report \subseteq Job
  /\ free \in Nat /\ leaked \in Nat
  /\ call \in [Job -> {"new", "asked", "permit", "row", "done"}]
  /\ tracked \subseteq Job /\ event \subseteq Job /\ asked \subseteq Job
  /\ future \in [Job -> {"none", "pending", "running", "over", "dropped"}]
  /\ stage \in [Job -> {"idle", "start", "build", "export",
                        "finally"} \cup Ended]
  /\ busy \in Job \cup {Nobody}
  /\ doomed \in [jobs : SUBSET Job, uploads : SUBSET Upload]
  /\ server \in {"up", "stopping", "closing", "down"}
  /\ faults \in 0 .. MaxFault /\ starts \in Nat
  /\ cut \subseteq Job /\ broken \subseteq Job
  /\ early \subseteq Job /\ interrupted \subseteq Job

(* Every permit is free, held by one job, or was lost by a failing mkdir:   *)
(* cancelling, ending, refusing and stopping never give one back twice (the *)
(* semaphore is bounded and would raise).  While the service works, a job   *)
(* whose future was cancelled keeps its permit only while its cancellation  *)
(* is being carried out, or when that failed halfway.                       *)
PermitsAccounted ==
  /\ free + leaked + Cardinality({j \in Job : Holds(j)}) = Permits
  /\ \A j \in Job : server \in {"up", "stopping"} /\ future[j] = "dropped"
                    => busy = j \/ j \in broken

(* The upload a job works on keeps its files from the moment the request    *)
(* has read its row until the job has ended, however long it waits.         *)
InputsKept ==
  \A j \in Job :
    Creating(j) \/ row[j] \in Unfinished => Main[j] \in input \ doomed.uploads

(* A job cancelled, or caught by shutdown, before its input was read to the *)
(* end is never completed afterwards.                                       *)
CancelInTimeCounts ==
  \A j \in early : row[j] # "completed" /\ stage[j] # "completed"

(* What people are shown of an ended job: a completed one has its result, a *)
(* cancelled or failed one has none, all have a report; except the report   *)
(* while its cancellation is being carried out or when that failed halfway, *)
(* and jobs the end of a process left unfinished or half cancelled.         *)
FilesMatch ==
  \A j \in Job \ interrupted :
    /\ row[j] = "completed" => j \in result
    /\ row[j] \in {"failed", "cancelled"} => j \notin result
    /\ row[j] \in Ended => j \in report \/ busy = j \/ j \in broken

(* The end of a job is final: nothing changes it until its row is removed.  *)
EndedStaysEnded ==
  [][\A j \in Job : row[j] \in Ended => row'[j] \in {row[j], "gone"}]_vars

(* A job that was accepted ends, unless stopping cut it off, its end could  *)
(* not be recorded or its cancellation failed halfway: those wait for the   *)
(* next process.                                                            *)
EveryJobEnds ==
  \A j \in Job : row[j] \in Unfinished
                ~> row[j] \notin Unfinished \/ j \in cut \cup broken

=============================================================================
