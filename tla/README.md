# Studio files and Voice jobs: TLA+ models and proofs

The repository holds three applications that share a server: the reporting
backend and its workbook (`backend`, `frontend`, `db`), the design studio
(`canvas-studio`) and the Voice registry (`voice`). The parts with
concurrency of their own are the live editing of the studio (several people
change one file at once over WebSockets, connections break, the server saves in
the background, restarts and stops), the stores under it, the merging of
operations, and the background jobs of Voice. These modules model those parts.

Paths below are relative to `canvas-studio/packages` unless they start with
another top-level directory.

## Inventory

| Component | State | Operations | Talks to |
| --- | --- | --- | --- |
| Live session (`editor/src/live.ts`) | document shown, `seq`, `you`, `outbox`, `unacked` batches by number | edit, flush after 40 ms, connect and back off, welcome / snapshot / ops / ack / error / role / deleted / revoked / signedOut, drain, close | room, by messages; editor, by callbacks (`onSnapshot` replaces the document) |
| Room (`server/src/live.ts`) | document, `seq`, `log`, `versions`, `peers`, held messages, `dirtySince`, save timer, chain of saves, `authors` | hello/greet, receive/apply, scheduleSave, save, checkpoint, recheckAccess, drop | peers; stores; version history |
| Hub (`server/src/live.ts`) | map of rooms (promises), connections per address | handleUpgrade, room, release, isLive, rename, accessChanged, signedOut, flush, deleted, flushAll | file API, server process |
| Documents and pictures (`server/src/documents.ts`, `RoomImages`) | `snapshot.json`, picture files, pictures being written | read, write, putPicture, open, stash, idle | blob store |
| Storage (`server/src/storage.ts`, `pg-storage.ts`) | records with a cache, blobs, a queue per key | get, put, update, delete, write, remove | disk or PostgreSQL |
| Version history (`server/src/versions.ts`) | list of versions, their texts, shared pictures | add, thin, restore, collect | blob store |
| File API (`server/src/api.ts`) | index of files | getFile, putFile, freshFile, patchFile, deleteFile, sweepBranches, merge | hub, stores |
| Access, sharing, sessions (`access.ts`, `auth.ts`, `teams.ts`) | members, links, teams, login sessions | role of a person in a file, sign out everywhere | hub (`accessChanged`, `signedOut`) |
| CRDT core (`core/src/store.ts`, `document.ts`, `clock.ts`) | tree of nodes, time of each property and place | create, set, move, blob; undo and redo | session and room apply the same operations |
| Merge, restore (`core/src/merge.ts`, `restore.ts`) | none (pure) | three-way merge of branches; operations that bring an old version back | file API, editor |
| Offline copy (`editor/src/cloud.ts`, `offline.ts`) | last snapshot and unconfirmed operations in the browser | put, get, remove | session (`pending`) |
| WebSocket transport (`server/src/websocket.ts`) | frame buffer, fragments, ping | send, close, receive | session, room |
| Editor, geometry, layout, rendering | single-user | | |
| Voice jobs (`voice/backend/jobs.py`, `storage.py`) | permits, futures, cancellation events, rows of uploads and jobs, their files | start, create, run, cancel, shutdown, sweep of expired objects | registry in PostgreSQL, file system |
| Voice lock (`voice/backend/master_lock.py`) | one row: owner, session, expiry, notification | acquire, release, status, notify, require | master file |
| Reporting backend (`backend/app`) | PostgreSQL | request handlers, synchronisation with TFS, scheduler thread, session refresh | database |

What is hard in it, in short (PROJECT.json, `hazards`, has each at its line):

* **Delivery.** A connection may break with batches under way in both
  directions; nobody knows which arrived. Batches are kept, sent again and
  merged by a CRDT; a newcomer is brought up to date by a bounded log or by the
  whole file while others go on editing.
* **Awaits.** Everything on the server runs on one event loop, but each
  `await` lets every other handler run: opening, saving, keeping a version and
  forgetting a room overlap freely.
* **Saving.** A timer restarted by each change, a chain of asynchronous
  writes that may fail, pictures written on their own, two files (document and
  record) that a crash may leave apart.
* **Two orders of writing.** A save by HTTP writes the record of a file and then
  the document, the live room the document and then the record; records have a
  cache that is filled outside the queue of writes; deletion meets both.
* **Merging.** Operations arrive in different orders at different replicas, a
  newcomer gets the file without times and deleted nodes, and undo acts on what
  others may have changed.
* **Threads.** Jobs of Voice are created, picked up, cancelled, swept and shut
  down by different threads that share permits, futures and rows.
* **End of life.** Rooms are forgotten and opened again with the numbers
  starting from zero; the process stops while people edit.

What makes each part correct: no change lost between editor and room; each peer
reads every batch once and in order; everyone who is up to date sees the others'
work; nothing changed slips between two saves; what is on disk is always some
past state that never goes back; one room per file; an occupied room is never
forgotten; accepted work is not overwritten and a deleted file leaves nothing
behind; replicas agree once everything arrived and always hold a tree; permits
are never given back twice, and the input of a job outlives the job. Several of
these hold in the code only with exceptions; each exception is a named
observation of a module, listed below.

## Modules

```
DurableDoc (abstract) <-- refined by -- RoomSave <- RoomSave_proofs
LiveSync <- MC_LiveSync, LiveSync_proofs (with SequenceFacts)
LiveHub  <- LiveHub_proofs
FileStore <- MC_FileStore, FileStore_proofs
DocStore <- MC_DocStore, DocStore_proofs (with SequenceFacts) <- DocMerge_proofs
VoiceJobs <- MC_VoiceJobs, VoiceJobs_proofs
```

Operators marked "Slip" in a module are not part of its specification: each is
a wrong form of the operator after it, used to see that a property notices.

### LiveSync: clients and room over breaking connections

Operations are pairs `<<client, n>>`; a document is the set of operations that
took effect. The core merges by time, so for the questions asked here only
*which* operations took effect matters, and an operation the core rejects
(a property of a node that does not exist yet, `core/src/store.ts:187`) is one
whose `Needs` are missing.

* Client: `LoadRecord`/`LoadDocument` are the two reads of `Api.getFile` that a
  save may fall between; `Edit` is `watch`; `Connect` opens the socket and sends
  hello; `Flush` is the 40 ms timer; `ReadWelcome`, `ReadSnapshot`, `ReadOps`
  and `ReadAck` are the cases of `LiveSession.receive`; `ClientClose` is the
  close event. `TakenBack` keeps the order of line 173: each unconfirmed batch
  is put in front of the outbox, the oldest first.
* Room: `Greet` (hello, with the replay or the start of the snapshot),
  `SendSnapshot` (its text is ready, the held messages follow), `Receive`
  (receive and apply: document, log, relay, confirmation), `ServerClose`.
* Saving, as far as clients can tell: `Save`, `WriteDocument`, `WriteRecord`.
  `Reopen` is the room saved, forgotten and opened again.
* Observation: `received`, `cursor`, `gap`, `dropped` and `past`, the document
  of the room as each batch left it. Nothing in the model's guards reads them.

`gap` marks the two situations in which the code, as it stands, leaves a client
without work of others until the page is loaded again or a snapshot of the open
room comes:

1. the first welcome sets `seq` (`editor/src/live.ts:170`) and the connection
   ends before the missed batches or the snapshot were read: the next hello
   claims them;
2. the room was opened again, its numbers restart from zero, and the client
   comes back with a `since` of the former room, or has messages of that room
   still to read.

`dropped` marks a third: a snapshot came while own batches were sent but not in
it yet. The client takes the whole file and puts back the outbox only
(`editor/src/live.ts:182`), but the welcome before it has just sent what was in
the outbox (lines 171-175): own work is off the screen although the room takes it
a moment later, and its confirmation brings nothing back. What others build on
that work is then rejected in this tab as well, so the work of others is not safe
from it. Without `~dropped[c]`, `AllWorkArrives` is violated by the code: what line
181 says ("keep own unsent work") holds of the outbox only.

`AllWorkArrives` is what holds besides: a client without `gap` and `dropped` that
has read all that was sent has *everything* the room has, its own work and that
of others, whoever's operations depend on whose. `WorkGetsAround` is its liveness
counterpart.

Left out: roles, presence, emotes, spotlight, comments, the `error` and `deleted`
messages, work carried over from the offline copy.

### RoomSave: how a room keeps its file

The document is the number of changes in it, `mem`; every change may bring a
picture. `ScheduleSave` and `CallSave` are the two helpers everything calls.
The chain of saves is walked one await at a time: `StartSave`, `PicturesIdle`,
`WriteDocument`, `WriteRecord`, perhaps `AddVersion`, or `SaveFails`.
`PictureWritten` and `PictureFails` run on their own. `Leave`, `LeaveSaved`,
`LeaveVersion` are the awaits of `LiveHub.release`, `Return` a newcomer among
them, `Reopen` a room opened after it. `Stop` and `Exit` are SIGTERM in
`apps/server/src/main.ts`, `Crash` the end of the process at any moment.
A failing save calls `ScheduleSave(0)`: the code sets `dirtySince` to now even if
something changed since the save was called. Here one release runs at a time;
LiveHub has them overlap.

### DurableDoc: what saving promises

A document in memory and a copy on disk: `Change`, `Persist` (the copy moves
forward to any state up to the one in memory), `Lose` (whoever opens the file
next goes on from the copy). RoomSave implements it with `mem <- mem`,
`disk <- stored.doc`.

### LiveHub: rooms opened and forgotten

Each connection goes through the awaits of `handleUpgrade` (`Arrive`, `AskRoom`,
`GetRoom`, `Accept` or `Refuse`), says `Hello`, may `Edit`, and closes; `drop`
(access taken away, signed out) ends in the same `Close`. The map holds a room
from the moment its opening begins; `ReadDocument`, `RoomReady` and `OpenFails`
are the steps of that promise. `Close` of the last person begins a release of its
own, so that several releases of a room run at once: `ReleaseSaved`, `Forget`. A
save is a document in the room's chain, written in one step (RoomSave has the
steps). `stray` records that a forgotten room was entered or was still being
saved: the two ways, both findings, in which rooms of one file come apart.

### FileStore: one file under its writers

A document is the set of changes in it, the record of the file its version. Tabs
load and save the whole file by HTTP: `LoadRecord`, `LoadDocument`, `Check`,
`Update`, `WriteDocument` or `DocumentFails`, `AddVersion` are the awaits of
`getFile` and `putFile`. The owner deletes it: `DeleteBegins`, `DeleteRecord`,
`RemoveFiles` (`sweepBranches` does the same for a merged branch). The server may
`Restart` at any moment. Both stores run the writes of one key one after another,
so that each is one step; `JsonStore.get` reads outside that queue. Every read of
the record (loading, checking, opening a room, deleting) is a `Get` that may put
what it read into the cache later, in `FillCache`. A tab that is refused saves a
copy under a new name (`editor/src/cloud.ts:574`), which is another file, and may
load this one again.

There may be several live rooms of the file. `map` is the room the hub knows. A
room is put there before it is open (`AskRoom`, then `OpenRoom`: a deletion or a
save may fall between). Somebody who was given a room is its `holder` until the
hello, and among its `peers` after it; the code counts only the second. When the
last of them leaves (`Leave`), or somebody gives up who had joined without a hello
(`GiveUp`), a release begins: it calls `save`, waits, and then takes the room out
of the map if nobody has said hello (`EndRelease`), whether that save was done or
failed, and whether or not another is under way. So a room lives on after the hub
forgot it, as long as somebody holds it or it has something to save; `Alive` says
so. `SaveRoom` and `BeginRelease` are the two callers of `save`; its chain is
walked in `WriteRoomDocument`, `UpdateByRoom`, `EndSave`, or `SaveFails`.
`DeleteBegins` empties the map and sends out the peers of the room that was in it;
who holds that room without a hello is not reached, nor is a room the hub had
forgotten before. Files of versions lie in the same directory as the document
(`history`), so that one written late makes the directory again.

The ways in which, as the code stands, accepted work may be lost are named in
`hole`, which no guard reads:

| `hole` | What happens |
| --- | --- |
| `stale` | a read begun before an update fills the cache after it (`server/src/storage.ts:104`) |
| `early` | a tab loads the version a save gave before the document of that save is written (`server/src/api.ts:1094`) |
| `live` | a save by HTTP meets a room that is used or has something to save: people came in after `isLive` (`server/src/api.ts:1055`), hold it without a hello, or it is one the hub forgot |
| `apart` | a room is opened while another of the same file lives on (findings 3 and 4) |
| `torn` | the server ends, or the write of the document fails, between record and document |
| `remade` | the file is deleted and made again: its numbers begin at 1, and a tab of the former file may hold the right one |

`late` marks a deletion that met a writer: a tab between record and document, a
room somebody held, was opening or releasing or that had something to save, or a
file made again before the directory of the former one went. Without it
`DeletedIsGone` is violated by the code: the shortest way is somebody who was
given the room, says hello after the deletion and edits; the save writes
`snapshot.json` and finds no record to update. `AcceptedIsKept` is the property
outside of `hole` and `late`, `DeletedIsGone` outside of `late`, `torn` and
`stale`; that these are all the ways is what the runs and the theorems say of the
model, not a list taken from the code. The mutants show that the properties are
not empty there.

### DocStore: merging operations

Nodes are records of a parent, properties, and the times of both; `Create`,
`Set`, `Move` are the three cases of `DocumentStore.apply`. Clients edit
(`CreateLocal`, `SetLocal`, `MoveLocal`), undo and redo. What they did is in
`outbox` until the room has it; the first `sent` operations of it are under way
(`Flush`). `Receive` is the room taking a batch, of any length: it applies it and
passes it on; `Read` is the batch at another client.

A client may be sent the file, as a newcomer or after it was away for too long, in
three steps with batches of its own and of others under way all the time. `Greet`:
the room takes the snapshot (`Snapshot` drops deleted nodes and times) and from
here on holds back what others do. `Welcome`: the client learns the clock of the
room and sends all it has. `Load`: the file becomes a new document with a session
and a history of its own, and what has not been sent since is put on top; batches
under way, and those the room got since the snapshot, are in neither. Sessions are
numbers, as times are compared by counter and then by session.

Connections are reliable and keep the order here; LiveSync has them break, and
there is where batches are sent again and taken back in another order.

`unseen` are the registers a client wrote but does not see its work on, because
that batch was on its way when the file came. Its new document starts with the
clock of the room as it was at the snapshot, which may be less than the time of
that work: the next edit of the register is then older in the room than the
client's own earlier one, and is lost though nobody else touched it. `EditsCount`
is therefore about edits of those who see all work on the register, others' and
their own (`alone`, an observation in the operations); for the rest the code
promises nothing. Without the exception it is violated.

`barred` marks that a move was rejected because of a cycle. Which of two moves
that would make a cycle together is rejected depends on the order of arrival
(`core/src/store.ts:208`), so `PlacesAgree` excepts it, and only it. `loaded` are
the clients that were sent the file: they hold no times, and an operation still
on its way that the room found stale takes effect there. They are excepted from
`RegistersAgree`; what they see is the subject of `SameFileEverywhere`.

Left out: which types may contain which, order keys of siblings, transactions of
several steps, gestures, the merging of history steps made shortly after each
other, the limit of the history, `revive`, pictures. Undo decides by value, not
by author (`core/src/document.ts:396`), and so does the model.

### VoiceJobs: background jobs of Voice

A job goes through its request (`Ask`, `Acquire`, `AddRow`, `Submit`), a worker
(`Pick`, `Begin`, `Build`, `Export`, `Record`, `Finally`) or a cancellation
(`AskCancel`, `Cancel`, `EndCancel`), each on a thread of its own. The
cancellation is split where the row has been written: others may see the row of a
cancelled job before its report is there; the lock of the service is held by
`busy` meanwhile. Every call of the database or the file system may fail
(`MaxFault` times): `mkdir` and `add_job` in the request, `update_job` in the
worker, the recording of its end (`RecordFails`), and the two calls of `cancel`,
which nothing guards (`voice/backend/jobs.py:673-680`). If `update_job` fails
there, the future is cancelled and no worker ever takes the job: its row stays
queued and its permit taken until somebody cancels it again, which `future.cancel()`
allows. If `_ensure_report` fails, the row says "cancelled", there is no report,
and the permit stays taken until the service starts again, because whoever
cancels now finds an ended job and is sent away (line 665). `broken` names these
jobs. `CleanRows` is the transaction of `cleanup_expired`, `CleanFiles` the
removal of directories after it. `Stop`, `Close`, `Stopped` are `shutdown`,
`StartAgain` is `start` in the same process, `Restart` the end of the process at
any moment and the start of another.

Time is not modelled: the sweep takes any ended jobs and any uploads that no
unfinished job works on, whether or not their time has come. One assumption about
time remains: a request is short compared with `object_ttl_seconds`, so the
upload it has just touched is not swept before its row is added (`Creating`). The
order in which the executor serves waiting jobs is left open. The upload with
commands that a conversion may read is protected by nothing: a job that finds it
gone fails.

`leaked` counts permits lost by a failing `mkdir` (`voice/backend/jobs.py:126`,
before the `try`), `broken` the jobs whose cancellation failed halfway, `cut` the jobs that shutdown cut off or whose end could not be
recorded, `early` those cancelled while it still could have an effect,
`interrupted` those the end of a process left unfinished or half cancelled.

## Runs

| Run | Result | What it shows |
| --- | --- | --- |
| `live_sync` | pass | `NoWorkLost`, `StreamInOrder`, `AllWorkArrives` over every interleaving of two tabs |
| `live_sync_progress` | pass | `WorkGetsConfirmed`, `WorkGetsAround` under fairness, with a log of one batch |
| `live_sync_resend` | violation | `ConfirmedWorkCounts`: a dependent batch sent again out of order is confirmed and rejected |
| `room_save` | pass | timer, chain, pictures, leaving, stopping, crash; refinement of DurableDoc; `ChangesGetSaved` |
| `room_save_history` | violation | `EveryoneLeftIsKept`: the authors of changes made while a version is written are forgotten |
| `live_hub` | pass | `Together`, `NewcomersGetEverything`, `WorkWillBeSaved`, `OccupiedIsKept`, `LastOneOutForgets` |
| `live_hub_rooms` | violation | `OneRoomPerFile`: two people of one file in two rooms |
| `live_hub_release` | violation | `ForgottenIsSaved`: a room forgotten with a save under way |
| `file_store` | pass | `AcceptedIsKept`, `DeletedIsGone`, `VersionsGrow` over saves by HTTP, rooms in the map and forgotten ones, deletion, failing writes and restart |
| `doc_store` | pass | `TreeSound`, `RegistersAgree`, `PlacesAgree`, `EditsCount`, `HistoryTellsTheFile` |
| `doc_store_newcomer` | violation | `SameFileEverywhere`: work of one's own under way while the file is sent is missing in it for good |
| `voice_jobs` | pass | `PermitsAccounted`, `InputsKept`, `CancelInTimeCounts`, `FilesMatch`, `EndedStaysEnded`, `EveryJobEnds` |

Run one with, for example, `tlc -workers 2 -config LiveSync.cfg MC_LiveSync`.

**Bounds, and why they are enough.**

* `live_sync`: two clients; `a` makes two changes and `b` one, of which the
  first of `a` creates a node and the two others need it (`Node`), so that one
  client's work depends on another's; the change of `b` carries a picture (so that
  the log cannot be replayed); `a` may lose one connection; the log holds two
  batches of three; the file is saved once and the room opened again once. So every
  way to be greeted occurs: by version, by `since`, by replay, by snapshot because
  of the log's limit, of a picture, of an unknown version. About 320 000 states.
* `live_sync_progress`: one change each and a log of one; temporal checks cost
  more. The last connection a client may open does not break (`MayBreak`):
  otherwise the bound, not the code, would cut it off for good.
* `room_save`: two changes, one with a picture; delays of two and three ticks so
  that the second limit cuts the first; one failed write; two lives. A save waits
  while another is written, a change comes between any two steps, the timer is
  cut by `SaveAtLeast`. About 123 600 states.
* `live_hub`: three connections (one leaves, one is coming, one decides), two
  rooms, two changes, one failure, at most two connections per address. About
  52 200 states.
* `file_store`: two tabs that may change places and two rooms that may (symmetry;
  nothing distinguishes them), one change by each, one deletion, one release under
  way when another begins, two starts. `Few` keeps at most four of these in one
  state: tabs and rooms in use, starts, kinds of `hole`, `late`. So two tabs or two
  rooms, or one of each, meet with room for a hole, a deletion or a restart; all
  four writers at once are left to the proofs. A file is made again under its
  deletion, a room is forgotten and saved, and all six holes occur. About
  1 249 000 states.
* `doc_store`: one editor makes three edits, undos or redos, the other one; two
  nodes under the root, of which one exists at first; one property besides
  "deleted"; one client may be sent the file once, in place of one edit (`Few`).
  Two moves into each other, a node created and deleted, a concurrent write to one
  register, an undo of what another changed, and a batch under way while the file
  is sent all occur. The first sessions are 1 and 3, that of the new document is 2,
  so that it wins ties with one editor and loses them to the other. About 239 000
  states. `doc_store_newcomer` needs one node and one property only.
* `voice_jobs`: two jobs of one upload, one worker (so that one waits), two
  permits, one failing call, two starts. A job is cancelled while it waits, is
  picked up, runs, or ends, and the failing call may be any; the upload may be
  swept at any moment. About 691 000 states, with the liveness property.

The counters bounded by a constant (`MaxConn`, `Quota`, `MaxVersion`, `MaxEpoch`,
`MaxMem`, `MaxFail`, `MaxLives`, `MaxRoom`, `MaxWork`, `MaxEdit`, `MaxStart`,
`MaxRelease`, `MaxLoad`, `MaxFault`) are unbounded in the code;
a bound only disables the action at its limit. `Few` in MC_FileStore and
MC_DocStore are constraints of the run, not of the specification. Deadlock is not checked: people
may stop editing, and then everything rests.

**Fairness.** Weak fairness is given to what the code does by itself: timers fire
(`setTimeout`), the event loop serves messages that came, a closed client tries
again (`setTimeout(connect)`), reads and writes that were begun end. Nothing
obliges people to come, edit, say hello or leave, nor connections to break.
`ClientClose` is fair only where the server has closed the connection: the close
frame, or the ping, is noticed. In RoomSave no fairness is given to failures,
and the number of failures is bounded: a disk that fails for ever saves nothing.
In VoiceJobs a request that has begun goes on (`Create`), the executor serves
waiting futures (`Pick`), a worker goes on (`Work`), and so does a cancellation
that holds the lock (`EndCancel`); nobody has to ask, cancel, sweep or stop.

## Findings

Five runs expect a violation; PROJECT.json quotes the lines.

1. `ConfirmedWorkCounts`: after a reconnect `flush` does not wait for the welcome
   of the *new* connection, and unconfirmed batches are taken back newest first.
   A change may thus reach the room before the change it depends on; it is
   rejected, confirmed, and dropped by the client.
2. `EveryoneLeftIsKept`: `checkpoint` clears `authors` after an await.
3. `OneRoomPerFile`: release counts only people who said hello.
4. `ForgottenIsSaved`: of two overlapping releases the first forgets the room
   while the save of the second is being written.
5. `SameFileEverywhere`: who is sent the file while a batch of its own is under way
   gets a document without that batch, and nothing brings it back; everyone else
   has it. A snapshot also leaves deleted nodes out although a deletion can be
   undone: the newcomer then rejects the operation that brings the node back. The
   run finds the first way, which is shorter.

Known and not counted as findings: the two gaps of LiveSync, the work a
snapshot drops (`dropped`), and the next edit on top of that work, which may be
older than it (`unseen` in DocStore); the holes of FileStore above, and a document
brought back by somebody who held a room while the file was deleted (`late`); moves
into each other, which replicas may resolve differently; a permit lost by a
failing `mkdir`, or with the report or the row by a failing call in `cancel`; jobs that shutdown leaves queued until the next process; a picture whose write
failed is not written again (`PicturesFirst` allows for it); a crash between
document and record leaves a newer document under an older version
(`VersionsKeepWord` excepts it by `torn`); changes confirmed after SIGTERM while
`flushAll` waits are lost (`StopSavesWhatItFound` covers what the room held when
stopping began); the limit of connections per address is checked before the
awaits and counted after them, so it is soft.

## Proofs

Every theorem holds for all values of the constants that satisfy the assumption
of its module. `tlapm M.tla` checks module M.

### RoomSave

`SaveAssumption`: natural numbers, `Picture \subseteq 1 .. MaxMem`,
`SaveAfter <= SaveAtLeast`. RoomSave_proofs has:

| Theorem | Statement |
| --- | --- |
| `SaveTypes` | `Spec => []TypeOK` |
| `NoChangeSlips` | `Spec => []NothingSlips` |
| `SavesInTime` | `Spec => []SavedInTime` |
| `SaveImplementsDurable` | `Spec => DurableSpec` |
| `PicturesGoFirst` | `Spec => []PicturesFirst` |
| `VersionsAreHonest` | `Spec => []VersionsKeepWord` |
| `StopSaves` | `Spec => []StopSavesWhatItFound` |

`NothingSlips` is not inductive alone: that the last save of the chain holds the
document in memory says nothing about the steps in between. The invariant `IInv`
adds that the chain is in order and lies between the stored copy and memory
(`ChainInOrder`), that after `WriteDocument` the stored copy is the head of the
chain (`StageInOrder`), and that a running timer never fires past the time left
(`TimerInTime`: `age + timer <= SaveAtLeast`), from which `SavedInTime` follows.
The refinement then needs only that a write moves the stored copy forward and
never past memory, which is `ChainInOrder`, and that opening from disk is `Lose`.
The proof that a step keeps `IInv` has one lemma per group of actions.

The three theorems about the disk each put an invariant of their own on top:
`PicturesPlaced` (each picture of the document in memory is written, lost or
being written; the head of the chain waits for those of its document, which are
among those of memory because the chain is in order), `VersionsServed` (the
version on disk is one that could be loaded, and the room opened from it says
the same of it), and `StopCovered` (the save that stopping waits for, counted
from the head of the chain, holds at least what memory held; when stopping
finds nothing changed, `NothingSlips` says where that is).

### LiveHub

`HubAssumption`: a finite set of connections, natural numbers. LiveHub_proofs has:

| Theorem | Statement |
| --- | --- |
| `HubTypes` | `Spec => []TypeOK` |
| `EveryoneTogether` | `Spec => []Together` |
| `EverythingIsFound` | `Spec => []NewcomersGetEverything` |
| `WorkIsKept` | `Spec => []WorkWillBeSaved` |
| `OccupiedStays` | `Spec => OccupiedIsKept` |

What people in the room of the map keep is decided by the rooms that are *not*
in the map: while nothing stray happened none of them has anything to save
(`OnlyMapSaves`), so that only the room of the map writes the file, and all the
changes are where `AllThere` says: in its document once read, in its last save
unless it changed since, on disk when it has nothing to save. `Seated` says that
whoever got a room got an open one, `Known` that no document holds changes not
made yet. `OccupiedIsKept` follows step by step from `Seated`: only `AskRoom`,
`OpenFails` and `Forget` write the map, and each is excluded by its guard or by
the room being open.

### VoiceJobs

`JobsAssumption`: a finite set of jobs, `Main` names an upload for each, at least
one worker and one permit. VoiceJobs_proofs has:

| Theorem | Statement |
| --- | --- |
| `JobTypes` | `Spec => []TypeOK` |
| `PermitsBalance` | `Spec => []PermitsAccounted` |
| `InputsSurvive` | `Spec => []InputsKept` |
| `CancellationCounts` | `Spec => []CancelInTimeCounts` |
| `FilesAreAsTold` | `Spec => []FilesMatch` |
| `EndsAreFinal` | `Spec => EndedStaysEnded` |

The code never writes down what a thread may rely on when it takes up a job:
that is `Phases`, which says for each row how far the request, the future and
the worker of its job can be. Whoever is about to write a row finds it
unfinished, which is all `EndsAreFinal` needs, and gives back a permit that the
job holds. Each step then keeps the permits, loses one, takes one or returns one
(`Keeps`, `Loses`, `Takes`, `Returns`), and `Balance` counts. `Inputs` adds that
the upload of an unfinished job still has its row, so that a sweep, which only
removes files of uploads whose rows it removed, leaves it alone; `Early` that the
event of a job cancelled in time is set while a worker may still look at it;
`Files` where the result is while the end of a job is being recorded. A
cancellation that fails halfway leaves a future that is cancelled and not
forgotten: `Phases` says that while the service works these are exactly the jobs
being cancelled and those in `broken`, and that each still holds its permit. `Swept`
says pointwise what a sweep does to rows and uploads; `CleanRows`, `StartAgain`
and `Restart` share it.

### FileStore

`StoreAssumption`: finite sets of tabs and of rooms without a member in common,
`None` not a room, at least one start, natural numbers.
FileStore_proofs has:

| Theorem | Statement |
| --- | --- |
| `StoreTypes` | `Spec => []TypeOK` |
| `AcceptedStays` | `Spec => []AcceptedIsKept` |
| `DeletionIsWhole` | `Spec => []DeletedIsGone` |
| `VersionsGoUp` | `Spec => VersionsGrow` |

Accepted work is not always in the document on disk: between `Update` and
`WriteDocument` the record is ahead of it, and a room writes in the other order.
So the invariant `Carried` follows what the version in the record *stands for*:

* `Stored`: it holds all accepted work, and is in the document or with the one tab
  that is writing it; while that tab writes, no room is alive.
* `Roomed`: outside the holes only one room is alive, in the map or forgotten, and
  it has that work in its document and in every save of its chain; each save has
  all that those before it had. So a room that was forgotten with a save to come,
  or goes on because somebody holds it, saves over nothing it has not read.
* `Loaded`: whoever loaded that version has it in hand.

That only one tab may be writing follows from versions: one that passed the check
does not pass it again, which needs `CacheIsTrue` (the cache says what the disk
says, but for the late read named `stale`) and `Unseen` (the last change of a tab is
nowhere else until the tab writes it, so that no two tabs write the same). `Whole`
relates record, document and versions during a deletion and after it: unless
something named happened, whoever may still write has a record. `Unopened` and
`Staged` say what a room that is not open, or has no save under way, cannot have.

The bound on versions is no bound of the model: each version is paid for by a
change. `Numbers` compares a version with the changes made (`Made`, a finite set)
less the saves rooms still have to make (`Owed`), and `FewSaves` bounds the saves
that wait in a room, failed ones included, by the changes made in it; this is what
the lemmas about cardinalities are for. Every step is described once as what it
does to the chain of one room (`Calls`, `Ends`, `Calm`) and to the documents
(`DocMoves`, `MineMoves`, `RoomDocMoves`, `ChainMoves`), and the invariants are
followed through these forms. `hole` and `late` appear as hypotheses exactly where
the properties have them.

### LiveSync

`SyncAssumption`: bounds that are natural numbers (for each client, where they
are its own), and `Needs` and `Pictures` over the operations. LiveSync_proofs has:

| Theorem | Statement |
| --- | --- |
| `SyncTypes` | `Spec => []TypeOK` |
| `WorkIsKept` | `Spec => []NoWorkLost` |
| `StreamsInOrder` | `Spec => []StreamInOrder` |
| `AllWorkIsThere` | `Spec => []AllWorkArrives` |

`NoWorkLost` looks at the client and the room; why it stays true is decided by
what is on the way between them. A confirmation must be for a batch the room
took *under that number*, and the client must not meanwhile have given the
number to other work: `OnTheWay` says of every batch in `up` that the client
still keeps exactly it under its number, or has taken it back, and of every
confirmation in `down` and `held` that the work under its number, if still kept,
has been received. `Receive` turns the first into the second. Numbers are never
given twice (`Numbered`). `StreamInOrder` becomes inductive as `Streams`: a
welcome or nothing, then one message for each number after the last one read.
`Greet` begins such a stream, with the log (which is numbered one by one up to
`seq`, whatever `KeepLatest` drops: `LogInOrder`) or with a snapshot that is
still being prepared; `Receive` adds the next number to it wherever it is waiting
then; and nothing was on the way before (`Beginning`).

What a client takes back on "welcome" is a recursive function over the numbers of
its batches (`PutBack`). That it exists and what is in its last value are proved
by induction: the theorems of the library that take a property as an operator
cannot be used here, so `AllNumbers` (SequenceFacts) says it of a set of numbers,
from the well-foundedness of `<`, and each use names its set. SequenceFacts also
says what is in a sequence that was joined, begun or shortened.

`AllWorkArrives` compares a document with another that may be many batches ahead,
and whether an operation takes effect depends on what was there before it
(`Needs`). The invariant `AInv` therefore places everything in the history `past`
of the room's document, which only grows:

* `Stored`: the document on disk, each one being saved and the batch each version
  is said to contain are points of that history, in order. This is where it
  matters that the batch is noted as it was at the call of save.
* `Contents`: each message that a client has still to read from the open room is
  `Right`: a snapshot *is* `past[n]`; a batch leads from `past[n-1]` to `past[n]`;
  a confirmation leads there with the work its client keeps from that number on.
  The last is the delicate one. It needs that a batch on its way to the room is
  kept by its client under that number or in a later batch (`InLine`), and that
  confirmations come in the order of the numbers, so that reading one never
  discards work an earlier one stands for (`Rising`).
* `Shown`: a client that has not dropped work shows all it keeps. So reading a
  confirmation, which changes nothing on the screen, is no loss.
* `Orderly` and `HelloTrue`: what is to be read is numbered one by one also on a
  connection the server has closed, and the hello on its way tells what the client
  has.
* `Holds`: a client without a gap has `past[n]` in its document for the `n` of the
  version it was loaded with, for the batch it says it has, and for the batch it
  has read, except where the whole file comes next.

That operations take effect in a larger document if they do in a smaller one
(`ApplyGrows`) carries `past[n-1]` to `past[n]` in a document that has more. What
was read, `cursor`, is the room's `seq` when nothing is left to read (`Streams`),
and `past[seq]` is the document of the room. Each step is described once for a
connection (`StreamSteps`, `UpSteps`) and once for a client (`ClientSteps`); the
invariants are followed through these few forms instead of all actions.

### DocStore

`DocAssumption` and `FirstAssumption`: sessions are positive numbers, the clients
begin with different ones, a finite set of nodes with the root among them and "no
node" not, properties with "deleted" among them, bounds that are natural numbers.

| Theorem | Module | Statement |
| --- | --- | --- |
| `DocTypes` | DocStore_proofs | `Spec => []TypeOK` |
| `TreesStaySound` | DocStore_proofs | `Spec => []TreeSound` |
| `HistoryTold` | DocStore_proofs | `Spec => []HistoryTellsTheFile` |
| `RegistersMerge` | DocMerge_proofs | `Spec => []RegistersAgree` |
| `PlacesMerge` | DocMerge_proofs | `Spec => []PlacesAgree` |
| `EditsAreNotLost` | DocMerge_proofs | `Spec => []EditsCount` |

`TreeSound` speaks of `Above`, which climbs as many steps as there are nodes.
`AboveIs` says what it ends with: the least set with the node in it that is closed
under parents, because a set that grows at each step has no room to grow longer
(an induction on its cardinality). Seen so, a document is a tree when every set of
its nodes has a member whose parent is outside, which each operation keeps:
the check of `canMove` in the replica where the move is applied is all that is
needed. Types are kept with it (`Typed`): the batches on the way hold operations
with real times, the histories hold steps on nodes other than the root, and no
document has a time its clock is not past.

Convergence is an agreement about times. Of all the writes to a register a
document keeps the latest, whatever the order (`OverApply`, `AfterOver`), so
`Level` says: the latest time a client has, counting what is on its way to it, is
the latest the room has, counting what the client has not sent. When nothing is
under way the times are equal, and `OneValue` (one value for each time of a
register, over everything that is held or under way) makes the values equal. Two
invariants carry these. `Causal`: each operation fits where it will be applied,
the nodes it names are there or created earlier on the same way; otherwise
`applySet` drops it. `Dated`: the clock of a client is past every time of its
session that can still be seen. Being sent the file sets the clock back to that of
the room at the snapshot, below times the client itself gave; but the new document
has a session no document had before (`Known`: nobody wrote in one), so that no
time is given twice. A move that `canMove` rejects leaves the register older than the batch: `barred`
notes it, and places are level as long as it is not set.

`EditsCount` adds three. `Noticed`: the time of each property in the room is one
the client's clock has passed, or is on its way to it, or belongs to work of its
own it does not see; and the same of the clock a file on its way came with, the
batches that will be sent after it, and the work of the client the room got since
the snapshot (this is what the clock told along with the file is for). `Kept`: the
same of what the client keeps for the room. `AloneLeads`: an edit whose author saw
all work on its property is not older than what the room has, nor than what the
author itself wrote before and the room has not got. `EditCounts` follows such an
edit through its batch.

`HistoryTellsTheFile` speaks of the file and of the undo history as they are;
whether a step can be undone depends on the tree as it was when it was made. So
the invariant `Told` says that documents exist the steps of the history lead
through (`Tells`): the first is the file as it began, each step changes its one
register from what it found to what it left, the last is the file now, and all
are trees with the same nodes. A node made on the way is as if deleted in those
before its creation (`Widened`), which is why the step of a creation says
"deleted: 1, then 0". The place a node had before the last step makes no cycle in
the file now, as the two trees differ in that place alone: the last step can
always be undone (`TellsTop`), an undo never has to drop a step, and `UndoNothing`
never happens to a client that nothing of others has reached. What a history says
of a register follows by going through the documents since the last step on it
(`TellsSince`).

### Only model-checked

The liveness properties `ChangesGetSaved`, `LastOneOutForgets`,
`WorkGetsConfirmed`, `WorkGetsAround`, `EveryJobEnds`: fairness and ENABLED are
out of the prover's reach. Every invariant and action property of the passing
runs is a theorem.

## What is left

1. LiveHub extended by roles (`recheckAccess`) and `signedOut`, LiveSync by the
   `error` and `role` messages and the offline copy: both change what is proved.
2. Version history: thinning of the list, pictures shared between versions.
3. The lock of the master file (`voice/backend/master_lock.py`): expiry against a
   take-over by another session of the same person.

## Not modelled

The editor's interface, geometry, layout, rendering, generated and vendored code:
one user, one thread, and data rather than control. Spreadsheets, mapping and
import of Voice: transformations row by row. The reporting backend: each handler
is one transaction of PostgreSQL. The reporting frontend, deployment and SQL
scripts. Access rules, teams and sign-in: decisions over records. Merge of
branches and restoring of versions: pure functions whose results are operations
like any other. These are most of the lines of the repository, which is why the
modules cover a small share of it: the share that runs concurrently.
