------------------------------ MODULE LiveIndex ------------------------------
(***************************************************************************)
(* The resident index of src/live_index: native watchers feed a bounded    *)
(* queue, one worker debounces the queue into batches and re-reads the     *)
(* files a batch names under the write lock of the in-memory index, and    *)
(* callers search it, apply events of their own, ask for its status, stop  *)
(* it and start it again.                                                  *)
(*                                                                         *)
(* A file is RootOf[f]'s; its content is a member of Content, Absent when  *)
(* there is no such file.  A snapshot maps every file to a content: it     *)
(* stands for the entries of a PersistentIndex.  The file system, the      *)
(* notification service of the kernel and the event adapter of             *)
(* weavatrix-scan are external and modelled by what the code relies on.    *)
(***************************************************************************)
EXTENDS Naturals, Sequences, SequencesExt

CONSTANTS
  NRoots,            \* number of roots, visited in order by apply_batch
  File,              \* indexable files, all roots together
  RootOf,            \* the root of a file
  Content, Absent,   \* contents of a file; Absent is one of them
  Artifact,          \* the index file and its .lock, .tmp, .backup siblings
                     \* that lie inside a watched root ({} when none does)
  Client,            \* threads that call search, apply_events and status
  BufferSize,        \* LiveIndexOptions::event_buffer
  PersistEachBatch,  \* LiveIndexOptions::persist_each_batch
  RebuildOnStart,    \* LiveIndexOptions::rebuild_on_start
  MaxCount,          \* largest value of the u64 counters
  Bound,             \* bounds of a run: how often each thing in Budget happens
  Worker, Main, NoOne, NoIndex, NoFile, Closed, Torn    \* distinct values

\* What a run bounds: disk writes, calls of a client, starts, faults.
Budget == {"write", "call", "start", "fault"}

ASSUME RootsAssumption == /\ NRoots \in Nat \ {0}
                          /\ RootOf \in [File -> 1..NRoots]
ASSUME ContentAssumption == /\ Absent \in Content
                            /\ Closed \notin Content
                            /\ Torn \notin Content
                            /\ Torn # Closed
ASSUME OptionsAssumption == /\ BufferSize \in Nat \ {0}
                            /\ PersistEachBatch \in BOOLEAN
                            /\ RebuildOnStart \in BOOLEAN
                            /\ MaxCount \in Nat \ {0}
                            /\ Bound \in [Budget -> Nat]
ASSUME ActorAssumption == /\ Worker # Main
                          /\ NoOne \notin Client \cup {Worker, Main}
                          /\ {Worker, Main} \cap Client = {}
ASSUME NoIndexAssumption == NoIndex \notin [File -> Content]

VARIABLES
  disk,        \* what the file system holds
  notices,     \* kernel notifications the watcher thread has not delivered yet
  callback,    \* the watcher callback: "idle", or "full" between a failed
               \* try_send and the store to the overflow flag
  queue,       \* the bounded channel of LiveMessage
  overflowed,  \* Shared::overflowed
  worker,      \* where live_worker is; "none" before it is spawned
  batch,       \* its events
  force,       \* its force_rescan
  stopAfter,   \* its stop_after_batch
  writer,      \* who holds the write lock of Shared::index (Main while start
               \* builds an index that nobody shares yet)
  stage,       \* what the holder is doing
  root,        \* next root of the loop of apply_batch
  reports,     \* reports of the batch not recorded yet
  targets,     \* files the running update has still to read
  reading,     \* content seen by an open file read, Torn once it changed
  staged,      \* the entries the running update will install
  index,       \* Shared::index
  persisted,   \* the index file on disk (see IndexStorage)
  dirty, batches, generation, lastError,       \* Shared
  main,        \* the owner of the LiveIndex: start, stop
  outcome,     \* result of the last stop
  call,        \* what each client is in the middle of
  seen,        \* the snapshot a client's call started with
  used         \* budget spent so far

environment == <<disk, notices>>
channel     == <<callback, queue, overflowed>>
collected   == <<batch, force, stopAfter>>
lock        == <<writer, stage>>
update      == <<root, reports, targets, reading, staged>>
health      == <<dirty, batches, generation, lastError>>
owner       == <<main, outcome>>
clients     == <<call, seen>>
vars == <<environment, channel, worker, collected, lock, update, index,
          persisted, health, owner, clients, used>>

-----------------------------------------------------------------------------
(* Data *)

Snapshot == [File -> Content]
NoEntries == [f \in File |-> Absent]
FilesOf(r) == {f \in File : RootOf[f] = r}

Lost == [kind |-> "lost", file |-> NoFile]      \* Err(notify::Error)
Stop == [kind |-> "stop", file |-> NoFile]      \* LiveMessage::Stop
Event == [kind : {"change", "structural"}, file : File]
           \cup [kind : {"artifact"}, file : Artifact]
Notice == Event \cup {Lost}
Message == Notice \cup {Stop}

\* A watcher may deliver.  From stop on it need not: dropping it (api.rs,
\* stop_inner) asks its thread to end, and nothing says when it does, so a late
\* callback may run up to the end of stop, before and after Stop is sent.
Watched == main \in {"building", "running"}
Watching == main # "off"

Spend(what) == /\ used[what] < Bound[what]
               /\ used' = [used EXCEPT ![what] = @ + 1]

\* What the watchers see of a save that has written these of its files.
ArtifactNotices(files) ==
  notices' = IF Watching THEN notices \cup [kind : {"artifact"}, file : files]
                         ELSE notices

Readers == {c \in Client : call[c] = "search"}
\* Slip: an update does not wait for the searches.
LockFreeOfWriters == writer = NoOne
LockFree == writer = NoOne /\ Readers = {}

\* Slip: the index's own files are not filtered.
RelevantWithArtifacts(r) ==
  {e \in batch : e.kind = "artifact" \/ RootOf[e.file] = r}
\* The events of the batch that is_index_artifact lets through, for one root.
Relevant(r) == {e \in batch : e.kind # "artifact" /\ RootOf[e.file] = r}
Structural(r) == \E e \in Relevant(r) : e.kind = "structural"

-----------------------------------------------------------------------------
(* Files and their notifications *)

\* Somebody changes a file.  A change the adapter cannot attribute to the one
\* file (an ignore file, a directory, a rename) is structural.  A read of the
\* file that is under way will be reported as ContentFileStatus::Changed.
WriteFile(f, c, kind) ==
  /\ disk[f] # c
  /\ Spend("write")
  /\ disk' = [disk EXCEPT ![f] = c]
  /\ notices' = IF Watching THEN notices \cup {[kind |-> kind, file |-> f]}
                            ELSE notices
  /\ reading' = [reading EXCEPT ![f] = IF @ = Closed THEN Closed ELSE Torn]
  /\ UNCHANGED <<channel, worker, collected, lock, root, reports, targets,
                 staged, index, persisted, health, owner, clients>>

\* The kernel gives up on some notifications and reports that it did.
KernelDrops ==
  /\ Watching
  /\ Spend("fault")
  /\ \E gone \in SUBSET notices \ {{}} : notices' = (notices \ gone) \cup {Lost}
  /\ UNCHANGED <<disk, channel, worker, collected, lock, update, index,
                 persisted, health, owner, clients>>

\* Slip: a full queue is ignored like a disconnected one.
DeliverOrForget(e) ==
  /\ Watching
  /\ callback = "idle"
  /\ e \in notices
  /\ notices' = notices \ {e}
  /\ queue' = IF worker # "done" /\ Len(queue) < BufferSize
                THEN Append(queue, e) ELSE queue
  /\ UNCHANGED <<disk, callback, overflowed, worker, collected, lock, update,
                 index, persisted, health, owner, clients, used>>

\* The watcher callback: one try_send.  On Full the message is gone and the
\* flag is stored afterwards, in a step of its own.
Deliver(e) ==
  /\ Watching
  /\ callback = "idle"
  /\ e \in notices
  /\ notices' = notices \ {e}
  /\ \/ /\ worker = "done"                       \* TrySendError::Disconnected
        /\ UNCHANGED <<callback, queue>>
     \/ /\ worker # "done"
        /\ Len(queue) < BufferSize
        /\ queue' = Append(queue, e)
        /\ UNCHANGED callback
     \/ /\ worker # "done"
        /\ Len(queue) = BufferSize               \* TrySendError::Full
        /\ callback' = "full"
        /\ UNCHANGED queue
  /\ UNCHANGED <<disk, overflowed, worker, collected, lock, update, index,
                 persisted, health, owner, clients, used>>

StoreOverflow ==
  /\ callback = "full"
  /\ overflowed' = TRUE
  /\ callback' = "idle"
  /\ UNCHANGED <<environment, queue, worker, collected, lock, update, index,
                 persisted, health, owner, clients, used>>

-----------------------------------------------------------------------------
(* The worker collects a batch *)

\* collect_event: an event joins the batch, a notify error forces a rescan.
Collect(m, events, forced) ==
  /\ batch' = IF m = Lost THEN events ELSE events \cup {m}
  /\ force' = (forced \/ m = Lost)
  /\ lastError' = (lastError \/ m = Lost)

WorkerReceives ==
  /\ worker = "recv"
  /\ queue # <<>>
  /\ queue' = Tail(queue)
  /\ IF Head(queue) = Stop
       THEN /\ worker' = "done"
            /\ UNCHANGED <<overflowed, batch, force, lastError>>
       ELSE /\ worker' = "collect"
            /\ overflowed' = FALSE
            /\ Collect(Head(queue), {}, overflowed)
  /\ UNCHANGED <<environment, callback, stopAfter, lock, update, index, persisted,
                 dirty, batches, generation, owner, clients, used>>

WorkerCollects ==
  /\ worker = "collect"
  /\ queue # <<>>
  /\ Head(queue) # Stop
  /\ queue' = Tail(queue)
  /\ Collect(Head(queue), batch, force)
  /\ UNCHANGED <<environment, callback, overflowed, worker, stopAfter, lock,
                 update, index, persisted, dirty, batches, generation, owner,
                 clients, used>>

\* Slip: the second swap clears the flag and forgets what it said.
DebounceEndsForgetful ==
  /\ worker = "collect"
  /\ \/ /\ queue # <<>>
        /\ Head(queue) = Stop
        /\ queue' = Tail(queue)
        /\ stopAfter' = TRUE
     \/ UNCHANGED <<queue, stopAfter>>
  /\ worker' = "lock"
  /\ overflowed' = FALSE
  /\ UNCHANGED <<environment, callback, batch, force, lock, update, index,
                 persisted, health, owner, clients, used>>

\* Slip: Stop ends the debounce loop only.
DebounceEndsDeaf ==
  /\ worker = "collect"
  /\ queue' = IF queue # <<>> /\ Head(queue) = Stop THEN Tail(queue) ELSE queue
  /\ worker' = "lock"
  /\ force' = (force \/ overflowed)
  /\ overflowed' = FALSE
  /\ UNCHANGED <<environment, callback, batch, stopAfter, lock, update, index,
                 persisted, health, owner, clients, used>>

\* The loop of the debounce delay ends, on Stop or when the delay is over, and
\* the flag is swapped a second time.
DebounceEnds ==
  /\ worker = "collect"
  /\ \/ /\ queue # <<>>
        /\ Head(queue) = Stop
        /\ queue' = Tail(queue)
        /\ stopAfter' = TRUE
     \/ UNCHANGED <<queue, stopAfter>>
  /\ worker' = "lock"
  /\ force' = (force \/ overflowed)
  /\ overflowed' = FALSE
  /\ UNCHANGED <<environment, callback, batch, lock, update, index, persisted,
                 health, owner, clients, used>>

-----------------------------------------------------------------------------
(* apply_batch: the loop over the roots, under the write lock *)

\* What follows a batch: the worker goes back to recv, or leaves the loop.
BatchOver == /\ worker' = IF stopAfter THEN "done" ELSE "recv"
             /\ batch' = {}
             /\ force' = FALSE

ResetUpdate == /\ root' = 1
               /\ reports' = 0
               /\ targets' = {}
               /\ reading' = [f \in File |-> Closed]
               /\ staged' = NoEntries

\* The holder of the write lock returns Ok, or an error: the worker still has
\* to store its own, a client hands it to its caller, start gives up.
Return(ok) ==
  /\ writer' = NoOne
  /\ stage' = "idle"
  /\ ResetUpdate
  /\ \/ /\ writer = Worker
        /\ IF ok THEN BatchOver
                 ELSE worker' = "failed" /\ UNCHANGED <<batch, force>>
        /\ UNCHANGED <<main, call>>
     \/ /\ writer = Main
        /\ main' = IF ok THEN "running" ELSE "off"
        /\ worker' = IF ok THEN "recv" ELSE worker
        /\ UNCHANGED <<batch, force, call>>
     \/ /\ writer \in Client
        /\ call' = [call EXCEPT ![writer] = "none"]
        /\ UNCHANGED <<worker, batch, force, main>>

\* PersistentIndex::update with the files of a plan: the other entries stay.
BeginChangedFiles(files) ==
  /\ stage' = "scan"
  /\ targets' = files
  /\ staged' = index

\* PersistentIndex::rebuild, or build: every file of every root is read.
BeginRebuild ==
  /\ stage' = "scan"
  /\ targets' = File
  /\ staged' = NoEntries

WorkerLocks ==
  /\ worker = "lock"
  /\ LockFree
  /\ writer' = Worker
  /\ stage' = "plan"
  /\ worker' = "apply"
  /\ UNCHANGED <<environment, channel, collected, update, index, persisted,
                 health, owner, clients, used>>

\* One turn of the loop.  A full rescan, forced or asked for by the plan of the
\* root, covers all roots and ends the loop; an empty plan skips the root.
PlanRoot ==
  /\ writer = Worker
  /\ stage = "plan"
  /\ root <= NRoots
  /\ \/ /\ force \/ Structural(root)
        /\ BeginRebuild
        /\ root' = NRoots + 1
     \/ /\ ~force /\ ~Structural(root) /\ Relevant(root) # {}
        /\ BeginChangedFiles({e.file : e \in Relevant(root)} \cap File)
        /\ root' = root + 1
     \/ /\ ~force /\ Relevant(root) = {}
        /\ root' = root + 1
        /\ UNCHANGED <<stage, targets, staged>>
  /\ UNCHANGED <<environment, channel, worker, collected, writer, reports,
                 reading, index, persisted, health, owner, clients, used>>

BatchApplied ==
  /\ writer = Worker
  /\ stage = "plan"
  /\ root > NRoots
  /\ IF reports = 0
       THEN Return(TRUE)
       ELSE /\ stage' = "record"
            /\ UNCHANGED <<writer, worker, batch, force, update, main, call>>
  /\ UNCHANGED <<environment, channel, stopAfter, index, persisted, health,
                 outcome, seen, used>>

-----------------------------------------------------------------------------
(* PersistentIndex::update, for whoever holds the write lock *)

\* A content worker opens a file and reads it ...
OpenFile(f) ==
  /\ stage = "scan"
  /\ f \in targets
  /\ reading[f] = Closed
  /\ reading' = [reading EXCEPT ![f] = disk[f]]
  /\ UNCHANGED <<environment, channel, worker, collected, lock, root, reports,
                 targets, staged, index, persisted, health, owner, clients, used>>

\* ... and EntryBuilder::finish keeps it, unless it changed meanwhile: then the
\* file has no entry at all.
FinishFile(f) ==
  /\ stage = "scan"
  /\ f \in targets
  /\ reading[f] # Closed
  /\ staged' = [staged EXCEPT ![f] = IF reading[f] = Torn THEN Absent
                                                          ELSE reading[f]]
  /\ reading' = [reading EXCEPT ![f] = Closed]
  /\ targets' = targets \ {f}
  /\ UNCHANGED <<environment, channel, worker, collected, lock, root, reports,
                 index, persisted, health, owner, clients, used>>

\* The scanner answers FullRescanRequired to a plan of changed files.
Escalate ==
  /\ stage = "scan"
  /\ writer # Main
  /\ targets # File
  /\ reading = [f \in File |-> Closed]
  /\ Spend("fault")
  /\ BeginRebuild
  /\ UNCHANGED <<environment, channel, worker, collected, writer, root, reports,
                 reading, index, persisted, health, owner, clients>>

\* All files are read: the new entries replace the old ones at once.
Install ==
  /\ stage = "scan"
  /\ targets = {}
  /\ index' = staged
  /\ stage' = IF writer = Worker THEN "plan"
              ELSE IF writer = Main THEN "save" ELSE "record"
  /\ reports' = IF writer = Main THEN 0 ELSE reports + 1
  /\ UNCHANGED <<environment, channel, worker, collected, writer, root, targets,
                 reading, staged, persisted, health, owner, clients, used>>

\* The scanner, an allocation or a limit fails: the index is as it was.
UpdateFails ==
  /\ stage = "scan"
  /\ Spend("fault")
  /\ Return(FALSE)
  /\ UNCHANGED <<environment, channel, stopAfter, index, persisted, health,
                 outcome, seen>>

\* Slip: the report is counted but the snapshot is not marked.
RecordReportUnmarked ==
  /\ stage = "record"
  /\ batches' = (batches + 1) % (MaxCount + 1)
  /\ stage' = "generation"
  /\ UNCHANGED <<environment, channel, worker, collected, writer, update, index,
                 persisted, dirty, generation, lastError, owner, clients, used>>

\* record_update, up to the mutex of the generation ...
RecordReport ==
  /\ stage = "record"
  /\ dirty' = TRUE
  /\ batches' = (batches + 1) % (MaxCount + 1)
  /\ stage' = "generation"
  /\ UNCHANGED <<environment, channel, worker, collected, writer, update, index,
                 persisted, generation, lastError, owner, clients, used>>

\* ... and under it; after the last report the batch is saved, or over.
BumpGeneration ==
  /\ stage = "generation"
  /\ generation' = IF generation = MaxCount THEN generation ELSE generation + 1
  /\ IF reports = 1 /\ ~PersistEachBatch
       THEN Return(TRUE)
       ELSE /\ reports' = reports - 1
            /\ stage' = IF reports = 1 THEN "save" ELSE "record"
            /\ UNCHANGED <<writer, worker, batch, force, root, targets, reading,
                           staged, main, call>>
  /\ UNCHANGED <<environment, channel, stopAfter, index, persisted, dirty,
                 batches, lastError, outcome, seen, used>>

\* PersistentIndex::save, whose own steps are those of IndexStorage.  Its files
\* are seen by the watchers when they lie inside a root.
Save ==
  /\ stage = "save"
  /\ persisted' = index
  /\ ArtifactNotices(Artifact)
  /\ stage' = "saved"
  /\ UNCHANGED <<disk, channel, worker, collected, writer, update, index, health,
                 owner, clients, used>>

\* Slip: dirty is cleared whatever save returned.
SaveFailsClean ==
  /\ stage = "save"
  /\ Spend("fault")
  /\ persisted' \in {persisted, index}
  /\ \E files \in SUBSET Artifact : ArtifactNotices(files)
  /\ dirty' = FALSE
  /\ Return(FALSE)
  /\ UNCHANGED <<disk, channel, stopAfter, index, batches, generation, lastError,
                 outcome, seen>>

\* The error of the path comes when the index file is replaced already.
SaveFails ==
  /\ stage = "save"
  /\ Spend("fault")
  /\ persisted' \in {persisted, index}
  /\ \E files \in SUBSET Artifact : ArtifactNotices(files)
  /\ Return(FALSE)
  /\ UNCHANGED <<disk, channel, stopAfter, index, health, outcome, seen>>

MarkClean ==
  /\ stage = "saved"
  /\ dirty' = FALSE
  /\ Return(TRUE)
  /\ UNCHANGED <<environment, channel, stopAfter, index, persisted, batches,
                 generation, lastError, outcome, seen, used>>

\* Slip: the error of a batch is dropped with the batch.
RecordFailureSilent ==
  /\ worker = "failed"
  /\ BatchOver
  /\ UNCHANGED <<environment, channel, stopAfter, lock, update, index, persisted,
                 health, owner, clients, used>>

\* The worker stores the error apply_batch returned.
RecordFailure ==
  /\ worker = "failed"
  /\ lastError' = TRUE
  /\ BatchOver
  /\ UNCHANGED <<environment, channel, stopAfter, lock, update, index, persisted,
                 dirty, batches, generation, owner, clients, used>>

\* A panic of the update unwinds out of live_worker: the lock is poisoned, which
\* every user ignores, and the spawned closure records the panic and ends.
WorkerPanics ==
  /\ stage = "scan"
  /\ writer = Worker
  /\ Spend("fault")
  /\ writer' = NoOne
  /\ stage' = "idle"
  /\ ResetUpdate
  /\ worker' = "failed"
  /\ stopAfter' = TRUE
  /\ UNCHANGED <<environment, channel, batch, force, index, persisted, health,
                 owner, clients>>

-----------------------------------------------------------------------------
(* Callers *)

StartSearch(c) ==
  /\ main = "running"
  /\ call[c] = "none"
  /\ writer = NoOne
  /\ Spend("call")
  /\ call' = [call EXCEPT ![c] = "search"]
  /\ seen' = [seen EXCEPT ![c] = index]
  /\ UNCHANGED <<environment, channel, worker, collected, lock, update, index,
                 persisted, health, owner>>

EndSearch(c) ==
  /\ call[c] = "search"
  /\ call' = [call EXCEPT ![c] = "none"]
  /\ seen' = [seen EXCEPT ![c] = NoEntries]
  /\ UNCHANGED <<environment, channel, worker, collected, lock, update, index,
                 persisted, health, owner, used>>

\* status takes the read lock for the index part only ...
ReadIndexStatus(c) ==
  /\ main = "running"
  /\ call[c] = "none"
  /\ writer = NoOne
  /\ Spend("call")
  /\ call' = [call EXCEPT ![c] = "status"]
  /\ seen' = [seen EXCEPT ![c] = index]
  /\ UNCHANGED <<environment, channel, worker, collected, lock, update, index,
                 persisted, health, owner>>

\* ... and reads the error, the generation and the counters without it.
ReadHealth(c) ==
  /\ call[c] = "status"
  /\ call' = [call EXCEPT ![c] = "none"]
  /\ seen' = [seen EXCEPT ![c] = NoEntries]
  /\ UNCHANGED <<environment, channel, worker, collected, lock, update, index,
                 persisted, health, owner, used>>

\* apply_events for one root, with events of the caller's: files of the root,
\* perhaps none, or something structural.
ApplyEvents(c, r) ==
  /\ main = "running"
  /\ call[c] = "none"
  /\ LockFree
  /\ Spend("call")
  /\ call' = [call EXCEPT ![c] = "apply"]
  /\ writer' = c
  /\ BeginRebuild \/ \E files \in SUBSET FilesOf(r) : BeginChangedFiles(files)
  /\ UNCHANGED <<environment, channel, worker, collected, root, reports, reading,
                 index, persisted, health, owner, seen>>

-----------------------------------------------------------------------------
(* start, stop and crash *)

\* LiveIndex::start registers the watchers first.  Everything in memory is new.
Start ==
  /\ main = "off"
  /\ Spend("start")
  /\ notices' = {}
  /\ callback' = "idle"
  /\ queue' = <<>>
  /\ overflowed' = FALSE
  /\ batch' = {}
  /\ force' = FALSE
  /\ stopAfter' = FALSE
  /\ dirty' = FALSE
  /\ batches' = 0
  /\ generation' = 0
  /\ lastError' = FALSE
  /\ outcome' = "none"
  /\ IF persisted # NoIndex /\ ~RebuildOnStart
       THEN /\ main' = "running"
            /\ worker' = "recv"
            /\ index' = persisted
            /\ UNCHANGED <<lock, targets, staged>>
       ELSE /\ main' = "building"
            /\ worker' = "none"
            /\ index' = NoEntries
            /\ writer' = Main
            /\ BeginRebuild
  /\ UNCHANGED <<disk, root, reports, reading, persisted, clients>>

\* stop takes the LiveIndex by value: no call is running.  It drops the watcher
\* first; the send of Stop waits for room in the queue.
BeginStop ==
  /\ main = "running"
  /\ \A c \in Client : call[c] = "none"
  /\ main' = "stopping"
  /\ UNCHANGED <<environment, channel, worker, collected, lock, update, index, persisted,
                 health, outcome, clients, used>>

\* Slip: the send of Stop does not wait for room.
SendStopAtOnce ==
  /\ main = "stopping"
  /\ queue' = IF worker = "done" THEN queue ELSE Append(queue, Stop)
  /\ main' = "joining"
  /\ UNCHANGED <<environment, callback, overflowed, worker, collected, lock,
                 update, index, persisted, health, outcome, clients, used>>

SendStop ==
  /\ main = "stopping"
  /\ IF worker = "done"
       THEN UNCHANGED queue
       ELSE /\ Len(queue) < BufferSize
            /\ queue' = Append(queue, Stop)
  /\ main' = "joining"
  /\ UNCHANGED <<environment, callback, overflowed, worker, collected, lock,
                 update, index, persisted, health, outcome, clients, used>>

\* Slip: stop does not join the worker.
FinishStopUnjoined ==
  /\ main = "joining"
  /\ \/ /\ dirty
        /\ persisted' = index
     \/ /\ ~dirty
        /\ UNCHANGED persisted
  /\ dirty' = FALSE
  /\ outcome' = IF lastError THEN "error" ELSE "ok"
  /\ main' = "off"
  /\ UNCHANGED <<environment, channel, worker, collected, lock, update, index,
                 batches, generation, lastError, clients, used>>

\* After the join: a dirty snapshot is saved, then lastError decides.
FinishStop ==
  /\ main = "joining"
  /\ worker = "done"
  /\ \/ /\ dirty
        /\ persisted' = index
     \/ /\ ~dirty
        /\ UNCHANGED persisted
  /\ dirty' = FALSE
  /\ outcome' = IF lastError THEN "error" ELSE "ok"
  /\ main' = "off"
  /\ UNCHANGED <<environment, channel, worker, collected, lock, update, index,
                 batches, generation, lastError, clients, used>>

\* A failed save ends stop with its error, and dropping the LiveIndex then runs
\* stop_inner again: it saves once more and nobody sees the result.  Each of the
\* two may fail with the index file replaced.
StopSaveFails ==
  /\ main = "joining"
  /\ worker = "done"
  /\ dirty
  /\ Spend("fault")
  /\ \/ /\ persisted' \in {persisted, index}
        /\ UNCHANGED dirty
     \/ /\ persisted' = index
        /\ dirty' = FALSE
  /\ outcome' = "error"
  /\ main' = "off"
  /\ UNCHANGED <<environment, channel, worker, collected, lock, update, index,
                 batches, generation, lastError, clients>>

\* The process dies: only the files survive.
Crash ==
  /\ main # "off"
  /\ Spend("fault")
  /\ main' = "off"
  /\ worker' = "none"
  /\ writer' = NoOne
  /\ stage' = "idle"
  /\ ResetUpdate
  /\ call' = [c \in Client |-> "none"]
  /\ seen' = [c \in Client |-> NoEntries]
  /\ notices' = {}
  /\ callback' = "idle"
  /\ queue' = <<>>
  /\ UNCHANGED <<disk, overflowed, collected, index, persisted, health, outcome>>

-----------------------------------------------------------------------------

Init ==
  /\ disk \in Snapshot
  /\ notices = {}
  /\ callback = "idle"
  /\ queue = <<>>
  /\ overflowed = FALSE
  /\ worker = "none"
  /\ batch = {}
  /\ force = FALSE
  /\ stopAfter = FALSE
  /\ writer = NoOne
  /\ stage = "idle"
  /\ root = 1
  /\ reports = 0
  /\ targets = {}
  /\ reading = [f \in File |-> Closed]
  /\ staged = NoEntries
  /\ index = NoEntries
  /\ persisted = NoIndex
  /\ dirty = FALSE
  /\ batches = 0
  /\ generation = 0
  /\ lastError = FALSE
  /\ main = "off"
  /\ outcome = "none"
  /\ call = [c \in Client |-> "none"]
  /\ seen = [c \in Client |-> NoEntries]
  /\ used = [b \in Budget |-> 0]

WatcherStep == StoreOverflow \/ \E e \in Notice : Deliver(e)

WorkerStep == \/ WorkerReceives \/ WorkerCollects \/ DebounceEnds \/ WorkerLocks
              \/ PlanRoot \/ BatchApplied \/ RecordFailure

\* Progress of whoever holds the write lock; failures are not progress.
UpdateStep == \/ \E f \in File : OpenFile(f) \/ FinishFile(f)
              \/ Install \/ RecordReport \/ BumpGeneration \/ Save \/ MarkClean

CallerStep == \E c \in Client : EndSearch(c) \/ ReadHealth(c)

StopStep == SendStop \/ FinishStop

FaultStep == \/ KernelDrops \/ Escalate \/ UpdateFails \/ SaveFails
             \/ WorkerPanics \/ StopSaveFails \/ Crash

RequestStep ==
  \/ \E f \in File, c \in Content, kind \in {"change", "structural"} :
       WriteFile(f, c, kind)
  \/ \E c \in Client :
       \/ StartSearch(c)
       \/ ReadIndexStatus(c)
       \/ \E r \in 1..NRoots : ApplyEvents(c, r)
  \/ Start
  \/ BeginStop

\* Stopped for good: the bound on starts is reached.
Terminated == main = "off" /\ UNCHANGED vars

Next == \/ WatcherStep \/ WorkerStep \/ UpdateStep \/ CallerStep \/ StopStep
        \/ FaultStep \/ RequestStep \/ Terminated

Spec == Init /\ [][Next]_vars

\* The threads of the process run: the watcher's until stop drops it, the
\* worker's, the one that holds the lock, a caller inside a call and the caller
\* of stop.  Nobody is obliged to write a file, to make a call or to stop.
Fairness == /\ WF_vars(Watched /\ WatcherStep)
            /\ WF_vars(WorkerStep)
            /\ WF_vars(UpdateStep)
            /\ WF_vars(CallerStep)
            /\ WF_vars(StopStep)

FairSpec == Spec /\ Fairness

-----------------------------------------------------------------------------
(* Properties *)

TypeOK ==
  /\ disk \in Snapshot /\ index \in Snapshot /\ staged \in Snapshot
  /\ persisted \in Snapshot \cup {NoIndex}
  /\ notices \subseteq Notice
  /\ callback \in {"idle", "full"}
  /\ queue \in Seq(Message) /\ Len(queue) <= BufferSize
  /\ overflowed \in BOOLEAN /\ force \in BOOLEAN /\ stopAfter \in BOOLEAN
  /\ dirty \in BOOLEAN /\ lastError \in BOOLEAN
  /\ worker \in {"none", "recv", "collect", "lock", "apply", "failed", "done"}
  /\ batch \subseteq Event
  /\ writer \in Client \cup {Worker, Main, NoOne}
  /\ stage \in {"idle", "plan", "scan", "record", "generation", "save", "saved"}
  /\ root \in 1..(NRoots + 1)
  /\ reports \in 0..NRoots
  /\ targets \subseteq File
  /\ reading \in [File -> Content \cup {Closed, Torn}]
  /\ batches \in 0..MaxCount /\ generation \in 0..MaxCount
  /\ main \in {"off", "building", "running", "stopping", "joining"}
  /\ outcome \in {"none", "ok", "error"}
  /\ call \in [Client -> {"none", "search", "status", "apply"}]
  /\ seen \in [Client -> Snapshot]
  /\ used \in [Budget -> Nat]

\* A search works on one snapshot: the index it started with is the index it
\* ends with, whatever batches and apply_events calls run (api.rs, search).
SearchSeesOneSnapshot ==
  \A c \in Client : call[c] = "search" => index = seen[c]

\* Where the knowledge that f changed can be while the entry of f is old: on
\* its way to the worker, in a batch that is not applied yet, in the overflow
\* flag, or in an error the owner can see.
Covers(e, f) == \/ e.kind \in {"lost", "structural"}
                \/ e.kind = "change" /\ e.file = f
Known(f) == \/ \E e \in notices \cup Range(queue) : Covers(e, f)
            \/ callback = "full" \/ overflowed
            \/ worker \in {"collect", "lock", "apply"}
                 /\ (force \/ \E e \in batch : Covers(e, f))
            \/ worker = "failed" \/ lastError

\* No silent staleness: from start to stop, no file differs from its entry
\* unless the difference is still known somewhere (with rebuild_on_start, or
\* when there was no index file to trust).
StaleIsKnown ==
  main = "running" /\ RebuildOnStart =>
    \A f \in File : index[f] = disk[f] \/ Known(f)

\* RAM that differs from the index file is dirty, or the error that left it so
\* is recorded or about to be (LiveIndexStatus::dirty, weakened by what
\* apply_batch does when a later root of a batch fails).
UnsavedIsKnown ==
  main \in {"running", "stopping", "joining"} /\ writer = NoOne =>
    index = persisted \/ dirty \/ lastError \/ worker = "failed"

\* A stop that returns Ok has drained the queue up to its own message, left no
\* batch half done and saved the RAM snapshot.  (The queue is first in, first
\* out: what is left in it a late watcher sent behind that message.)
CleanStop ==
  main = "off" /\ outcome = "ok" =>
    /\ persisted = index
    /\ Stop \notin Range(queue)
    /\ writer = NoOne

\* dirty goes back to FALSE only when the index file holds the RAM snapshot, or
\* when another process starts.
CleanMeansSaved ==
  [][dirty /\ ~dirty' => persisted' = index' \/ main = "off"]_vars

\* Every change reaches the index, or the owner can see why it did not: an error
\* is recorded, or the overflow flag waits for one more notification (README,
\* "Watcher queue overflow ... conservatively trigger a full rebuild").
ChangesArrive ==
  \A f \in File :
    main = "running" /\ index[f] # disk[f] ~>
      \/ index[f] = disk[f] \/ main # "running"
      \/ lastError \/ (overflowed /\ queue = <<>>)

\* stop returns, however full the queue is when it sends its message.
StopReturns == main = "stopping" ~> main = "off"

\* The files a save writes inside a watched root do not feed the next batch:
\* once nobody changes anything, the batches end.
BatchesEnd == <>[][batches' = batches]_batches

-----------------------------------------------------------------------------
(* What the documentation says and the code does not do *)

\* "Whether RAM contains successful updates not yet persisted" (LiveIndexStatus).
\* A batch that fails in its second root has updated the first, unrecorded.
UnsavedIsDirty ==
  main = "running" /\ writer = NoOne /\ index # persisted => dirty

\* "Maximum queued callback messages before forcing a conservative rescan"
\* (event_buffer): an overflow is followed by the rescan, with no further event.
OverflowIsHandled == main = "running" /\ overflowed ~> ~overflowed \/ main # "running"

=============================================================================
