# weavatrix-search in TLA+

weavatrix-search is a Rust library and command line tool that searches source
trees. It reads files through the `weavatrix-scan` scanner, decodes them, matches
them line by line or as a whole, and collects a bounded, ranked result. It can
keep the content of the files in a *persistent index* (`.wvx`), and keep such an
index resident in memory and current through native file notifications (the
*live index*). This directory holds the specifications of that system, the TLC
runs that check them and the proofs TLAPS checks.

    cd tla
    tlasany LiveIndex.tla                                 # parse
    tlc -workers 2 -config MCLiveIndex.cfg MCLiveIndex    # check one run
    tlapm LiveIndexProofs.tla                             # check the proofs
    tlapm IndexStorageProofs.tla
    tlapm SearchProofs.tla
    tlapm IndexUpdateProofs.tla
    tlapm LineSearchProofs.tla
    tlapm FileProcessorProofs.tla
    tlapm MultilineProofs.tla
    tlapm IndexSearchProofs.tla

`PROJECT.json` lists the runs, the source lines of every definition (`map`), a
mutation of the model that each property catches (`mutants`), the disagreements
between code and documentation (`findings`), and the hazards the properties are
for (`hazards`). Paths below are relative to `src/src/`.

## 1. The system: inventory

### Live index - `live_index/` (mod.rs, runtime.rs, api.rs)

*State.* `Shared`: the `PersistentIndex` under an `RwLock`; `dirty`, `batches`,
`changed_files`, `full_rebuilds`, `running` and `overflowed` as atomics;
`last_error` and `generation` under mutexes; a condition variable. A bounded
`sync_channel` of `LiveMessage` (an event, a watcher error, or Stop). The
worker's locals: the events of the batch, `force_rescan`, `stop_after_batch`.

*Operations.* The watcher callback `try_send`s each notification, and stores
`overflowed` when the channel is full. `live_worker` receives a first message,
collects more until the debounce delay is over, and calls `apply_batch`: under
the write lock, the events of each root become a plan of the scanner's event
adapter, and the plan an update or a rebuild of the index; the reports are
recorded (`record_update`), and the index is saved when `persist_each_batch` is
set. Callers use `search`, `apply_events`, `status`, `wait_for_update`, `stop`;
`start` registers the watchers, builds or opens the index and spawns the worker.

*Interactions.* The watcher thread, the worker, any number of callers, the file
system that changes underneath, and the index file, which may itself lie inside a
watched root.

*Hard behaviours.* The overflow flag races with the two swaps of the worker; a
batch over several roots can fail half-way; a failed batch has consumed its
events; the state is split over a lock, two mutexes and six atomics; a file may
change while it is read; stop sends into the same bounded queue, and the watcher it
drops may end late; the index's own writes are notified; panics and crashes.

*Correct when* no change of a file is forgotten silently; a search sees one
snapshot; RAM that is not on disk is announced; a stop that returns Ok has drained
the queue up to its own message and saved; changes arrive, stop returns, and batches
end.

### Persistent index: build and update - `index/` (build.rs, build_worker.rs, update.rs, update_worker.rs, change_set.rs, entry.rs, failure.rs, reports.rs, options.rs, mod.rs)

*State.* The sorted entries (root, path, content, hash, Bloom words), their byte
count and revision, the storage path; during a build or update, a vector of new
entries, a failure slot and byte and entry counters shared by content workers.
*Operations.* `build` and `rebuild` read everything; `update` reads the files of a
plan and replaces the affected entries. Each file is read in chunks by a content
worker, and dropped if the scanner says it changed meanwhile.
*Hard.* Limits enforced by concurrent counters; the first failure must win over a
partial result; a refused update must leave the index unchanged; counts of added,
updated and removed files.
*Correct when* an update that succeeds equals a rebuild of the affected files, and
one that fails changes nothing.

### Index storage - `index/` (storage.rs, files.rs)

*State.* The index file, a `.lock` file, temporary and backup files.
*Operations.* `save` takes the lock file, writes and syncs a temporary file, moves
the old index to a backup, moves the new one in, removes the backup; `open`
validates and loads.
*Hard.* Crashes and readers between two renames; a lock file whose owner died; a
failing rename and a failing rollback; an error that comes after the renames; two
writers.
*Correct when* a complete index is always found under its name.

### Index file format - `index/` (format.rs, load.rs, metadata.rs)

Layout, limits, ordering, checksum; the trigram Bloom filter. One thread, no
shared state. *Correct when* what `save` writes, `open` reads, and the filter has
no false negatives.

### Search over an index - `index/search.rs`, `searcher/indexed.rs`

*State.* An atomic cursor over the candidate files, per-root counters, the
collector. *Operations.* Prefilter, spawn workers, take files, report. *Hard.*
`should_quit` is tested before a file is taken; quiet mode and fatal errors race
with files in flight. *Correct when* every candidate is searched once unless
the search was stopped, and `complete` says which.

### Direct search - `searcher/mod.rs`, `searcher/processor.rs`, `encoding.rs`

The scanner's content workers feed one `FileProcessor` per file, which decides on
the encoding from the first bytes and then streams lines, buffers the file, or
skips it. *Hard.* The decision on chunk boundaries; a binary byte late in a
streamed file.

### Collector - `collector/`

Bounded heaps for matches, files, warnings and evidence behind mutexes, atomic
totals, a quiet flag and a first fatal error. *Hard.* Many workers in any order.
*Correct when* the result is a function of the set of matches.

### Line search and multiline search - `line_search/`, `multiline/`

Lines assembled from chunks with a length limit, context windows, offsets.
*Correct when* the result does not depend on how the input is cut into chunks.

### Query, archives, options, reports, output, command line

`query/` compiles patterns and expands replacements (the matching itself is
`regex-automata`'s); `archive/` walks containers within a budget (decoders are
external); `options/`, `report.rs`, `error.rs` are data; `output/` formats;
`bin/` parses arguments and makes one call.

## 2. Plan

All steps but the last are done.

| step | module | what | runs | theorems |
|---|---|---|---|---|
| 1 | `LiveIndex` | watchers, queue, worker, callers, stop, crash | safety, progress, three documented claims | types; search isolation; unsaved is known; clean means saved |
| 2 | `LiveIndexProofs`, second part | proofs for `StaleIsKnown` and `CleanStop` | - | both |
| 3 | `IndexStorage`, `AtomicStore` | lock, temporary, backup, renames, crash; the abstract store with one atomic replacement | safety, refinement and liveness; the atomicity that is documented | types; what the name has is good; nothing is lost; readers go forward; the refinement |
| 4 | `Collector`, `Search` | workers, cursor, quit, bounded heaps; the smallest `limit` of a set | the report is that of a sequential search | types; what is retained |
| 5 | `LineSearch` | chunks, long lines, context | the documented bound of a line | the report of a line search is that of its text |
| 6 | `FileProcessor`, `MultilineSearch` | modes, encodings, NUL window, decoding; blocks of a multiline search | the report is that of the text; the documented source offsets | types; the report; a NUL in the window; what is left out is said; the blocks of a multiline search |
| 7 | `Prefilter`, `IndexSearch` | mandatory literals, trigrams, Bloom filter | no false negative, with step 6 | no match is dropped |
| 8 | `IndexUpdate` | content workers, limits, failure slot, replacement of entries | limits, outcome, counts, return | types; limits; outcome; planned changes only; counts |
| 9 | `SearchProofs`, second part | the quiet search; the totals | - | the report is that of a sequential search; a quiet search reports one match |
| 10 | `LiveWait` | `wait_for_update`, `running`, generation and condition variable | open: the missed wake-up | - |

Composition: `LiveIndex` uses a save that is atomic; `IndexStorage` shows that the
store is, for whoever knows where to look for it, and that the name is not.
`LiveIndex` uses an update that installs all its entries at once or none;
`IndexUpdate` shows that it does. `FileProcessor` extends `LineSearch` and takes its
steps, and uses `MultilineSearch`; `IndexSearch` extends `FileProcessor` with the
`Prefilter` and asks whether a file that turns out to have a match is a candidate.
`Search` sees a whole `FileProcessor` as a source that is searched, skipped or fails.
`Search` extends `Collector`: a step of a
worker is a step of the collector. A search through the live index holds the read
lock around the whole of it (`StartSearch` to `EndSearch` in `LiveIndex`), so its
candidates do not change while it runs.

## 3. What is modelled: `LiveIndex`

### State

| variable | code |
|---|---|
| `disk`, `notices` | the file system, and notifications of the kernel not yet delivered (external) |
| `callback`, `queue`, `overflowed` | the watcher callback between a failed `try_send` and its store, the `sync_channel`, `Shared::overflowed` |
| `worker`, `batch`, `force`, `stopAfter` | where `live_worker` is, its events, `force_rescan`, `stop_after_batch` |
| `writer`, `stage` | who holds the write lock of `Shared::index` and how far the update is |
| `root`, `reports`, `targets`, `reading`, `staged` | the loop over the roots, reports not recorded yet, files still to read, open reads, the entries to install |
| `index`, `persisted` | the entries in RAM, and the index file |
| `dirty`, `batches`, `generation`, `lastError` | `Shared` |
| `main`, `outcome`, `call`, `seen` | the owner's start and stop, the callers' calls |

A snapshot maps each file to a content; `Absent` is the content of a file without
an entry. Contents, events and errors are abstracted to what the properties tell
apart: an event concerns one file, is structural (an ignore file, a directory, a
rename: the adapter asks for a full rescan), is an artifact of the index file, or
is the error by which `notify` reports lost events.

### Actions

| action | code |
|---|---|
| `WriteFile`, `KernelDrops` | external: a file changes; the kernel drops notifications and says so |
| `Deliver`, `StoreOverflow` | the callback: `try_send`, and the store after `Full`, in two steps |
| `WorkerReceives`, `WorkerCollects`, `DebounceEnds` | recv and the first swap; the debounce loop; its end and the second swap |
| `WorkerLocks`, `PlanRoot`, `BatchApplied` | `apply_batch`: the lock, one turn of the loop, its end |
| `OpenFile`, `FinishFile`, `Escalate`, `Install`, `UpdateFails` | `PersistentIndex::update` and `rebuild`: reads in any order, a torn read dropped, a rescan the scanner asks for, installation at once, an error |
| `RecordReport`, `BumpGeneration` | `record_update`, before and under the mutex of the generation |
| `Save`, `SaveFails`, `MarkClean`, `RecordFailure`, `WorkerPanics` | the save of a batch, its failure, the store to `dirty`, `set_last_error`, `catch_unwind` |
| `StartSearch`, `EndSearch`, `ReadIndexStatus`, `ReadHealth`, `ApplyEvents` | the calls; `status` in its two halves |
| `Start`, `BeginStop`, `SendStop`, `FinishStop`, `StopSaveFails`, `Crash` | the life of the process; a failed stop includes the second `stop_inner` that drop runs |

*The watcher* is external. `stop_inner` drops it before it sends Stop, but no code of
the repository says that the drop waits for the watcher's thread, and back ends of
`notify` only ask that thread to end. So the model assumes nothing of it: from start
to the return of stop the watcher *may* deliver (`Watching`), before and behind Stop,
and until stop begins it *does* (`Watched`, which is where its fairness ends). After
the return of stop the channel is gone, `try_send` finds it disconnected, and nothing
is left for a callback to change.

*A failed save.* `PersistentIndex::save` can fail with the old index in place, or, at
`storage.rs:95`, with the new one there already. `SaveFails` and `StopSaveFails` leave
either, and the notifications of any of the files that were written.

The same update actions serve the worker, a caller in `apply_events` and `start`
(which builds an index nobody shares yet): `writer` says for whom. `Return` is the
common end: the guard is dropped and control goes back to whoever held it.

Definitions introduced by "Slip:" are faulty variants of the definition that
follows them (a forgotten flag, a missing wait). Nothing uses them; replacing the
real definition by them shows that the properties can fail.

### Properties

| property | says |
|---|---|
| `TypeOK` | the types; the queue never exceeds `event_buffer` |
| `SearchSeesOneSnapshot` | the index a search ends with is the one it started with |
| `StaleIsKnown` | while the process runs, a file whose entry is old is covered by a notice, a message, the batch, the overflow flag or a visible error |
| `UnsavedIsKnown` | when the write lock is free, RAM equals the file, or `dirty` or an error says otherwise |
| `CleanStop` | a stop that returns Ok left no message of before its own, no lock and no unsaved entry |
| `CleanMeansSaved` | `dirty` is cleared only when the file holds the RAM entries |
| `ChangesArrive` | a changed file gets its entry, or an error is recorded, or the overflow flag is waiting for a notification |
| `StopReturns` | stop returns, even when the queue is full |
| `BatchesEnd` | when nobody changes files, the batches end, though each batch is saved inside its own root |

`StaleIsKnown` is restricted to `rebuild_on_start`: without it the owner has said
that the existing file is trusted. `ChangesArrive` names the weakness of the
overflow flag; `OverflowIsHandled`, below, states the documentation's promise.

### Runs

| run | expects | bounds | shows |
|---|---|---|---|
| `live_safety` | pass | 2 roots of 1 file, 2 contents besides Absent (symmetric), queue 1, 1 client with 1 call, 2 writes, 2 starts, 2 faults | the five invariants and `CleanMeansSaved` |
| `live_progress` | pass | 1 root of 1 file and 1 artifact, queue 1, every batch saved, 2 writes, 1 start, 1 fault, no call | `ChangesArrive`, `StopReturns`, `BatchesEnd` |
| `live_dirty` | violation | as `live_safety`, 1 start, 1 fault, no save per batch | RAM updated, not persisted, not dirty |
| `live_overflow` | violation | 1 root of 2 files, queue 1 | an overflow without a rescan |
| `live_feedback` | violation | 2 artifacts per save, queue 1, nobody writes | saves feed batches for ever |

*Why the bounds are enough.* Two roots are needed for a batch to fail half-way and
for a structural event to end the loop over the roots early; one file per root is
enough, since the files of a root are read independently. A queue of one message
reaches full with two notices, and with two writes both the overflow and the race
of its store with each of the two swaps occur. The one fault of the runs of liveness is
any of a failed update, a failed save, a panic of the worker, lost notifications, a
rescan the scanner asks for and a crash: so a change is followed through a batch that
fails, and stop sends to a worker that is gone. In
`live_progress` the artifact is the second file whose notices compete for the one
place of the queue: those of a save take it when the file changes, and the other way
round. No call runs there: `stop` takes the `LiveIndex` by value, so none can be
under way when it is called, and before that a call, which returns, holds the
worker up for a while or brings entries up to date itself; `live_safety` has the call. Two faults combine a failed update
or a lost notification with a failed save, panic or crash; two starts cover a
restart from the file of a crash. The counters are bounded by `MaxCount`, the
maximum of the u64: `batches` wraps and `generation` saturates there. It is 3 in
the runs of liveness, where they do wrap, and 9 in the runs of safety.
Every budget (`Bound`) is a conjunct `Spend(..)` of the action it limits. In
`BatchesEnd` the property looks at `batches` modulo `MaxCount + 1`, which a batch
always changes.

*Fairness.* The watcher thread until stop drops it, the worker, the holder of the
write lock, a caller inside a call and the caller of `stop` are threads that run:
weak fairness on each.
`std`'s `RwLock` gives no fairness between threads, and none is needed here: calls
are finite in number, so the lock is free for ever at some point. Nobody is
obliged to write, to call, to stop, or to fail.

*Deadlock* is checked in every run: when the owner has stopped and no start is left
`Terminated` stutters; any other state without a successor is an error.

### Findings

1. `live_dirty`: `apply_batch` returns the error of a later root with `?` after the
   update of an earlier root is installed; `record_update` is not called for it, so
   `dirty` stays false and `stop` does not save what RAM holds.
2. `live_overflow`: the flag is stored after the failed `try_send`. When the worker
   has swapped it for the last time before that, it goes back to `recv` and the
   rescan waits for the next notification.
3. `live_feedback`: artifacts are filtered when a batch is applied. With a queue
   smaller than the number of notifications of one save they overflow it, the
   overflow forces a rebuild, and the rebuild is saved. (With the default of 4096
   this needs a burst; with a small `event_buffer` it happens at once.)

`status` is documented as "Returns a consistent health snapshot" (api.rs:204); it
reads the index under its lock and the counters after releasing it (`ReadIndexStatus`,
`ReadHealth`), so that the two parts may be of different moments. Beyond these,
`batches`, documented as "Successful event batches", counts one per
root report (`record_update`); the model does the same.

## 4. What is modelled: `IndexStorage`, `AtomicStore`

`IndexStorage` takes `save` apart into the calls it makes of the file system. Any
number of savers, in threads of one process or of several, save to one path, and
readers open it. An index is known by the number of the save that wrote it; a file
that was not written to its end is not `whole`.

### State

| variable | code |
|---|---|
| `lockFile` | `<path>.lock` exists |
| `temp`, `backup` | the files `<path>.tmp.<pid>.<n>` and `<path>.backup.<pid>.<n>`, by suffix |
| `target` | the file `<path>` |
| `pc`, `name`, `saving` | where a save is, the suffix of its files, its number (by which the model tells indexes apart) |
| `outcome`, `opened` | what the callers of `save` and `open` have been told |
| `faults` | bound of a run |

### Actions

| action | code |
|---|---|
| `CreateLock`, `WriteLock`, `WriteLockFails`, `Release` | `IndexLock::acquire` (create_new; write and sync), its failure, and the drop |
| `CreateTemp`, `WriteTemp`, `WriteTempFails`, `RemoveTemp` | `write_file`: create_new, then everything up to `sync_all`; what `save` does after an error |
| `BackUp`, `BackUpFails`, `Install`, `InstallFails`, `RollBack`, `DiscardBackup` | `replace_file`, one action per rename or removal and per failure |
| `StorePathFails`, `Result` | `std::path::absolute` fails after the replacement: `save` returns an error ("late") and the new index stays; what `save` returns |
| `Open` | `open`: the file that has the name, if it validates |
| `Crash` | external: a process dies before any of these calls; its files stay |
| `RemoveLock` | external: somebody removes the lock file of a process that died, when no save runs |

A save that does not get the lock returns an error and changes nothing, so it is no
action. The suffix is unique among the processes that run; a crash can leave files
under any suffix. The code draws one number for the temporary file and another for
the backup; one suffix stands for both here.

`AtomicStore` is what `LiveIndex` and other callers rely on: one number, the stored
index, that a save replaces at once or not at all. Ok says that it was replaced; an
error says that it was not, except the late one of the path, which the caller cannot
tell from the others by its kind; a save whose process died may have happened or not.
The mapping is
`Current`: the index that has the name, and while none has it the newest backup.

### Properties

| property | says |
|---|---|
| `OneSaveAtATime` | only one save runs, and the lock file is there while it does |
| `NameIsGood` | what has the name is complete, not older than the last save that returned Ok, and not from one that failed to write or rename its file |
| `NothingIsLost` | the last save that returned Ok, or a newer one, is on disk, under the name or in a backup |
| `OpensGoForward` | no reader opens an older index than before |
| `StoreSpec` | the files implement `AtomicStore` |
| `LockIsReleased` | a save that meets no further failure gives its lock file back, whatever failed before |
| `NameIsTakenAgain` | when the name is free though something was saved, it is taken again, unless two calls fail or the process dies |

### Runs

| run | expects | bounds | shows |
|---|---|---|---|
| `storage_safety` | pass | 2 savers, 1 reader, 2 suffixes, 4 saves, 4 faults of any kind | the three invariants, `OpensGoForward`, the refinement and the two liveness properties |
| `storage_atomic` | violation | 1 saver, 2 saves, no fault | a moment without an index under its name |

*Why the bounds are enough.* The lock lets one save run at a time, so two savers
show everything that mutual exclusion could get wrong. Four saves are one to store an
index, one to lose it in a backup, one that stores a newer one directly and one that
makes a second backup; four faults combine a failed rename with a failed rollback
and a crash, twice over. Two suffixes make leftovers collide with new files.

*Fairness.* A thread inside `save` runs: weak fairness of its next step. Nobody has
to save, open or remove a lock. Two failures can fail a rename and its rollback, and
a process that dies leaves the name free and the lock taken; neither is ever repaired
by the code, so `NameIsTakenAgain` promises nothing then, and `LockIsReleased`
speaks of a save that runs when no failure is left.

*Deadlock* is checked; when no save runs `Terminated` stutters, because the saves of
a run are used up or a lock file is left that nobody has to remove.

### Findings and observations

4. `storage_atomic`: `save` is documented as atomic and the README as "atomic
   replacement with rollback". The refinement shows that the *store* is atomic; the
   *name* is not. Between the two renames a reader finds no file, and a crash there
   leaves the index in a backup that neither `open` nor `LiveIndex::start` looks
   for: a live index then rebuilds from scratch.

The lock file is not removed when its owner dies, nor when writing the process
number into it fails (there is no `IndexLock` yet that could be dropped). Every later
save of any process then returns "another writer holds the index lock". The model
has both; no documentation promises otherwise, so they are no findings. Nor does any
promise that a save which returns an error leaves the old index: when there is no
working directory any more and the path is relative, `save` returns the error of
`std::path::absolute` with the new index in place. `LiveIndex` keeps `dirty` then,
which is safe: the next save writes the same entries again.

Not in the model: a loss of power (the directory is never synced; a rename is taken
to last once it has returned), and `storage_path`, which is set exactly when `save`
returns Ok.

## 5. What is modelled: `Collector`, `Search`

`Collector` has the state that the workers of a search share and one operator per
method; `Search` has the workers, over an index or driven by the scanner. A worker
holds no lock longer than one method, so that a method is one step, and where a
method makes several stores that can be told apart (`quiet_match`) it is several.

Sources and matches are numbers in the order of `RankedFile::compare` and
`RankedMatch::compare`, so that a heap is a set and its largest element a maximum.
Warnings and evidence are named by their source. What a source turns out to be
(text, skipped at once, skipped in a later chunk, failing) is chosen in the initial
state, as are the options.

### State

| variable | code |
|---|---|
| `options` | `SearchOptions`, and whether the candidates come from an index or a scan |
| `matches`, `files`, `fileEvidence`, `warnings` | the four heaps |
| `truncated`, `fileEvidenceTruncated`, `warningsDropped` | what did not fit |
| `counted`, `filesWithMatches` | `matching_lines` and `occurrences` as the matches summed up in them; `files_with_matches` |
| `quietFound`, `quietLines`, `quietSpans` | `quiet_found`, and whose numbers a quiet search stored in `matching_lines` and `occurrences` |
| `fatal` | the first fatal error; `failed` is stored under the same mutex |
| `taken`, `completed` | the cursor (or the files the scanner has started), files searched |
| `pc`, `file`, `at`, `left`, `found` | a worker: where it is, its file, the source in it, the matches it has not found yet, the match whose numbers it stores |
| `outcome` | what the call returned |
| `visited`, `given` | calls of the evidence callback; history: all that was handed over |

### Actions

| action | code |
|---|---|
| `CheckQuit`, `TakeFile`, `NoFileLeft`, `EndFile` | the loop of `run_workers`; in a scan, FileStart and FileEnd |
| `Abandon` | the callback of a scan, which asks `should_quit` at every event |
| `OpenSource`, `SkipSource`, `FindNul`, `FailSource` | `FileProcessor`, `search_complete_bytes`, the members of an archive, `handle_error` |
| `FindMatch`, `FinishSource` | `retain_match`, `finish_file` |
| `FindQuietly`, `StoreQuietLines`, `StoreQuietSpans` | `quiet_match` |
| `VisitorPanics` | external: the evidence callback panics in a worker |
| `Finish` | the join of the workers and what `search_indexed` returns |

### Properties and run

| property | says |
|---|---|
| `TypeOK` | the types; no heap exceeds its limit |
| `HeapsKeepSmallest` | each heap holds the smallest of what was handed over, in any order |
| `ReportIsDetermined` | a search that ran to its end reports what a sequential one would: the records, whether some were left out, and totals over all |
| `QuietIsOneMatch` | a quiet search reports one match and never parts of two, none only when there is none, and never hides an error |
| `SearchReturns` | the call returns, also after a quit or a panic |

`search_report` (pass) has three workers, three files, an archive of two members
between two plain files, four matches, six combinations of options (both
backends, both modes, the four result modes, both policies, limits 0, 1 and 2) and
five of what the sources are. The archive is in the middle so that its members come
between others in rank; file 1 has two matches and file 3 another, so that limits of
1 and 2 cut within and between files; three workers let two of them race for the
last place while a third fails or quits.

*Fairness.* Every worker is a thread that runs, the scanner delivers its events and
the evidence callback returns: weak fairness of each worker and of the join.
*Deadlock* is checked; a search that has returned stutters (`Terminated`).

### Observations

A source streamed by the scanner is skipped when a NUL byte comes in a later chunk
(within its first 8 KiB). Its matches of the earlier chunks are then among the records
but not in the totals; `ReportIsDetermined` says so (`Cut`). A quiet search in
lines stores the number of spans of the line, one in blocks of a single occurrence;
in blocks it never calls `finish_file`, so that neither evidence nor callback sees
the source (`Summarises`).

Not in the model: two members of one archive with one name, whose equal ranks make
a full heap keep one or the other; candidates lost to the prefilter (it has no false
negatives, see section 6); warnings of lossy text, of long lines
and of replacements, which go to the same heap.

## 6. What is modelled: `LineSearch`, `MultilineSearch`, `FileProcessor`, `Prefilter`, `IndexSearch`

One file, from its first chunk to its report. `FileProcessor` extends `LineSearch`:
its state is that of the processor and, once a file is streamed or decoded, that of
the `LineSearcher` inside. Bytes are members of a set of a dozen; a file is a short
sequence of them.

### State

| variable | code |
|---|---|
| `source`, `expected`, `read` | the bytes of the file, the size it was listed with, the bytes delivered |
| `mode`, `buffer`, `inspected` | `FileMode` and its bytes, `inspected_binary_bytes` |
| `base`, `lossy`, `warned` | `source_offset_base`, `SearchIdentity::lossy`, the warnings about the file as a whole |
| `spans` | what the regular expression found in a multiline search |
| `options` | `SearchOptions` and the query |
| `text`, `given`, `at` | the text the searcher gets, how much of it was pushed, `next_offset` |
| `phase` | the branch of `push` (or `finish`) that comes next |
| `pending`, `pendingOffset`, `lineNumber`, `discarding` | the fields of `LineSearcher` with these names |
| `before`, `waiting`, `warnedLossy` | the context ring, `pending_matches`, `warned_lossy` |
| `matchingLines`, `occurrences`, `retained`, `tooLong`, `totalLines` | what went to the collector |
| `crossed` | history: a line too long was completed by a later chunk |

### Actions

| action | code |
|---|---|
| `Deliver` | a call of `push` begins |
| `DiscardChunk`, `DiscardEnds`, `NothingDiscarded` | the rest of a line too long |
| `CompletePending`, `ExtendPending`, `NothingPending` | a line that began in an earlier chunk |
| `TakeLine`, `KeepTrailing` | the loop over the lines of the chunk, and its end |
| `FinishLine`, `FinishSearch` | `finish`: the last line; the pending matches and the totals |
| `KeepPrefix`, `StartAuto` | `push` while the encoding is undecided; `start_auto` |
| `PushLines`, `PushBuffer`, `PushSkipped` | `push` in the other modes |
| `FinishLines`, `SearchComplete`, `SearchMultiline`, `SearchArchive`, `FinishSkipped` | `finish`, `search_complete_bytes`, `multiline::search` |

A `push` is taken apart into its branches and loop turns, so that each shows in the
coverage. `MultilineSearch` has the cursor, the blocks and the context as recursive
functions, one value for each turn of a loop of the code; it visits the spans in order
like the code, while the properties speak of lines and sets. External are the regular expression (any list of up to two spans whose texts
are in its language), `encoding_rs` (what it does to a malformed byte, an odd byte, a
mark) and the scanner's cutting into chunks (any).

`Prefilter` follows `longest_mandatory_literal` over the tree of an expression, as a
recursive function over node numbers, and the Bloom filter over any assignment of bits
to trigrams. `IndexSearch` joins it with the file: an entry is prefilterable when its
content is UTF-8 and no archive.

### Properties

| property | says |
|---|---|
| `TypeOK` | the types; context and pending matches within their limits; `inspected` within the window |
| `ReportIsThatOfSource` | matches with number, offset, text and context, totals and warnings are those of the whole text, however it is cut |
| `NoFalseNegative` | a file with a match is a candidate of the index search, for the literal of a search by lines and the expression of a multiline search |
| `BinaryIsNotCounted` | a streamed file counts as searched exactly if there is no NUL in its window |
| `SkippedIsSaid` | a file is counted, or exactly one warning says why not |
| `MultilineBlocksAreLines` | the blocks reported are those of the lines that matches touch: whole lines, apart from each other, with their matches and the context around them; totals count distinct lines |
| `LineBufferIsBounded`, `SourceOffsetIsExact` | what the documentation says of the length of a line and of source offsets |

The reference of the line search (`IsReportOf`) is written without chunks: the lines
are the stretches between the newlines, and the report is a set of records over them.
`crossed` excludes the one case in which the code departs from it, which `line_buffer`
shows.

### Runs

| run | expects | bounds | shows |
|---|---|---|---|
| `source_report` | pass | files of up to 8 bytes, every cut; lines of 2 or 3 bytes, a window of 3, buffers of 4 (archives 3) | the six invariants |
| `line_buffer` | violation | texts of up to 5 bytes, lines of 2 | a line that outgrows the limit |
| `source_offset` | violation | texts of up to 3 bytes with a malformed one | an offset that is too large |

*Why the bounds are enough.* The longest condition of the code compares a first piece
kept from an earlier chunk, the rest of the line, its carriage return and the limit:
with a limit of 2 a line of 7 bytes passes each comparison on both sides, and it can be
cut into first piece, middle and rest. Contexts of 1 and 2 lines overlap with those of
the next match. The decision on the encoding needs 3 bytes, and files have 0 to 8; the
window of 3 lies before, within and behind them. Files whose size was listed wrong
(0 to 4 bytes instead of 0 to 5) reach the buffer limits. Expressions cover every kind
of node but a look-around, with trigrams that share bits. No step of a file waits
for anything, so there is no fairness and no liveness here; deadlock is checked, and
a finished file stutters.

### Findings and observations

5. `line_buffer`: when a later chunk ends a line that is too long, `push` warns but
   leaves `pending_bytes` (the branch without a newline, and the loop, drop the line):
   the next piece is appended to the stale one.
6. `source_offset`: the offset base of decoded UTF-8 is set also when malformed bytes
   were replaced, each by three bytes; the offsets behind them are too large.

- A streamed file never sets `FileSummary.lossy` (the warning comes, the mark does not).
- `open` takes the Bloom words of an entry as the file has them (`load.rs:137`). Here an
  entry always has the filter of its content; the checksum of the file covers both.
- The matches of earlier chunks stay when a NUL comes in a later one (section 5).
- An empty text with an empty multiline match has one matching line of no lines.
- A first chunk longer than the listed size is buffered without a look at the limit
  (UTF-16); only the next one is refused.
- An index search searches its candidates only: the warnings and files searched of
  files that the prefilter drops are missing from its report. A case-insensitive query
  demands nothing, so that every file is a candidate.

Not in the model: files that begin with a part of a mark, the preview of a
replacement, `needs_file_evidence` (taken to be what the options say), encodings other
than UTF-8 and UTF-16.

## 7. What is modelled: `IndexUpdate`

How an index is brought up to date: the content workers of a scan share a byte counter,
an entry counter (of a rebuild), a failure slot and a list of entries; when the scan is
over, an update replaces the affected entries and a rebuild the whole index. Every
access to shared data is a step.

### State

| variable | code |
|---|---|
| `disk` | the files (external) |
| `entries`, `contentBytes` | `PersistentIndex` |
| `op`, `plan` | the call that runs, its `WatchPlan` |
| `todo`, `missing` | the files the scanner still has to visit, and those it found gone |
| `pc`, `file`, `seen`, `got`, `torn` | a visitor: where it is, its `EntryBuilder`, bytes in it, whether the file was written since |
| `collected`, `retainedBytes`, `retainedEntries`, `failure` | the shared list, counters and slot |
| `result`, `report` | what the call returned |
| `undisturbed` | history: nobody wrote and nothing failed since the call began |

### Actions

| action | code |
|---|---|
| `BeginUpdate`, `BeginRebuild` | `update` with a plan, or with one that asks for a rescan |
| `FileIsGone`, `OpenFile` | the scanner reports a file as removed, or FileStart |
| `Visit`, `CountChunk`, `EndFile`, `Push`, `SetFailure` | `visit`: the test of the failure slot, a chunk, FileEnd, the push, the failure |
| `Refuse`, `Apply`, `Replace`, `RescanRequired` | `take_failure`; `apply_changed_entries`; the end of `rebuild`; an update that turns into one |
| `Write`, `AllocationFails`, `ScanFails` | external: another program; memory; the scanner |

### Properties and run

| property | says |
|---|---|
| `TypeOK` | the types; no count goes below zero |
| `WithinLimits` | the index keeps to its limits, and `content_bytes` is the size of its entries |
| `ResultIsDetermined` | undisturbed, an operation is accepted exactly if its outcome is within the limits, and gives that outcome |
| `OnlyPlannedChange` | a refused operation changes nothing, an update only what its plan names |
| `CountsAgree` | added, updated and removed are those of the entries before and after |
| `OperationReturns` | every operation returns |

`index_update` (pass) has three files in two roots, contents of one and two bytes, two
workers, two operations, one fault or write, and an index of at most two entries and
three bytes. So a rebuild of three files and one of two long ones exceed a limit; two
workers let one pass the limit while the other is between the counter and the slot;
two operations let an update meet an index that is not empty, with a plan for files
that are in it, gone, or new. A write in the middle tears a file or makes it appear or
go.

*Fairness.* The content workers and the scanner are threads that run, and the caller
goes on when they are done: weak fairness of each file that is gone, each worker and
the end. A rescan, a write and a failure need not happen. *Deadlock* is checked; when
no operation is left `Done` stutters.

### Observations

A file that is written while an update reads it loses its entry until the next
notification, because it is in the plan and not among the entries read (`LiveIndex`
has the same). An update checks its bytes twice: the bytes of the files it reads, while
it reads them, and those of the whole index afterwards. The first refuses nothing that
the second accepts (`LimitIsRight`), unless a file was torn whose bytes stay counted.

Not in the model: the revision (a hash of the entries), the check for a path that is
listed twice, an invalid number of a root, the paths that exclude the index file.

## 8. What is proved

### `LiveIndexProofs`

For every number of roots and every set of files, contents and clients, every
queue size, every setting of the options, under the named assumptions of
`LiveIndex` (`RootsAssumption`, `ContentAssumption`, `OptionsAssumption`,
`ActorAssumption`, `NoIndexAssumption`: constants of the right kind that are
distinct):

| theorem | establishes |
|---|---|
| `TypeCorrect` | `Spec => []TypeOK` |
| `SearchIsolated` | `Spec => []SearchSeesOneSnapshot` |
| `UnsavedAnnounced` | `Spec => []UnsavedIsKnown` |
| `CleanIsSaved` | `Spec => CleanMeansSaved` |
| `NoSilentStaleness` | `Spec => []StaleIsKnown` |
| `StopIsClean` | `Spec => []CleanStop` |

The first four share the inductive invariant `SafeInv`, of four parts. `TypeOK`
alone is not inductive: that `reports` stays below the number of roots depends on
`root`, and that a `Return` gives the worker a type depends on who held the lock.
`Control` adds that: who holds the lock in which stage, and what is clear when it is
free. `SearchInv` adds to `SearchSeesOneSnapshot` that no writer is in while a
search runs. `UnsavedInv` says stage by stage why RAM and file may differ: a report
that is not recorded, `dirty`, or an error.
`TypeStep`, `SearchStep` and `UnsavedStep` have one case per action.

`NoSilentStaleness` follows the knowledge of a change. `Known` is not inductive: a
batch that is half applied still contains the event of a file whose root it has
passed. `Pending` is what really remains to be done: the change is *heard* of
(notification, message, flag, error), *batched* (before the worker has the lock), or
*ahead* (in a root the loop has not reached, or forced). `IndexInv` says that a file
that is not pending has the right entry; `StagedInv` says the same of the update
that runs: a target that is open has read the current content, a file that is not a
target is right already. `Fresh` combines them, and relaxes `IndexInv` to `Known`
while the worker updates, when the index is old on purpose. The two facts the
argument needs of the loop of the worker are `LoopInv` (it ends only on Stop or
after a recorded panic: otherwise the callback could find the receiver gone) and
`LateInv` (reports are recorded after the last root: a worker that saves has nothing
ahead).

`StopIsClean` needs `DrainInv`: from the send of Stop to the join, the channel holds
exactly one Stop (`OneStop`), or it has been received, and then there is none. Since the
channel is first in, first out, everything sent before Stop has then been received too,
and what a late watcher sent behind it is what may be left. `OutcomeInv` carries the
result past the end of the process.

### `IndexStorageProofs`

For any number of savers, readers, suffixes, saves and failures, under
`StorageAssumption` (there are finitely many suffixes and at least one; the bounds
are naturals):

| theorem | establishes |
|---|---|
| `SavesTakeTurns` | `Spec => []OneSaveAtATime` |
| `TargetIsGood` | `Spec => []NameIsGood` |
| `LastSaveIsKept` | `Spec => []NothingIsLost` |
| `ReadersGoForward` | `Spec => OpensGoForward` |
| `SaveIsAtomic` | `Spec => StoreSpec`, the refinement of `AtomicStore` |

They share the inductive invariant `StorageInv`, of which `TypeOK` is a part
(`StorageTypes`). `HolderInv` says that one save runs
at a time and that the saves before it have ended: this is all that the lock file is
for, and what the order of the indexes rests on. `ProgressInv` says what the save
that runs has done to its files, step by step; in particular that from the first
rename to the second its own backup is the newest. `StoredInv` is the heart: whatever
can become or stay the index is whole and from a save that did replace it, and there
is a number, the stored index, not smaller than any backup, any save that returned
Ok or any index a reader has seen. `LastInv` says that one of the saves that returned
Ok is the last. None of the properties is inductive without it: `NameIsGood` after a
rollback needs to know that the backup is the newest file, and the refinement needs
`SavingIsCurrent`, that a save is the stored one exactly after its second rename.
`Stored` states the maximum of the refinement mapping by its bounds, so that the
proofs need no induction over the suffixes; `MaxIs` joins the two.

### `SearchProofs`

For any number of workers, files, sources and matches, any limits and options, under
`CollectorAssumption` (finitely many sources and matches, numbered) and
`SearchAssumption` (finitely many files and workers, at least one worker, and every
source is in one place of one file; `index/search.rs:29` refuses a parallelism of 0):

| theorem | establishes |
|---|---|
| `SearchTypes` | `Spec => []TypeOK` |
| `RetainedAreSmallest` | `Spec => []HeapsKeepSmallest` |
| `ReportsAreSequential` | `Spec => []ReportIsDetermined` |
| `QuietReportsOneMatch` | `Spec => []QuietIsOneMatch` |

`KeepIsSmallest` is the lemma about a heap: if it holds the smallest of what it was
offered, it does so after a new offer. It needs the offer to be new: a match offered
twice could push out another. So the invariant is `HandedOnce`: two workers never
have the same file, a file nobody has taken is fresh, and so are the sources a worker
has before it; of the source it searches, only the matches not in `left` have been
handed over. `OthersKeepTheirs` reduces each step to the worker that takes it. That a
finite set has a largest element is proved from the well-founded order of its
subsets (`LargestExists`), without induction over the heap.

`ReportIsDetermined` and `QuietIsOneMatch` speak only of the end of a search, so their
invariant `ReportInv` has to say what every worker still owes. `Tracked` says it of the
source a worker is at: it is one a sequential search reaches, and all its matches but
those left have been handed over. `Sound` bounds what was handed over from above (no
source, warning or match that a sequential search would not give, except the early
matches of a file with a late NUL), `Complete` from below: unless the search is stopped,
of the files taken nothing is left out but what their workers have yet to come to. At
the end no worker holds a file and none is left to take (`Held`), so the two meet
(`AllSettled`). `Totals` ties the counters and the truncation flags to what was handed
over, `CountsFiles` the count of completed files to the cursor. `OneWins` is about the
quiet search: of the workers that find a match one stores it, in two steps, and when it
has, the two parts are of the same match. `Ended` ties the outcome to the reason the
workers stopped for. That a search with no worker at all would end as complete with an
empty report was a counterexample to the theorem; the code does not allow it, and
`SearchAssumption` now says so. `KeepLeavesOut` and `SmallestAreFirst` turn the bounds
of `HeapsKeepSmallest` into the one set of the smallest.

### `IndexUpdateProofs`

For any files, roots, contents, sizes and content workers, and any limits, under
`UpdateAssumption` (finitely many files, sizes are naturals and `Absent` has none):

| theorem | establishes |
|---|---|
| `UpdateTypes` | `Spec => []TypeOK` |
| `LimitsAreKept` | `Spec => []WithinLimits` |
| `ChangesArePlanned` | `Spec => OnlyPlannedChange` |
| `ReportsAgree` | `Spec => CountsAgree` |
| `OutcomeIsThatOfFiles` | `Spec => ResultIsDetermined` |

The inductive invariant `IInv` is about the counters. `WithinLimits` cannot be shown
from itself: a rebuild installs what is collected without another look at the limits.
`CountInv` says that what the workers hold and have pushed is covered by the two
counters, which are within the limits unless a worker has found that they are not;
that worker is on its way to the failure slot or has filled it, so the scan ends as
`Refuse`. `WorkerInv` says how many bytes of a file a worker has, `PlanInv` that an
update reads only files of its plan. Total sizes are cardinalities of sets of pairs of
a file and a byte number, so that the sums need no induction.

`OutcomeIsThatOfFiles` adds two parts, which speak of an undisturbed operation.
`FilesInv`: every file to be read is in one place (to do, held by one worker,
collected, gone), and what was read is on the disk. `FitInv`: the counters are *exact*
until a limit is reached, and that a limit is reached means that the outcome does not
fit. `LimitIsRight` is the step that needs both; `NextIsNew` shows that the counts
`apply_changed_entries` computes from the old index are those of the new one.

### `LineSearchProofs`

For any text and any cut of it into chunks, any pattern, limits and contexts, under
`ByteAssumption` and `LineAssumption` (newline and carriage return are different bytes and
well formed, limits and contexts are naturals, a pattern is not empty):

| theorem | establishes |
|---|---|
| `LinesReportIsThatOfText` | `Spec => [](phase = "done" /\ ~crossed => IsReportOf(text))` |

`IsReportOf` looks at a whole text; the searcher has seen a part of it. So `LineInv` says
what the state is as a function of the lines that are *behind*, those that end before
`at`. `Position` says where the searcher is: that `pending` is the piece of the line it
is in, that `pendingOffset` is where that line begins and `lineNumber` the number of it,
and that a line that is being discarded is longer than the limit. `Kept` gives the
context ring and the pending matches, `Reported` the records and counters: a line behind
that matches is either retained, with all the context after it, or waits for the rest of
it (`Found`, `Waits`, `Recent`). `Kept` and `Reported` are claimed only while `~crossed`:
when a later chunk ends a line too long, the line that stays in the buffer is not one of
the text (`line_buffer`). The theorem is not that of one run, since `FileProcessor` has
the steps of `LineSearch` as its own; the proofs of the next module rest on it.

### `FileProcessorProofs`

For any files and chunks, any limits, window and options, under the assumptions above
and `FileAssumption` (what `encoding_rs` and the byte order marks are like):

| theorem | establishes |
|---|---|
| `FileTypeOK` | `FileSpec => []TypeOK` |
| `FileReportIsThatOfSource` | `FileSpec => []ReportIsThatOfSource` |
| `FileBinaryIsNotCounted` | `FileSpec => []BinaryIsNotCounted` |
| `FileSkippedIsSaid` | `FileSpec => []SkippedIsSaid` |

The inductive invariant is `FileInv`. `Searcher` places the `LineInv` of the searcher in
the life of the processor: the searcher is new until the file has a text, and stays new
in a multiline search. `Gathered` says what is kept of the bytes before that, and that a
file is undecided only while it has fewer than three bytes. `Streamed` says that the
searcher has what came behind the mark, and that `inspected_binary_bytes` bytes of it
were looked at and have no NUL, which makes the window independent of the chunks.
`Decided` relates the text and the mode to the file: what is searched is `TextOf(source)`
and not binary, what is given up is. `Said` follows the warnings. None of the properties
is inductive alone: at the end of a file `ReportIsThatOfSource` needs to know that the
text is still the one that was decided on with the first bytes, and `BinaryIsNotCounted`
that no NUL was passed over between two chunks.

Attempts to prove corrected the model and a property. Three definitions had CASEs with
conditions that overlap, where the code has an order of tests (an encoding that is set is
taken before a mark is looked for; an archive comes before the mode): they are now IFs in
that order.
A file that is well formed UTF-8 is borrowed by the decoder, not rebuilt.
`BinaryIsNotCounted` used to be claimed of files that are listed with one or two bytes and
have grown: such a file is decided at the listed size, before its mark is complete, so
that the window is laid over other bytes.

### `MultilineProofs`

For any text, any list of matches in order, and any options, under the same assumptions:

| theorem | establishes |
|---|---|
| `FileMultilineBlocksAreLines` | `FileSpec => []MultilineBlocksAreLines` |

A multiline search is one step, so the work is not in an invariant but in the loops of
that step. Each is a recursive function of the number of turns; the lemmas give the state
after every turn in closed form (`StepByStep` is the induction) and so the result.

1. *The cursor* is always at a line: its number, beginning and end are those of one of
   `StartsOf(text)` (`CursorAt`). `AdvanceGoes`: it goes to the line of an offset that is
   not behind it, the last line included, which `LineOf` describes by counting newlines.
   That the text is long enough for the number of turns is part of the proof.
2. *The context* is taken backwards and forwards from the block. After m turns it is the
   context of the lines with the m numbers next to it (`BeforeIs`, `AfterIs`), which are
   those the properties name by counting lines in between (`NextToAre`).
3. *The blocks.* After k matches they are the maximal runs of matches that share lines
   (`StateAt`, `VisitIs`): a match begins a block exactly if the match before it ends on
   an earlier line. Matches are in order, so the lines of each begin no earlier than where
   the one before ends (`SpansInOrder`); without that a visit could join the wrong block.
4. *The lines.* A run touches an interval of lines, and no match outside touches one of
   them (`IsBlock`, `LinesOfBlock`), so the interval is what `Together` says of any line in
   it (`TogetherIs`), and the record made of the block is `BlockOf` that line (`MatchIs`).
   The intervals are disjoint, hence the totals (`MatchingLinesAre`, `OccurrencesAre`).

### `IndexSearchProofs`

For any files, chunks and options, any tree of an expression and any assignment of bits
to trigrams, under the assumptions above and `QueryAssumption` (the nodes of a tree are
numbered with children before parents, each kind has the children it should, and the
regular expression engine finds texts of the `Language` of its node):

| theorem | establishes |
|---|---|
| `NoMatchIsDropped` | `FileSpec => []NoFalseNegative` |
| `FilesWithDemandPass` | a file that contains what a query demands passes the filter |

The argument has four parts.

1. *Recursion.* `MandatoryLiteral` and `Language` are recursive functions on the nodes.
   `RecursionSolved` (in `MultilineProofs`) shows that a recursion which looks only at smaller numbers
   (`LooksBack`) has a solution, so that both satisfy their equations
   (`MandatoryLiteralIs`, `LanguageIs`). The induction is by the least node without a
   solution, because the induction theorems of the library cannot be instantiated.
2. *The literal is mandatory.* `MatchesContainLiteral`: every text of the language of a
   node contains, in one piece (`Within`), what `longest_mandatory_literal` returns for
   it; by the least node for which that is wrong, and the kinds of nodes. Concatenation
   is the interesting case: a word of it has a word of each child (`PieceWithin`), and the
   longest literal is that of one of them (`LongestIsOne`).
3. *A match that is counted is in the bytes.* The invariant is `TraceInv`, which adds to
   `FileInv` that a file with occurrences contains the pattern or a text that the
   expression may match (`Traced`), and that a multiline search has the whole decoded text
   (`Deciphered`). It needs an induction of its own, because a file keeps what was counted
   in its first chunks when a NUL in a later one gives it up; `FileInv` says nothing of the
   counters then. It is claimed of files that are UTF-8 (`Plain`), whose text is in their
   bytes (`PlainText`); the filter lets every other file pass.
4. *The filter.* The entry has the filter of the file that is searched. What a file contains has its trigrams among the trigrams of the file
   (`TrigramsOfPart`), and the Bloom filter has the bits of each.

TLC checked `Traced` and `Deciphered` on the instance of `source_report` before they were
proved. `NoFalseNegative` is not claimed of files with `crossed`, where the line searched
is not one of the file (finding 5).

### What is only model-checked

Every safety invariant and every action property of the passing runs is proved. Only the
liveness properties (`ChangesArrive`, `StopReturns`, `BatchesEnd`, `SearchReturns`,
`OperationReturns`, `LockIsReleased`, `NameIsTakenAgain`) stay with TLC: fairness and
ENABLED are out of reach of the prover. No module uses RECURSIVE operators.

## 9. What is not modelled

- `wait_for_update` and `running` (step 10), `changed_files` and `full_rebuilds`,
  which are only counted.
- `from_index`, which starts from an index of the caller's ("the caller owns
  freshness"): its states are those of a start that trusts its file.
- The scanner, `notify` (the end of its thread, see section 3), the kernel, `regex-automata`, `encoding_rs`, the archive
  decoders: external, by what the code relies on. A notification that the kernel loses
  without saying so is outside the model.
- A start that fails before it builds (a bad path, an unreadable index): it leaves
  nothing behind.
- The ranks of two archive members with one name (`ranking.rs:13`), which are equal.
- The binary layout, checksum and hashes of the index file (`format.rs`, `load.rs`,
  most of `metadata.rs`): serialization by one thread without shared state.
- The expansion of replacements (`query/replacement.rs`), a pure string function.
- The budget of an archive's expansion (`archive/`).
- `options/`, `report.rs`, `error.rs` (data), `output/` (formatting), `bin/` (one call).
