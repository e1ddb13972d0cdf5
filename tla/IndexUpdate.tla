----------------------------- MODULE IndexUpdate -----------------------------
(***************************************************************************)
(* index/build.rs, build_worker.rs, update.rs, update_worker.rs,           *)
(* change_set.rs and failure.rs: how an index is brought up to date.       *)
(*                                                                         *)
(* The scanner calls one visitor per content worker; the visitors share a  *)
(* byte counter, an entry counter, a failure slot and the list of finished *)
(* entries.  When the scan is over, an update puts the entries into the    *)
(* index, a rebuild replaces it.  Each access to shared data is a step.    *)
(*                                                                         *)
(* The content of a file is one value with a size; the scanner reports a   *)
(* file that is written while it is read as changed, and then the visitor  *)
(* drops it.                                                               *)
(***************************************************************************)
EXTENDS Naturals, FiniteSets

CONSTANTS
  File, Root,           \* paths, and the roots they are under
  RootOf,               \* [File -> Root]
  Content, Absent,      \* what a file holds, and no file or no entry
  Size, MaxSize,        \* bytes of a content, and the most of any
  Worker,               \* content workers
  MaxEntries, MaxContentBytes,      \* IndexOptions
  None,                 \* no failure
  MaxOps, MaxFaults                 \* bounds; writes of others are faults here

ASSUME UpdateAssumption ==
  /\ IsFiniteSet(File) /\ RootOf \in [File -> Root]
  /\ Absent \notin Content \cup File
  /\ MaxSize \in Nat /\ Size \in [Content \cup {Absent} -> 0..MaxSize] /\ Size[Absent] = 0
  /\ MaxEntries \in Nat /\ MaxContentBytes \in Nat
  /\ None \notin {"limit", "memory"}
  /\ MaxOps \in Nat /\ MaxFaults \in Nat

VARIABLES
  disk,                 \* what the files hold
  entries, contentBytes,            \* the index
  op,                   \* "none", "update" or "rebuild"
  plan,                 \* WatchPlan: changed and removed files of a root
  todo,                 \* files the scanner has not given to a worker yet
  missing,              \* ChangedContentVisitReport::removed
  pc, file, seen, got,  \* per worker: what is next, EntryBuilder, bytes in it
  torn,                 \* workers whose file was written since it was opened
  collected,            \* the shared list of finished entries
  retainedBytes, retainedEntries,   \* the shared counters
  failure,              \* the shared slot
  result,               \* of the last operation: "ok", "error" or None
  report,               \* IndexUpdateReport of the last that was ok
  undisturbed,          \* history: no write and no fault since it began
  ops, faults

index == <<entries, contentBytes>>
worker == <<pc, file, seen, got, torn>>
shared == <<collected, retainedBytes, retainedEntries, failure>>
outcome == <<result, report>>
bounds == <<ops, faults>>
scan == <<todo, missing, worker, shared>>
vars == <<disk, index, op, plan, scan, outcome, undisturbed, bounds>>

-----------------------------------------------------------------------------

Contents == [File -> Content \cup {Absent}]
Nothing == [f \in File |-> Absent]
Indexed(e) == {f \in File : e[f] # Absent}

\* content_bytes: the bytes that these files have in e.
Bytes(e, files) == {p \in files \X (1..MaxSize) : p[2] <= Size[e[p[1]]]}
Total(e, files) == Cardinality(Bytes(e, files))

Fits(e) == Cardinality(Indexed(e)) <= MaxEntries /\ Total(e, File) <= MaxContentBytes

Plans == [changed : SUBSET File, removed : SUBSET File]
\* The files of a plan are under one root.
PlansOf(root) == LET files == {f \in File : RootOf[f] = root}
                 IN [changed : SUBSET files, removed : SUBSET files]
NoPlan == [changed |-> {}, removed |-> {}]
NoReport == [added |-> 0, updated |-> 0, removed |-> 0]

Init ==
  /\ disk \in Contents
  /\ entries = Nothing /\ contentBytes = 0
  /\ op = "none" /\ plan = NoPlan
  /\ todo = {} /\ missing = {}
  /\ pc = [w \in Worker |-> "idle"] /\ file = [w \in Worker |-> Absent]
  /\ seen = [w \in Worker |-> Absent] /\ got = [w \in Worker |-> 0] /\ torn = {}
  /\ collected = Nothing /\ retainedBytes = 0 /\ retainedEntries = 0 /\ failure = None
  /\ result = None /\ report = NoReport
  /\ undisturbed = TRUE
  /\ ops = 0 /\ faults = 0

-----------------------------------------------------------------------------
(* Beginning an operation *)

\* A scan has counters, a failure slot and visitors of its own.
NewScan(files) ==
  /\ todo' = files /\ missing' = {}
  /\ pc' = [w \in Worker |-> "idle"]
  /\ collected' = Nothing /\ retainedBytes' = 0 /\ retainedEntries' = 0 /\ failure' = None
  /\ UNCHANGED <<file, seen, got, torn>>

\* The caller does not touch the index meanwhile (&mut self).
Begin == /\ op = "none" /\ ops < MaxOps
         /\ ops' = ops + 1
         /\ undisturbed' = TRUE
         /\ result' = None /\ report' = NoReport
         /\ UNCHANGED <<disk, index, faults>>

\* update with a plan that needs no full rescan.
BeginUpdate ==
  /\ Begin
  /\ op' = "update"
  /\ \E root \in Root : plan' \in PlansOf(root)
  /\ NewScan(plan'.changed)

\* update with a plan that does.
BeginRebuild ==
  /\ Begin
  /\ op' = "rebuild"
  /\ plan' = NoPlan
  /\ NewScan(File)

-----------------------------------------------------------------------------
(* The visitors *)

Set(w, label) == pc' = [pc EXCEPT ![w] = label]
\* The worker is done with its file.
Drop(w) == /\ file' = [file EXCEPT ![w] = Absent]
           /\ seen' = [seen EXCEPT ![w] = Absent]
           /\ got' = [got EXCEPT ![w] = 0]
           /\ torn' = torn \ {w}

\* A file to be read is gone.
FileIsGone(f) ==
  /\ f \in todo /\ disk[f] = Absent
  /\ todo' = todo \ {f}
  /\ missing' = missing \cup {f}
  /\ UNCHANGED <<disk, index, op, plan, worker, shared, outcome, undisturbed, bounds>>

OpenFile(w) ==
  /\ pc[w] = "idle"
  /\ \E f \in todo :
       /\ disk[f] # Absent
       /\ todo' = todo \ {f}
       /\ file' = [file EXCEPT ![w] = f]
       /\ seen' = [seen EXCEPT ![w] = disk[f]]
  /\ Set(w, "event")
  /\ UNCHANGED <<disk, index, op, plan, missing, got, torn, shared, outcome, undisturbed,
                 bounds>>

\* visit: has another visitor failed?
Visit(w) ==
  /\ pc[w] = "event"
  /\ IF failure # None
       THEN Set(w, "quit") /\ Drop(w)
       ELSE /\ Set(w, IF got[w] < Size[seen[w]] THEN "chunk" ELSE "end")
            /\ UNCHANGED <<file, seen, got, torn>>
  /\ UNCHANGED <<disk, index, op, plan, todo, missing, shared, outcome, undisturbed, bounds>>

\* Slip: the chunk is added to the counter after the check.
CountChunkLater(w) ==
  /\ pc[w] = "chunk"
  /\ IF retainedBytes > MaxContentBytes
       THEN Set(w, "limit") /\ UNCHANGED got
       ELSE Set(w, "event") /\ got' = [got EXCEPT ![w] = @ + 1]
  /\ retainedBytes' = retainedBytes + 1
  /\ UNCHANGED <<disk, index, op, plan, todo, missing, file, seen, torn, collected,
                 retainedEntries, failure, outcome, undisturbed, bounds>>

\* A chunk of one byte: fetch_add, and the limit is checked with the sum.
CountChunk(w) ==
  /\ pc[w] = "chunk"
  /\ retainedBytes' = retainedBytes + 1
  /\ IF retainedBytes + 1 > MaxContentBytes
       THEN Set(w, "limit") /\ UNCHANGED got
       ELSE Set(w, "event") /\ got' = [got EXCEPT ![w] = @ + 1]
  /\ UNCHANGED <<disk, index, op, plan, todo, missing, file, seen, torn, collected,
                 retainedEntries, failure, outcome, undisturbed, bounds>>

\* The end of a file: EntryBuilder::finish drops it when it changed, and only a
\* rebuild counts entries here.
EndFile(w) ==
  /\ pc[w] = "end"
  /\ \/ /\ w \in torn
        /\ Set(w, "idle") /\ Drop(w)
        /\ UNCHANGED retainedEntries
     \/ /\ w \notin torn /\ op = "rebuild"
        /\ retainedEntries' = retainedEntries + 1
        /\ Set(w, IF retainedEntries + 1 > MaxEntries THEN "limit" ELSE "push")
        /\ UNCHANGED <<file, seen, got, torn>>
     \/ /\ w \notin torn /\ op = "update"
        /\ Set(w, "push")
        /\ UNCHANGED <<retainedEntries, file, seen, got, torn>>
  /\ UNCHANGED <<disk, index, op, plan, todo, missing, collected, retainedBytes, failure,
                 outcome, undisturbed, bounds>>

Push(w) ==
  /\ pc[w] = "push"
  /\ collected' = [collected EXCEPT ![file[w]] = seen[w]]
  /\ Set(w, "idle") /\ Drop(w)
  /\ UNCHANGED <<disk, index, op, plan, todo, missing, retainedBytes, retainedEntries,
                 failure, outcome, undisturbed, bounds>>

\* Slip: a visitor that fails second tries until the slot is empty.
SetFailureRetried(w) ==
  /\ pc[w] \in {"limit", "memory"}
  /\ \/ /\ failure = None
        /\ failure' = pc[w]
        /\ Set(w, "quit") /\ Drop(w)
        /\ UNCHANGED <<disk, index, op, plan, todo, missing, collected, retainedBytes,
                       retainedEntries, outcome, undisturbed, bounds>>
     \/ failure # None /\ UNCHANGED vars

\* set_failure: the first failure stays.
SetFailure(w) ==
  /\ pc[w] \in {"limit", "memory"}
  /\ failure' = IF failure = None THEN pc[w] ELSE failure
  /\ Set(w, "quit") /\ Drop(w)
  /\ UNCHANGED <<disk, index, op, plan, todo, missing, collected, retainedBytes,
                 retainedEntries, outcome, undisturbed, bounds>>

-----------------------------------------------------------------------------
(* Ending an operation *)

\* The scan is over: every file was visited, or a visitor quit.
ScanEnded == /\ op # "none"
             /\ \A w \in Worker : pc[w] \in {"idle", "quit"}
             /\ todo = {} \/ \E w \in Worker : pc[w] = "quit"

Return(r) == op' = "none" /\ plan' = NoPlan /\ result' = r
EndScan == NewScan({}) /\ UNCHANGED <<disk, undisturbed, bounds>>

\* Nothing of the index was touched.
Refuse ==
  /\ ScanEnded /\ failure # None
  /\ Return("error")
  /\ EndScan /\ UNCHANGED <<index, report>>

\* apply_changed_entries
Changed == Indexed(collected)
\* Slip: a file that is gone keeps its entry.
AffectedIfRemoved == plan.removed \cup Changed
Affected == plan.changed \cup plan.removed \cup missing \cup Changed
OldEntries == Affected \cap Indexed(entries)
Retained == Changed \cap OldEntries
NextLen == Cardinality(Indexed(entries)) - Cardinality(OldEntries) + Cardinality(Changed)
\* Slip: the bytes of the changed entries are not added.
NextContentBytesOfOld == contentBytes - Total(entries, OldEntries)
NextContentBytes == contentBytes - Total(entries, OldEntries) + Total(collected, Changed)

\* replace_affected_entries
Replaced == [f \in File |-> IF f \in Changed THEN collected[f]
                            ELSE IF f \in Affected THEN Absent ELSE entries[f]]

\* Slip: what the plan removes is counted, indexed or not.
UpdateReportOfPlan ==
  [added |-> Cardinality(Changed) - Cardinality(Retained),
   updated |-> Cardinality({f \in Retained : entries[f] # collected[f]}),
   removed |-> Cardinality(Affected) - Cardinality(Changed)]

UpdateReport ==
  [added |-> Cardinality(Changed) - Cardinality(Retained),
   updated |-> Cardinality({f \in Retained : entries[f] # collected[f]}),
   removed |-> Cardinality(OldEntries) - Cardinality(Retained)]

\* Slip: entries are replaced before the limits are checked.
ApplyBeforeCheck ==
  /\ ScanEnded /\ failure = None /\ op = "update"
  /\ entries' = Replaced
  /\ IF NextLen > MaxEntries \/ NextContentBytes > MaxContentBytes
       THEN Return("error") /\ UNCHANGED <<contentBytes, report>>
       ELSE contentBytes' = NextContentBytes /\ report' = UpdateReport /\ Return("ok")
  /\ EndScan

\* The limits are checked before anything is changed.
Apply ==
  /\ ScanEnded /\ failure = None /\ op = "update"
  /\ IF NextLen > MaxEntries \/ NextContentBytes > MaxContentBytes
       THEN Return("error") /\ UNCHANGED <<index, report>>
       ELSE /\ entries' = Replaced
            /\ contentBytes' = NextContentBytes
            /\ report' = UpdateReport
            /\ Return("ok")
  /\ EndScan

\* The scanner finds that the plan is not enough: the index is rebuilt.
RescanRequired ==
  /\ ScanEnded /\ failure = None /\ op = "update"
  /\ op' = "rebuild"
  /\ plan' = NoPlan
  /\ NewScan(File)
  /\ UNCHANGED <<disk, index, outcome, undisturbed, bounds>>

\* build returned a new index, which replaces this one.
Replace ==
  /\ ScanEnded /\ failure = None /\ op = "rebuild"
  /\ entries' = collected
  /\ contentBytes' = Total(collected, File)
  /\ report' = [added |-> Cardinality(Changed \ Indexed(entries)),
                updated |-> Cardinality({f \in Changed \cap Indexed(entries) :
                                           entries[f] # collected[f]}),
                removed |-> Cardinality(Indexed(entries) \ Changed)]
  /\ Return("ok")
  /\ EndScan

-----------------------------------------------------------------------------
(* The world *)

Fault == faults < MaxFaults /\ faults' = faults + 1 /\ undisturbed' = FALSE

\* Another program writes or deletes a file.
Write(f) ==
  /\ Fault
  /\ \E c \in (Content \cup {Absent}) \ {disk[f]} : disk' = [disk EXCEPT ![f] = c]
  /\ torn' = torn \cup {w \in Worker : file[w] = f}
  /\ UNCHANGED <<index, op, plan, todo, missing, pc, file, seen, got, shared, outcome, ops>>

\* A visitor is refused memory, for the file or for a chunk.
AllocationFails(w) ==
  /\ Fault
  /\ pc[w] \in {"chunk", "end"}
  /\ Set(w, "memory")
  /\ UNCHANGED <<disk, index, op, plan, todo, missing, file, seen, got, torn, shared,
                 outcome, ops>>

\* The scanner itself fails, or memory for the entries is refused.
ScanFails ==
  /\ Fault
  /\ op # "none" /\ \A w \in Worker : pc[w] \in {"idle", "quit"}
  /\ Return("error")
  /\ NewScan({})
  /\ UNCHANGED <<disk, index, report, ops>>

-----------------------------------------------------------------------------

Work(w) == OpenFile(w) \/ Visit(w) \/ CountChunk(w) \/ EndFile(w) \/ Push(w) \/ SetFailure(w)
Finish == Refuse \/ Apply \/ Replace
Done == op = "none" /\ ops = MaxOps /\ UNCHANGED vars

Next ==
  \/ BeginUpdate \/ BeginRebuild
  \/ \E f \in File : FileIsGone(f)
  \/ \E w \in Worker : Work(w)
  \/ Finish \/ RescanRequired
  \/ \E f \in File : Write(f)
  \/ \E w \in Worker : AllocationFails(w)
  \/ ScanFails
  \/ Done

Spec == Init /\ [][Next]_vars

\* The threads of a scan run, and so does the caller.
FairSpec ==
  /\ Spec
  /\ \A f \in File : WF_vars(FileIsGone(f))
  /\ \A w \in Worker : WF_vars(Work(w))
  /\ WF_vars(Finish)

-----------------------------------------------------------------------------
(* Properties *)

TypeOK ==
  /\ disk \in Contents /\ entries \in Contents /\ collected \in Contents
  /\ contentBytes \in Nat
  /\ op \in {"none", "update", "rebuild"}
  /\ plan \in Plans
  /\ todo \subseteq File /\ missing \subseteq File
  /\ pc \in [Worker -> {"idle", "event", "chunk", "end", "push", "limit", "memory", "quit"}]
  /\ file \in [Worker -> File \cup {Absent}]
  /\ seen \in [Worker -> Content \cup {Absent}]
  /\ got \in [Worker -> Nat]
  /\ torn \subseteq Worker
  /\ retainedBytes \in Nat /\ retainedEntries \in Nat
  /\ failure \in {None, "limit", "memory"}
  /\ result \in {None, "ok", "error"}
  /\ report \in [added : Nat, updated : Nat, removed : Nat]

\* Whatever the workers do at once, the index keeps to the limits of its options,
\* and the byte count it reports is that of its entries.
WithinLimits == Fits(entries) /\ contentBytes = Total(entries, File)

Ends(r) == op # "none" /\ op' = "none" /\ result' = r

\* The index that the operation should give.
Expected ==
  CASE op = "rebuild" -> disk
    [] op = "update"  -> [f \in File |-> IF f \in plan.changed THEN disk[f]
                                         ELSE IF f \in plan.removed THEN Absent
                                         ELSE entries[f]]

\* When nothing interferes, the workers cannot make a difference: the operation
\* is accepted exactly if its outcome is within the limits, and gives that.
ResultIsDetermined ==
  [][undisturbed' =>
       /\ Ends("ok") => Fits(Expected) /\ entries' = Expected
       /\ Ends("error") => ~Fits(Expected)]_vars

\* An operation that is refused leaves the index as it was, and an update
\* changes no entries but those of its plan.
OnlyPlannedChange ==
  [][/\ Ends("error") => UNCHANGED index
     /\ \A f \in File : entries'[f] # entries[f] =>
          \/ op = "rebuild" /\ Ends("ok")
          \/ op = "update" /\ f \in plan.changed \cup plan.removed]_vars

\* The reported numbers are those of the entries that were added, that have other
\* content now, and that were removed.
CountsAgree ==
  [][Ends("ok") =>
       LET old == Indexed(entries)
           new == Indexed(entries')
       IN report' = [added |-> Cardinality(new \ old),
                     updated |-> Cardinality({f \in old \cap new : entries[f] # entries'[f]}),
                     removed |-> Cardinality(old \ new)]]_vars

\* Every operation returns, also when workers fail while others are at work.
OperationReturns == op # "none" ~> op = "none"

=============================================================================
