---------------------------- MODULE IndexStorage ----------------------------
(***************************************************************************)
(* The files of a persistent index (index/storage.rs, index/files.rs):     *)
(* save creates a lock file, writes a temporary file, moves the old index  *)
(* to a backup and the new one to its name, and removes what is left.  Any *)
(* of these calls may fail, and a process may die between any two of them. *)
(*                                                                         *)
(* A file holds the index of one save and is known by its number; a file   *)
(* that is not written to its end is not whole.  The file system is        *)
(* external: creation with create_new and renames are atomic, and what     *)
(* sync_all wrote survives.                                                *)
(***************************************************************************)
EXTENDS Naturals, FiniteSetsExt

CONSTANTS
  Saver,        \* threads of any process that save to the path
  Reader,       \* callers of PersistentIndex::open
  Suffix,       \* process and sequence number in a .tmp or .backup name (the
                \* numbers drawn for the two names of a save stand as one)
  NoSuffix,
  MaxSaves,     \* bound of a run: the number of saves that get the lock
  Fault,        \* the kinds of failure a run has
  MaxFaults     \* bound of a run: how many failures

FaultKind == {"lock", "write", "rename", "remove", "path", "crash"}

ASSUME StorageAssumption == /\ Suffix # {} /\ IsFiniteSet(Suffix)
                            /\ NoSuffix \notin Suffix
                            /\ MaxSaves \in Nat
                            /\ Fault \subseteq FaultKind
                            /\ MaxFaults \in Nat

VARIABLES
  lockFile,     \* whether <path>.lock exists
  temp,         \* the files <path>.tmp.<suffix>
  backup,       \* the files <path>.backup.<suffix>
  target,       \* the file <path>
  pc,           \* where each save is
  name,         \* the suffix of its auxiliary files
  saving,       \* its number, 0 when the saver is idle
  outcome,      \* what became of each save; "late" is an error that save
                \* returned although its index has the name
  opened,       \* the save whose index a reader opened last
  faults        \* failures so far

files == <<temp, backup, target>>
vars == <<lockFile, files, pc, name, saving, outcome, opened, faults>>

Version == 1..MaxSaves
NoFile == [save |-> 0, whole |-> FALSE]
File == {NoFile} \cup [save : Version, whole : BOOLEAN]

\* The index that is stored: while the name is free it is in a backup.
Current == IF target # NoFile THEN target.save
                              ELSE Max({backup[n].save : n \in Suffix})

Goto(s, step) == pc' = [pc EXCEPT ![s] = step]

Fails(kind) == /\ kind \in Fault
               /\ faults < MaxFaults
               /\ faults' = faults + 1

\* save returns, or its process dies.
Leave(s, result) ==
  /\ Goto(s, "idle")
  /\ name' = [name EXCEPT ![s] = NoSuffix]
  /\ saving' = [saving EXCEPT ![s] = 0]
  /\ outcome' = [outcome EXCEPT ![saving[s]] = result]

-----------------------------------------------------------------------------
(* The lock file *)

\* Slip: create instead of create_new.
CreateLockOver(s) ==
  /\ pc[s] = "idle"
  /\ \E v \in Version :
       /\ outcome[v] = "unused"
       /\ \A u \in 1..(v - 1) : outcome[u] # "unused"
       /\ saving' = [saving EXCEPT ![s] = v]
       /\ outcome' = [outcome EXCEPT ![v] = "running"]
  /\ lockFile' = TRUE
  /\ Goto(s, "lock")
  /\ UNCHANGED <<files, name, opened, faults>>

\* IndexLock::acquire: create_new.  When the file exists, or the directory
\* cannot be created, save returns an error and has changed nothing.
CreateLock(s) ==
  /\ pc[s] = "idle"
  /\ ~lockFile
  /\ \E v \in Version :
       /\ outcome[v] = "unused"
       /\ \A u \in 1..(v - 1) : outcome[u] # "unused"
       /\ saving' = [saving EXCEPT ![s] = v]
       /\ outcome' = [outcome EXCEPT ![v] = "running"]
  /\ lockFile' = TRUE
  /\ Goto(s, "lock")
  /\ UNCHANGED <<files, name, opened, faults>>

\* Slip: `let _ =` drops the IndexLock as soon as it is there.
WriteLockDropped(s) ==
  /\ pc[s] = "lock"
  /\ lockFile' = FALSE
  /\ Goto(s, "locked")
  /\ UNCHANGED <<files, name, saving, outcome, opened, faults>>

WriteLock(s) ==
  /\ pc[s] = "lock"
  /\ Goto(s, "locked")
  /\ UNCHANGED <<lockFile, files, name, saving, outcome, opened, faults>>

\* Writing the process number or syncing fails: there is no IndexLock yet whose
\* drop would remove the file.
WriteLockFails(s) ==
  /\ pc[s] = "lock"
  /\ Fails("lock")
  /\ Leave(s, "error")
  /\ UNCHANGED <<lockFile, files, opened>>

\* What save returns: Ok after it has stored the path in its storage_path.
Result(s) == IF pc[s] = "saved" THEN "ok"
             ELSE IF pc[s] = "late" THEN "late" ELSE "error"

\* Slip: only a save that worked removes the lock file.
ReleaseAfterSave(s) ==
  /\ pc[s] \in {"saved", "late", "failed"}
  /\ \/ lockFile' = (pc[s] # "saved") /\ UNCHANGED faults
     \/ Fails("lock") /\ UNCHANGED lockFile
  /\ Leave(s, Result(s))
  /\ UNCHANGED <<files, opened>>

\* The drop of the IndexLock, whatever save returns, ignores a failure.
Release(s) ==
  /\ pc[s] \in {"saved", "late", "failed"}
  /\ \/ lockFile' = FALSE /\ UNCHANGED faults
     \/ Fails("lock") /\ UNCHANGED lockFile
  /\ Leave(s, Result(s))
  /\ UNCHANGED <<files, opened>>

\* External: somebody who sees that no save runs removes a lock file that is left.
RemoveLock ==
  /\ lockFile
  /\ \A s \in Saver : pc[s] = "idle"
  /\ lockFile' = FALSE
  /\ UNCHANGED <<files, pc, name, saving, outcome, opened, faults>>

-----------------------------------------------------------------------------
(* The temporary file *)

\* write_file: create_new again.  The suffix is unique among the processes that
\* run; a process that died may have left a file with it.
CreateTemp(s, n) ==
  /\ pc[s] = "locked"
  /\ \A t \in Saver : name[t] # n
  /\ name' = [name EXCEPT ![s] = n]
  /\ \/ /\ temp[n] = NoFile
        /\ temp' = [temp EXCEPT ![n] = [save |-> saving[s], whole |-> FALSE]]
        /\ Goto(s, "write")
        /\ UNCHANGED faults
     \/ /\ temp[n] # NoFile
        /\ Goto(s, "cleanup")
        /\ UNCHANGED <<temp, faults>>
     \/ /\ Fails("write")
        /\ Goto(s, "cleanup")
        /\ UNCHANGED temp
  /\ UNCHANGED <<lockFile, backup, target, saving, outcome, opened>>

WriteTemp(s) ==
  /\ pc[s] = "write"
  /\ temp' = [temp EXCEPT ![name[s]] = [save |-> saving[s], whole |-> TRUE]]
  /\ Goto(s, "replace")
  /\ UNCHANGED <<lockFile, backup, target, name, saving, outcome, opened, faults>>

\* Slip: the error of a write goes unnoticed.
WriteTempUnchecked(s) ==
  /\ pc[s] = "write"
  /\ Fails("write")
  /\ Goto(s, "replace")
  /\ UNCHANGED <<lockFile, files, name, saving, outcome, opened>>

\* An I/O error, or the index is larger than max_index_bytes.
WriteTempFails(s) ==
  /\ pc[s] = "write"
  /\ Fails("write")
  /\ Goto(s, "cleanup")
  /\ UNCHANGED <<lockFile, files, name, saving, outcome, opened>>

\* After any error: the temporary file is removed, or not.
RemoveTemp(s) ==
  /\ pc[s] = "cleanup"
  /\ \/ temp' = [temp EXCEPT ![name[s]] = NoFile] /\ UNCHANGED faults
     \/ Fails("remove") /\ UNCHANGED temp
  /\ Goto(s, "failed")
  /\ UNCHANGED <<lockFile, backup, target, name, saving, outcome, opened>>

-----------------------------------------------------------------------------
(* replace_file *)

\* Slip: the old index is removed to make room.
RemoveOld(s) ==
  /\ pc[s] = "replace"
  /\ target # NoFile
  /\ target' = NoFile
  /\ Goto(s, "install")
  /\ UNCHANGED <<lockFile, temp, backup, name, saving, outcome, opened, faults>>

\* The old index, if there is one, leaves its name ...
BackUp(s) ==
  /\ pc[s] = "replace"
  /\ target # NoFile
  /\ backup' = [backup EXCEPT ![name[s]] = target]
  /\ target' = NoFile
  /\ Goto(s, "install")
  /\ UNCHANGED <<lockFile, temp, name, saving, outcome, opened, faults>>

BackUpFails(s) ==
  /\ pc[s] = "replace"
  /\ target # NoFile
  /\ Fails("rename")
  /\ Goto(s, "cleanup")
  /\ UNCHANGED <<lockFile, files, name, saving, outcome, opened>>

Installing(s) == \/ pc[s] = "install"
                 \/ pc[s] = "replace" /\ target = NoFile

\* ... and the new one takes it.
Install(s) ==
  /\ Installing(s)
  /\ target' = temp[name[s]]
  /\ temp' = [temp EXCEPT ![name[s]] = NoFile]
  /\ Goto(s, IF pc[s] = "install" THEN "discard" ELSE "saved")
  /\ UNCHANGED <<lockFile, backup, name, saving, outcome, opened, faults>>

\* Slip: the error is returned and the backup stays where it is.
InstallFailsForGood(s) ==
  /\ Installing(s)
  /\ Fails("rename")
  /\ Goto(s, "cleanup")
  /\ UNCHANGED <<lockFile, files, name, saving, outcome, opened>>

\* Slip: the result of the second rename is dropped.
InstallFailsUnchecked(s) ==
  /\ Installing(s)
  /\ Fails("rename")
  /\ Goto(s, "saved")
  /\ UNCHANGED <<lockFile, files, name, saving, outcome, opened>>

InstallFails(s) ==
  /\ Installing(s)
  /\ Fails("rename")
  /\ Goto(s, IF pc[s] = "install" THEN "rollback" ELSE "cleanup")
  /\ UNCHANGED <<lockFile, files, name, saving, outcome, opened>>

\* The backup goes back to the name; nobody looks at the result.
RollBack(s) ==
  /\ pc[s] = "rollback"
  /\ \/ /\ target' = backup[name[s]]
        /\ backup' = [backup EXCEPT ![name[s]] = NoFile]
        /\ UNCHANGED faults
     \/ /\ Fails("rename")
        /\ UNCHANGED <<target, backup>>
  /\ Goto(s, "cleanup")
  /\ UNCHANGED <<lockFile, temp, name, saving, outcome, opened>>

DiscardBackup(s) ==
  /\ pc[s] = "discard"
  /\ \/ backup' = [backup EXCEPT ![name[s]] = NoFile] /\ UNCHANGED faults
     \/ Fails("remove") /\ UNCHANGED backup
  /\ Goto(s, "saved")
  /\ UNCHANGED <<lockFile, temp, target, name, saving, outcome, opened>>

\* std::path::absolute fails (there is no working directory any more): save
\* returns the error, and the new index stays under its name.
StorePathFails(s) ==
  /\ pc[s] = "saved"
  /\ Fails("path")
  /\ Goto(s, "late")
  /\ UNCHANGED <<lockFile, files, name, saving, outcome, opened>>

-----------------------------------------------------------------------------
(* Crashes and readers *)

\* The files stay, the lock file among them.
Crash(s) ==
  /\ pc[s] # "idle"
  /\ Fails("crash")
  /\ Leave(s, "crashed")
  /\ UNCHANGED <<lockFile, files, opened>>

\* open reads the file its name had when it was opened, whatever is renamed
\* meanwhile, and refuses one that is not whole (read_entries, the checksum).
Open(r) ==
  /\ target # NoFile
  /\ target.whole
  /\ opened' = [opened EXCEPT ![r] = target.save]
  /\ UNCHANGED <<lockFile, files, pc, name, saving, outcome, faults>>

-----------------------------------------------------------------------------

Init ==
  /\ lockFile = FALSE
  /\ temp = [n \in Suffix |-> NoFile]
  /\ backup = [n \in Suffix |-> NoFile]
  /\ target = NoFile
  /\ pc = [s \in Saver |-> "idle"]
  /\ name = [s \in Saver |-> NoSuffix]
  /\ saving = [s \in Saver |-> 0]
  /\ outcome = [v \in Version |-> "unused"]
  /\ opened = [r \in Reader |-> 0]
  /\ faults = 0

\* A save that is under way goes on.
SaveStep(s) == \/ WriteLock(s) \/ WriteTemp(s) \/ RemoveTemp(s) \/ BackUp(s)
               \/ Install(s) \/ RollBack(s) \/ DiscardBackup(s) \/ Release(s)
               \/ \E n \in Suffix : CreateTemp(s, n)

FailStep(s) == \/ WriteLockFails(s) \/ WriteTempFails(s) \/ BackUpFails(s)
               \/ InstallFails(s) \/ StorePathFails(s) \/ Crash(s)

\* Nobody saves any more, or nobody can.
Terminated == /\ \A s \in Saver : pc[s] = "idle"
              /\ UNCHANGED vars

Next == \/ \E s \in Saver : CreateLock(s) \/ SaveStep(s) \/ FailStep(s)
        \/ \E r \in Reader : Open(r)
        \/ RemoveLock
        \/ Terminated

Spec == Init /\ [][Next]_vars

\* A thread inside save runs.  Nobody has to save, to open or to clean up.
FairSpec == Spec /\ \A s \in Saver : WF_vars(SaveStep(s))

-----------------------------------------------------------------------------
(* Properties *)

Step == {"idle", "lock", "locked", "write", "replace", "install", "rollback",
         "discard", "cleanup", "saved", "late", "failed"}

\* A saver has a number exactly while it saves.
TypeOK ==
  /\ lockFile \in BOOLEAN
  /\ temp \in [Suffix -> File] /\ backup \in [Suffix -> File] /\ target \in File
  /\ pc \in [Saver -> Step]
  /\ name \in [Saver -> Suffix \cup {NoSuffix}]
  /\ saving \in [Saver -> 0..MaxSaves]
  /\ \A s \in Saver : saving[s] = 0 <=> pc[s] = "idle"
  /\ outcome \in [Version -> {"unused", "running", "ok", "late", "error", "crashed"}]
  /\ opened \in [Reader -> 0..MaxSaves]
  /\ faults \in 0..MaxFaults

\* The last save that returned Ok.
LastOk == Max({0} \cup {v \in Version : outcome[v] = "ok"})

\* The lock file is there as long as a save runs, and only one does: no other
\* process gets between two steps of a save, whatever failed or died before.
OneSaveAtATime ==
  \A s, t \in Saver : pc[s] # "idle" /\ pc[t] # "idle" => s = t /\ lockFile

\* What has the name of the index is complete, not older than the last save
\* that returned Ok, and not from a save that failed to write or to rename its
\* file (an error of the path comes later and leaves the new index there).
NameIsGood ==
  target # NoFile =>
    /\ target.whole
    /\ target.save >= LastOk
    /\ outcome[target.save] # "error"

\* The last save that returned Ok, or a newer one, is on disk, whatever failed
\* or crashed since: under the name, or in a backup.
NothingIsLost ==
  LastOk > 0 =>
    \E f \in {target} \cup {backup[n] : n \in Suffix} : f.whole /\ f.save >= LastOk

\* A reader never goes back to an older index.
OpensGoForward == [][\A r \in Reader : opened'[r] >= opened[r]]_vars

\* The files implement a store that is replaced at once.
Store == INSTANCE AtomicStore WITH store <- Current
StoreSpec == Store!Spec

\* A process died inside a save.
SomeoneDied == \E v \in Version : outcome[v] = "crashed"

\* Whatever failed before, a save that meets no further failure gives its lock
\* file back, also when it returns an error.
LockIsReleased ==
  (\E s \in Saver : pc[s] # "idle") /\ faults = MaxFaults ~> ~lockFile

\* After one failed call the index is back under its name.
NameIsTakenAgain ==
  target = NoFile /\ Current # 0 ~> target # NoFile \/ faults > 1 \/ SomeoneDied

-----------------------------------------------------------------------------
(* What the documentation says and the code does not do *)

\* "Atomically saves this index" (save), "atomic replacement with rollback"
\* (README): there is no moment without an index under the name.
AlwaysUnderItsName == LastOk > 0 => target # NoFile

=============================================================================
