------------------------- MODULE IndexStorageProofs -------------------------
(***************************************************************************)
(* What holds of the files of a persistent index for any number of savers, *)
(* readers, saves and failures, and that they implement AtomicStore.       *)
(***************************************************************************)
EXTENDS IndexStorage, TLAPS

\* One save at a time, and the saves are numbered in the order of their locks.
HolderInv ==
  /\ \A s, t \in Saver : pc[s] # "idle" /\ pc[t] # "idle" => s = t
  /\ \A s \in Saver : pc[s] # "idle" => lockFile /\ outcome[saving[s]] = "running"
  /\ \A v \in Version : outcome[v] = "running" => \E s \in Saver : saving[s] = v
  /\ \A u, v \in Version :
       u < v /\ outcome[u] \in {"unused", "running"} => outcome[v] = "unused"

\* What becomes of a save, and of one that has left.
Returned == {"ok", "late", "error", "crashed"}
Outcome == {"unused", "running"} \cup Returned

\* Where a save is after its second rename.
Replaced == {"discard", "saved", "late"}

\* What the save that runs has done to the files.
ProgressInv ==
  \A s \in Saver :
    /\ pc[s] \in {"write", "replace", "install", "rollback", "discard", "cleanup"} =>
         name[s] \in Suffix
    /\ pc[s] \in {"replace", "install"} =>
         temp[name[s]] = [save |-> saving[s], whole |-> TRUE]
    /\ pc[s] \in {"install", "rollback"} =>
         /\ target = NoFile /\ backup[name[s]] # NoFile
         /\ \A n \in Suffix : backup[n].save <= backup[name[s]].save
    /\ pc[s] \in Replaced =>
         target = [save |-> saving[s], whole |-> TRUE]

\* c is the number of the stored index.
Stored(c) == IF target # NoFile
               THEN c = target.save
               ELSE /\ \E n \in Suffix : c = backup[n].save
                    /\ \A n \in Suffix : backup[n].save <= c

\* Files that can become or stay the index are whole and from saves that
\* replaced it; the stored one is the newest of them, of the saves that returned
\* Ok and of the indexes readers have seen.
StoredInv ==
  /\ target # NoFile =>
       /\ target.whole
       /\ outcome[target.save] \in {"ok", "late", "crashed", "running"}
       /\ outcome[target.save] = "running" =>
            \E s \in Saver : pc[s] \in Replaced
       /\ \A n \in Suffix : backup[n].save <= target.save
  /\ \A n \in Suffix : backup[n] # NoFile =>
       backup[n].whole /\ outcome[backup[n].save] \in {"ok", "late", "crashed"}
  /\ \E c \in 0..MaxSaves :
       /\ Stored(c)
       /\ \A v \in Version : outcome[v] = "ok" => v <= c
       /\ \A r \in Reader : opened[r] <= c

\* One of the saves that returned Ok is the last.
LastInv ==
  \E v \in {0} \cup {u \in Version : outcome[u] = "ok"} :
    \A u \in Version : outcome[u] = "ok" => u <= v

StorageInv == TypeOK /\ HolderInv /\ ProgressInv /\ StoredInv /\ LastInv

USE DEF files, Returned, Outcome, Replaced

-----------------------------------------------------------------------------
(* Data *)

LEMMA FileFacts ==
  ASSUME NEW f \in File
  PROVE  /\ f.save \in 0..MaxSaves /\ f.save \in Nat
         /\ f # NoFile <=> f.save \in Version
         /\ f = NoFile <=> f.save = 0
BY StorageAssumption DEF File, NoFile, Version

\* Max of a set of numbers is its largest element.
LEMMA MaxIs ==
  ASSUME NEW S \in SUBSET Nat, NEW m \in S, \A x \in S : x <= m
  PROVE  Max(S) = m
<1>1. \A y \in S : m >= y
  OBVIOUS
<1>2. \A x \in S : (\A y \in S : x >= y) => x = m
  OBVIOUS
<1> QED
  BY <1>1, <1>2 DEF Max

\* Stored says which index Current is.
LEMMA StoredIsCurrent ==
  ASSUME TypeOK, NEW c, Stored(c)
  PROVE  Current = c
<1>1. CASE target # NoFile
  BY <1>1 DEF Stored, Current
<1>2. CASE target = NoFile
  <2> DEFINE S == {backup[n].save : n \in Suffix}
  <2>1. S \in SUBSET Nat
    BY FileFacts DEF TypeOK
  <2>2. c \in S /\ \A x \in S : x <= c
    BY <1>2 DEF Stored
  <2>3. Max(S) = c
    BY <2>1, <2>2, MaxIs
  <2> QED
    BY <1>2, <2>3 DEF Current
<1> QED
  BY <1>1, <1>2

-----------------------------------------------------------------------------
(* Types *)

LEMMA TypeInit ==
  ASSUME Init
  PROVE  TypeOK
<1>1. /\ lockFile \in BOOLEAN /\ target \in File
      /\ temp \in [Suffix -> File] /\ backup \in [Suffix -> File]
  BY DEF Init, File
<1>2. /\ pc \in [Saver -> Step] /\ name \in [Saver -> Suffix \cup {NoSuffix}]
      /\ \A s \in Saver : saving[s] = 0 <=> pc[s] = "idle"
      /\ outcome \in [Version -> Outcome]
  BY DEF Init, Step
<1>3. saving \in [Saver -> 0..MaxSaves] /\ opened \in [Reader -> 0..MaxSaves]
  BY StorageAssumption DEF Init
<1>4. faults \in 0..MaxFaults
  BY StorageAssumption DEF Init
<1> QED
  BY <1>1, <1>2, <1>3, <1>4 DEF TypeOK

LEMMA SavingType ==
  ASSUME TypeOK, NEW s \in Saver, pc[s] # "idle"
  PROVE  saving[s] \in Version /\ saving[s] \in Nat
BY StorageAssumption DEF TypeOK, Version

LEMMA FileTypes ==
  ASSUME NEW v \in Version, NEW w \in BOOLEAN
  PROVE  NoFile \in File /\ [save |-> v, whole |-> w] \in File
BY DEF File

\* A saver that leaves has no number any more.
LEMMA LeaveType ==
  ASSUME TypeOK, NEW s \in Saver, pc[s] # "idle",
         NEW result \in Returned, Leave(s, result)
  PROVE  /\ pc' \in [Saver -> Step] /\ saving' \in [Saver -> 0..MaxSaves]
         /\ name' \in [Saver -> Suffix \cup {NoSuffix}]
         /\ \A t \in Saver : saving'[t] = 0 <=> pc'[t] = "idle"
         /\ outcome' \in [Version -> Outcome]
         /\ saving[s] \in Version
<1>1. saving[s] \in Version
  BY StorageAssumption DEF TypeOK, Version
<1> QED
  BY <1>1, StorageAssumption DEF TypeOK, Leave, Goto, Step

LEMMA FailsType ==
  ASSUME TypeOK, NEW kind, Fails(kind)
  PROVE  faults' \in 0..MaxFaults
BY StorageAssumption DEF TypeOK, Fails

LEMMA TypeStep ==
  ASSUME TypeOK, HolderInv, ProgressInv, [Next]_vars
  PROVE  TypeOK'
<1>1. ASSUME NEW s \in Saver, NEW step \in Step \ {"idle"}, pc[s] # "idle", Goto(s, step),
             UNCHANGED <<saving, outcome, opened>>
      PROVE  /\ pc' \in [Saver -> Step] /\ saving' \in [Saver -> 0..MaxSaves]
             /\ \A t \in Saver : saving'[t] = 0 <=> pc'[t] = "idle"
             /\ outcome' \in [Version -> Outcome]
             /\ opened' \in [Reader -> 0..MaxSaves]
  BY <1>1 DEF TypeOK, Goto
<1>2. ASSUME NEW s \in Saver, CreateLock(s)
      PROVE  TypeOK'
  <2>1. PICK v \in Version : /\ saving' = [saving EXCEPT ![s] = v]
                             /\ outcome' = [outcome EXCEPT ![v] = "running"]
    BY <1>2 DEF CreateLock
  <2>2. /\ lockFile' = TRUE /\ pc' = [pc EXCEPT ![s] = "lock"]
        /\ UNCHANGED <<temp, backup, target, name, opened, faults>>
    BY <1>2 DEF CreateLock, Goto
  <2>3. v \in 0..MaxSaves /\ v # 0
    BY StorageAssumption DEF Version
  <2>4. pc' \in [Saver -> Step] /\ saving' \in [Saver -> 0..MaxSaves]
    BY <2>1, <2>2, <2>3 DEF TypeOK, Step
  <2>5. \A t \in Saver : saving'[t] = 0 <=> pc'[t] = "idle"
    BY <2>1, <2>2, <2>3 DEF TypeOK, Step
  <2>6. outcome' \in [Version -> Outcome]
    BY <2>1 DEF TypeOK
  <2> QED
    BY <2>2, <2>4, <2>5, <2>6 DEF TypeOK
<1>3. ASSUME NEW s \in Saver, WriteLock(s)
      PROVE  TypeOK'
  <2>1. /\ pc[s] # "idle" /\ Goto(s, "locked")
        /\ UNCHANGED <<lockFile, temp, backup, target, name, saving, outcome, opened, faults>>
    BY <1>3 DEF WriteLock
  <2> QED
    BY <1>1, <2>1 DEF TypeOK, Step
<1>4. ASSUME NEW s \in Saver, StorePathFails(s)
      PROVE  TypeOK'
  <2>1. /\ pc[s] # "idle" /\ Goto(s, "late")
        /\ UNCHANGED <<lockFile, temp, backup, target, name, saving, outcome, opened>>
    BY <1>4 DEF StorePathFails
  <2>2. faults' \in 0..MaxFaults
    BY <1>4, FailsType DEF StorePathFails
  <2> QED
    BY <1>1, <2>1, <2>2 DEF TypeOK, Step
<1>5. ASSUME NEW s \in Saver, WriteLockFails(s) \/ Release(s) \/ Crash(s)
      PROVE  TypeOK'
  <2>1. /\ pc[s] # "idle"
        /\ UNCHANGED <<temp, backup, target, opened>>
        /\ lockFile' \in {lockFile, FALSE}
    BY <1>5 DEF WriteLockFails, Release, Crash, Result
  <2>2. \E result \in Returned : Leave(s, result)
    BY <1>5 DEF WriteLockFails, Release, Crash, Result
  <2>3. faults' \in 0..MaxFaults
    BY <1>5, FailsType DEF WriteLockFails, Release, Crash, TypeOK
  <2> QED
    BY <2>1, <2>2, <2>3, LeaveType DEF TypeOK
<1>6. ASSUME NEW s \in Saver, NEW n \in Suffix, CreateTemp(s, n)
      PROVE  TypeOK'
  <2>1. /\ pc[s] # "idle" /\ UNCHANGED <<lockFile, backup, target, saving, outcome, opened>>
        /\ name' = [name EXCEPT ![s] = n]
        /\ \E step \in {"write", "cleanup"} : Goto(s, step)
    BY <1>6 DEF CreateTemp
  <2>2. temp' = temp \/ temp' = [temp EXCEPT ![n] = [save |-> saving[s], whole |-> FALSE]]
    BY <1>6 DEF CreateTemp
  <2>3. [save |-> saving[s], whole |-> FALSE] \in File
    BY <2>1, SavingType, FileTypes
  <2>4. temp' \in [Suffix -> File]
    BY <2>2, <2>3 DEF TypeOK
  <2>5. faults' \in 0..MaxFaults
    BY <1>6, FailsType DEF CreateTemp, TypeOK
  <2> QED
    BY <1>1, <2>1, <2>4, <2>5 DEF TypeOK, Step
<1>7. ASSUME NEW s \in Saver,
             \/ WriteTemp(s) \/ RemoveTemp(s) \/ BackUp(s) \/ Install(s)
             \/ RollBack(s) \/ DiscardBackup(s)
             \/ WriteTempFails(s) \/ BackUpFails(s) \/ InstallFails(s)
      PROVE  TypeOK'
  <2>1. pc[s] \in {"write", "replace", "install", "rollback", "discard", "cleanup"}
    BY <1>7 DEF WriteTemp, RemoveTemp, BackUp, Install, RollBack, DiscardBackup,
       WriteTempFails, BackUpFails, InstallFails, Installing
  <2>2. UNCHANGED <<lockFile, name, saving, outcome, opened>>
    BY <1>7 DEF WriteTemp, RemoveTemp, BackUp, Install, RollBack, DiscardBackup,
       WriteTempFails, BackUpFails, InstallFails
  <2>3. \E step \in Step \ {"idle"} : Goto(s, step)
    BY <1>7 DEF WriteTemp, RemoveTemp, BackUp, Install, RollBack, DiscardBackup,
       WriteTempFails, BackUpFails, InstallFails, Step
  <2>4. faults' \in 0..MaxFaults
    BY <1>7, FailsType DEF WriteTemp, RemoveTemp, BackUp, Install, RollBack, DiscardBackup,
       WriteTempFails, BackUpFails, InstallFails, TypeOK
  <2>5. name[s] \in Suffix /\ NoFile \in File /\ [save |-> saving[s], whole |-> TRUE] \in File
    BY <2>1, SavingType, FileTypes DEF ProgressInv
  <2>6. temp' \in [Suffix -> File]
    <3>1. \/ temp' = temp
          \/ temp' = [temp EXCEPT ![name[s]] = [save |-> saving[s], whole |-> TRUE]]
          \/ temp' = [temp EXCEPT ![name[s]] = NoFile]
      BY <1>7 DEF WriteTemp, RemoveTemp, BackUp, Install, RollBack, DiscardBackup,
         WriteTempFails, BackUpFails, InstallFails
    <3> QED
      BY <2>5, <3>1 DEF TypeOK
  <2>7. backup' \in [Suffix -> File]
    <3>1. \/ backup' = backup
          \/ backup' = [backup EXCEPT ![name[s]] = target]
          \/ backup' = [backup EXCEPT ![name[s]] = NoFile]
      BY <1>7 DEF WriteTemp, RemoveTemp, BackUp, Install, RollBack, DiscardBackup,
         WriteTempFails, BackUpFails, InstallFails
    <3> QED
      BY <2>5, <3>1 DEF TypeOK
  <2>8. target' \in File
    <3>1. target' \in {target, NoFile, temp[name[s]], backup[name[s]]}
      BY <1>7 DEF WriteTemp, RemoveTemp, BackUp, Install, RollBack, DiscardBackup,
         WriteTempFails, BackUpFails, InstallFails
    <3> QED
      BY <2>5, <3>1 DEF TypeOK
  <2> QED
    BY <1>1, <2>1, <2>2, <2>3, <2>4, <2>6, <2>7, <2>8 DEF TypeOK
<1>8. ASSUME NEW r \in Reader, Open(r)
      PROVE  TypeOK'
  <2>1. /\ UNCHANGED <<lockFile, temp, backup, target, pc, name, saving, outcome, faults>>
        /\ opened' = [opened EXCEPT ![r] = target.save]
    BY <1>8 DEF Open
  <2>2. target.save \in 0..MaxSaves
    BY FileFacts DEF TypeOK
  <2> QED
    BY <2>1, <2>2 DEF TypeOK
<1>9. CASE RemoveLock
  BY <1>9 DEF RemoveLock, TypeOK
<1>10. CASE UNCHANGED vars
  BY <1>10 DEF vars, TypeOK
<1> QED
  BY <1>2, <1>3, <1>4, <1>5, <1>6, <1>7, <1>8, <1>9, <1>10
  DEF Next, SaveStep, FailStep, Terminated

-----------------------------------------------------------------------------
(* One save at a time *)

LEMMA HolderStep ==
  ASSUME TypeOK, HolderInv, [Next]_vars
  PROVE  HolderInv'
<1>1. ASSUME UNCHANGED <<lockFile, saving, outcome>>,
             \A s \in Saver : pc'[s] = "idle" <=> pc[s] = "idle"
      PROVE  HolderInv'
  BY <1>1 DEF HolderInv
<1>2. ASSUME NEW s \in Saver, CreateLock(s)
      PROVE  HolderInv'
  <2>1. PICK v \in Version : /\ outcome[v] = "unused"
                             /\ \A u \in 1..(v - 1) : outcome[u] # "unused"
                             /\ saving' = [saving EXCEPT ![s] = v]
                             /\ outcome' = [outcome EXCEPT ![v] = "running"]
    BY <1>2 DEF CreateLock
  <2>2. lockFile' = TRUE /\ pc' = [pc EXCEPT ![s] = "lock"] /\ ~lockFile
    BY <1>2 DEF CreateLock, Goto
  <2>3. \A t \in Saver : pc[t] = "idle" /\ saving[t] = 0
    BY <2>2 DEF HolderInv, TypeOK
  <2>4. \A u \in Version : outcome[u] # "running"
    BY <2>3, StorageAssumption DEF HolderInv, Version
  <2>5. \A t \in Saver : pc'[t] # "idle" => t = s
    BY <2>2, <2>3 DEF TypeOK
  <2>6. saving'[s] = v /\ outcome'[v] = "running"
    BY <2>1 DEF TypeOK
  <2>7. \A u \in Version : u # v => outcome'[u] = outcome[u]
    BY <2>1 DEF TypeOK
  <2>8. ASSUME NEW u \in Version, NEW w \in Version, u < w,
               outcome'[u] \in {"unused", "running"}
        PROVE  outcome'[w] = "unused"
    <3>1. CASE u = v
      BY <2>1, <2>7, <2>8, <3>1, StorageAssumption DEF HolderInv, Version
    <3>2. CASE u # v
      <4>1. outcome[u] = "unused"
        BY <2>4, <2>7, <2>8, <3>2
      <4>2. w # v
        BY <2>1, <2>8, <4>1, StorageAssumption DEF Version
      <4> QED
        BY <2>7, <2>8, <4>1, <4>2 DEF HolderInv
    <3> QED
      BY <3>1, <3>2
  <2> QED
    BY <2>2, <2>4, <2>5, <2>6, <2>7, <2>8 DEF HolderInv
<1>3. ASSUME NEW s \in Saver, pc[s] # "idle", NEW result \in Returned,
             Leave(s, result)
      PROVE  HolderInv'
  <2>1. /\ pc' = [pc EXCEPT ![s] = "idle"] /\ saving' = [saving EXCEPT ![s] = 0]
        /\ outcome' = [outcome EXCEPT ![saving[s]] = result]
    BY <1>3 DEF Leave, Goto
  <2>2. \A t \in Saver : pc'[t] = "idle"
    BY <1>3, <2>1 DEF HolderInv, TypeOK
  <2>3. saving[s] \in Version /\ outcome[saving[s]] = "running"
    BY <1>3, SavingType DEF HolderInv
  <2>4. \A u \in Version : outcome'[u] # "running"
    <3> SUFFICES ASSUME NEW u \in Version, outcome'[u] = "running" PROVE FALSE
      OBVIOUS
    <3>1. u # saving[s] /\ outcome[u] = "running"
      BY <1>3, <2>1, <2>3 DEF TypeOK
    <3>2. PICK t \in Saver : saving[t] = u
      BY <3>1 DEF HolderInv
    <3>3. pc[t] # "idle"
      BY <3>2, StorageAssumption DEF TypeOK, Version
    <3> QED
      BY <1>3, <3>1, <3>2, <3>3 DEF HolderInv
  <2>5. \A u, w \in Version :
          u < w /\ outcome'[u] \in {"unused", "running"} => outcome'[w] = "unused"
    <3> SUFFICES ASSUME NEW u \in Version, NEW w \in Version, u < w,
                        outcome'[u] \in {"unused", "running"}
                 PROVE  outcome'[w] = "unused"
      OBVIOUS
    <3>1. outcome'[u] = outcome[u]
      BY <1>3, <2>1, <2>3 DEF TypeOK
    <3>2. outcome[w] = "unused"
      BY <3>1 DEF HolderInv
    <3> QED
      BY <2>1, <2>3, <3>2 DEF TypeOK
  <2> QED
    BY <2>2, <2>4, <2>5 DEF HolderInv
<1>4. ASSUME NEW s \in Saver, WriteLockFails(s) \/ Release(s) \/ Crash(s)
      PROVE  HolderInv'
  <2>1. pc[s] # "idle" /\ \E result \in Returned : Leave(s, result)
    BY <1>4 DEF WriteLockFails, Release, Crash, Result
  <2> QED
    BY <1>3, <2>1
<1>5. ASSUME NEW s \in Saver,
             \/ WriteLock(s) \/ WriteTemp(s) \/ RemoveTemp(s) \/ BackUp(s) \/ Install(s)
             \/ RollBack(s) \/ DiscardBackup(s) \/ (\E n \in Suffix : CreateTemp(s, n))
             \/ WriteTempFails(s) \/ BackUpFails(s) \/ InstallFails(s) \/ StorePathFails(s)
      PROVE  HolderInv'
  <2>1. UNCHANGED <<lockFile, saving, outcome>>
    BY <1>5 DEF WriteLock, WriteTemp, RemoveTemp, BackUp, Install, RollBack, DiscardBackup,
       CreateTemp, WriteTempFails, BackUpFails, InstallFails, StorePathFails
  <2>2. pc[s] # "idle" /\ \E step \in Step \ {"idle"} : Goto(s, step)
    BY <1>5 DEF WriteLock, WriteTemp, RemoveTemp, BackUp, Install, RollBack, DiscardBackup,
       CreateTemp, WriteTempFails, BackUpFails, InstallFails, StorePathFails, Installing, Step
  <2> QED
    BY <1>1, <2>1, <2>2 DEF Goto, TypeOK
<1>6. CASE RemoveLock
  BY <1>6 DEF RemoveLock, HolderInv
<1>7. CASE UNCHANGED vars \/ \E r \in Reader : Open(r)
  BY <1>1, <1>7 DEF vars, Open
<1> QED
  BY <1>2, <1>4, <1>5, <1>6, <1>7 DEF Next, SaveStep, FailStep, Terminated

-----------------------------------------------------------------------------
(* The save that runs *)

\* While one saver acts, the others are idle.
LEMMA OthersIdle ==
  ASSUME TypeOK, HolderInv, NEW s \in Saver, pc[s] # "idle", NEW step, Goto(s, step)
  PROVE  /\ pc'[s] = step
         /\ \A t \in Saver : t # s => pc'[t] = "idle" /\ pc[t] = "idle"
BY DEF TypeOK, HolderInv, Goto

LEMMA ProgressStep ==
  ASSUME TypeOK, HolderInv, ProgressInv, StoredInv, [Next]_vars
  PROVE  ProgressInv'
<1>1. ASSUME UNCHANGED <<temp, backup, target, pc, name, saving>>
      PROVE  ProgressInv'
  BY <1>1 DEF ProgressInv
<1>2. ASSUME \A t \in Saver : pc'[t] \in {"idle", "lock", "locked"}
      PROVE  ProgressInv'
  BY <1>2 DEF ProgressInv
<1>3. ASSUME NEW s \in Saver, CreateLock(s)
      PROVE  ProgressInv'
  <2>1. \A t \in Saver : pc[t] = "idle"
    BY <1>3 DEF CreateLock, HolderInv
  <2>2. \A t \in Saver : pc'[t] \in {"idle", "lock"}
    BY <1>3, <2>1 DEF CreateLock, Goto, TypeOK
  <2> QED
    BY <1>2, <2>2
<1>4. ASSUME NEW s \in Saver, WriteLock(s) \/ WriteLockFails(s) \/ Release(s) \/ Crash(s)
      PROVE  ProgressInv'
  <2>1. pc[s] # "idle" /\ \E step \in {"idle", "locked"} : Goto(s, step)
    BY <1>4 DEF WriteLock, WriteLockFails, Release, Crash, Leave
  <2>2. \A t \in Saver : pc'[t] \in {"idle", "locked"}
    BY <2>1, OthersIdle
  <2> QED
    BY <1>2, <2>2
<1>5. ASSUME NEW s \in Saver, NEW n \in Suffix, CreateTemp(s, n)
      PROVE  ProgressInv'
  <2>1. pc[s] # "idle" /\ \E step \in {"write", "cleanup"} : Goto(s, step)
    BY <1>5 DEF CreateTemp
  <2>2. name'[s] \in Suffix
    BY <1>5 DEF CreateTemp, TypeOK
  <2>3. \A t \in Saver : (pc'[t] \in {"write", "cleanup"} /\ t = s) \/ pc'[t] = "idle"
    BY <2>1, OthersIdle
  <2> QED
    BY <2>2, <2>3 DEF ProgressInv
<1>6. ASSUME NEW s \in Saver, WriteTemp(s)
      PROVE  ProgressInv'
  <2>1. pc[s] = "write" /\ Goto(s, "replace") /\ name[s] \in Suffix
    BY <1>6 DEF WriteTemp, ProgressInv
  <2>2. \A t \in Saver : (pc'[t] = "replace" /\ t = s) \/ pc'[t] = "idle"
    BY <2>1, OthersIdle
  <2>3. /\ UNCHANGED <<name, saving>>
        /\ temp'[name[s]] = [save |-> saving[s], whole |-> TRUE]
    BY <1>6, <2>1 DEF WriteTemp, TypeOK
  <2> QED
    BY <2>1, <2>2, <2>3 DEF ProgressInv
<1>7. ASSUME NEW s \in Saver,
             \/ RemoveTemp(s) \/ RollBack(s)
             \/ WriteTempFails(s) \/ BackUpFails(s)
      PROVE  ProgressInv'
  <2>1. /\ pc[s] \in {"cleanup", "rollback", "write", "replace"}
        /\ \E step \in {"failed", "cleanup"} : Goto(s, step)
        /\ UNCHANGED name
    BY <1>7 DEF RemoveTemp, RollBack, WriteTempFails, BackUpFails
  <2>2. name[s] \in Suffix
    BY <2>1 DEF ProgressInv
  <2>3. \A t \in Saver : (pc'[t] \in {"failed", "cleanup"} /\ t = s) \/ pc'[t] = "idle"
    BY <2>1, OthersIdle
  <2> QED
    BY <2>1, <2>2, <2>3 DEF ProgressInv
<1>8. ASSUME NEW s \in Saver, BackUp(s)
      PROVE  ProgressInv'
  <2>1. /\ pc[s] = "replace" /\ Goto(s, "install") /\ target # NoFile /\ target' = NoFile
        /\ backup' = [backup EXCEPT ![name[s]] = target]
        /\ UNCHANGED <<temp, name, saving>>
    BY <1>8 DEF BackUp
  <2>2. /\ name[s] \in Suffix
        /\ temp[name[s]] = [save |-> saving[s], whole |-> TRUE]
    BY <2>1 DEF ProgressInv
  <2>3. \A t \in Saver : (pc'[t] = "install" /\ t = s) \/ pc'[t] = "idle"
    BY <2>1, OthersIdle
  <2>4. backup'[name[s]] = target
    BY <2>1, <2>2 DEF TypeOK
  <2>5. \A n \in Suffix : backup'[n] \in {backup[n], target}
    BY <2>1 DEF TypeOK
  <2>6. \A n \in Suffix : backup'[n].save <= target.save
    BY <2>1, <2>5, FileFacts DEF StoredInv, TypeOK
  <2> QED
    BY <2>1, <2>2, <2>3, <2>4, <2>6 DEF ProgressInv
<1>9. ASSUME NEW s \in Saver, Install(s)
      PROVE  ProgressInv'
  <2>1. /\ pc[s] \in {"replace", "install"} /\ target' = temp[name[s]]
        /\ \E step \in {"discard", "saved"} : Goto(s, step)
        /\ UNCHANGED <<name, saving>>
    BY <1>9 DEF Install, Installing
  <2>2. /\ name[s] \in Suffix
        /\ temp[name[s]] = [save |-> saving[s], whole |-> TRUE]
    BY <2>1 DEF ProgressInv
  <2>3. \A t \in Saver : (pc'[t] \in {"discard", "saved"} /\ t = s) \/ pc'[t] = "idle"
    BY <2>1, OthersIdle
  <2> QED
    BY <2>1, <2>2, <2>3 DEF ProgressInv
<1>10. ASSUME NEW s \in Saver, InstallFails(s)
       PROVE  ProgressInv'
  <2>1. /\ pc[s] \in {"replace", "install"}
        /\ Goto(s, IF pc[s] = "install" THEN "rollback" ELSE "cleanup")
        /\ UNCHANGED <<temp, backup, target, name, saving>>
    BY <1>10 DEF InstallFails, Installing
  <2>2. /\ pc'[s] = IF pc[s] = "install" THEN "rollback" ELSE "cleanup"
        /\ \A t \in Saver : t # s => pc'[t] = "idle"
    BY <2>1, OthersIdle
  <2> QED
    BY <2>1, <2>2 DEF ProgressInv
<1>11. ASSUME NEW s \in Saver, DiscardBackup(s)
       PROVE  ProgressInv'
  <2>1. /\ pc[s] = "discard" /\ Goto(s, "saved")
        /\ UNCHANGED <<target, name, saving>>
    BY <1>11 DEF DiscardBackup
  <2>2. \A t \in Saver : (pc'[t] = "saved" /\ t = s) \/ pc'[t] = "idle"
    BY <2>1, OthersIdle
  <2> QED
    BY <2>1, <2>2 DEF ProgressInv
<1>12. ASSUME NEW s \in Saver, StorePathFails(s)
       PROVE  ProgressInv'
  <2>1. /\ pc[s] = "saved" /\ Goto(s, "late")
        /\ UNCHANGED <<target, saving>>
    BY <1>12 DEF StorePathFails
  <2>2. \A t \in Saver : (pc'[t] = "late" /\ t = s) \/ pc'[t] = "idle"
    BY <2>1, OthersIdle
  <2> QED
    BY <2>1, <2>2 DEF ProgressInv
<1>13. CASE RemoveLock \/ UNCHANGED vars \/ \E r \in Reader : Open(r)
  BY <1>1, <1>13 DEF RemoveLock, vars, Open
<1> QED
  BY <1>3, <1>4, <1>5, <1>6, <1>7, <1>8, <1>9, <1>10, <1>11, <1>13, <1>12
  DEF Next, SaveStep, FailStep, Terminated

-----------------------------------------------------------------------------
(* The stored index *)

\* A used version that does not run is older than the one that runs.
LEMMA RunningIsNewest ==
  ASSUME HolderInv, NEW u \in Version, NEW v \in Version,
         outcome[u] # "unused", outcome[v] = "running"
  PROVE  u <= v
BY StorageAssumption DEF HolderInv, Version

LEMMA StoredInit ==
  ASSUME Init
  PROVE  StoredInv
<1>1. target = NoFile /\ \A n \in Suffix : backup[n] = NoFile
  BY DEF Init
<1>2. \E n \in Suffix : TRUE
  BY StorageAssumption
<1>3. 0 \in 0..MaxSaves /\ Stored(0)
  BY <1>1, <1>2, StorageAssumption DEF Stored, NoFile
<1>4. /\ \A v \in Version : outcome[v] # "ok"
      /\ \A r \in Reader : opened[r] <= 0
  BY DEF Init
<1> QED
  BY <1>1, <1>3, <1>4 DEF StoredInv

\* A step that leaves the files that count, the results and the readers alone,
\* and a save that has replaced the index where it is.
LEMMA StoredQuiet ==
  ASSUME StoredInv, UNCHANGED <<target, backup, outcome, opened>>,
         NEW s \in Saver,
         \A t \in Saver : pc[t] \in Replaced => pc'[s] \in Replaced
  PROVE  StoredInv'
<1>1. \A c : Stored(c)' <=> Stored(c)
  BY DEF Stored
<1>2. /\ target' # NoFile =>
           /\ target'.whole
           /\ outcome'[target'.save] \in {"ok", "late", "crashed", "running"}
           /\ outcome'[target'.save] = "running" =>
                \E t \in Saver : pc'[t] \in Replaced
           /\ \A n \in Suffix : backup'[n].save <= target'.save
      /\ \A n \in Suffix : backup'[n] # NoFile =>
           backup'[n].whole /\ outcome'[backup'[n].save] \in {"ok", "late", "crashed"}
  BY DEF StoredInv
<1>3. PICK c \in 0..MaxSaves :
        /\ Stored(c)
        /\ \A v \in Version : outcome[v] = "ok" => v <= c
        /\ \A r \in Reader : opened[r] <= c
  BY DEF StoredInv
<1>4. /\ Stored(c)'
      /\ \A v \in Version : outcome'[v] = "ok" => v <= c
      /\ \A r \in Reader : opened'[r] <= c
  BY <1>1, <1>3
<1> QED
  BY <1>2, <1>4 DEF StoredInv

\* A save that leaves has stored its index or not, and says ok only when it has.
LEMMA StoredLeave ==
  ASSUME TypeOK, HolderInv, ProgressInv, StoredInv,
         NEW s \in Saver, pc[s] # "idle",
         UNCHANGED <<target, backup, opened>>,
         NEW result \in Returned, Leave(s, result),
         pc[s] \in Replaced => result # "error",
         result = "ok" => pc[s] = "saved"
  PROVE  StoredInv'
<1>1. /\ saving[s] \in Version /\ outcome[saving[s]] = "running"
      /\ \A t \in Saver : pc[t] # "idle" => t = s
  BY SavingType DEF HolderInv
<1>2. outcome' = [outcome EXCEPT ![saving[s]] = result]
  BY DEF Leave
<1>3. outcome'[saving[s]] = result
      /\ \A v \in Version : v # saving[s] => outcome'[v] = outcome[v]
  BY <1>1, <1>2 DEF TypeOK
<1>4. \A n \in Suffix : backup'[n] # NoFile =>
        backup'[n].whole /\ outcome'[backup'[n].save] \in {"ok", "late", "crashed"}
  <2> SUFFICES ASSUME NEW n \in Suffix, backup[n] # NoFile
               PROVE  backup[n].whole /\ outcome'[backup[n].save] \in {"ok", "late", "crashed"}
    OBVIOUS
  <2>1. backup[n].whole /\ outcome[backup[n].save] \in {"ok", "late", "crashed"}
    BY DEF StoredInv
  <2>2. backup[n].save \in Version
    BY FileFacts DEF TypeOK
  <2> QED
    BY <1>1, <1>3, <2>1, <2>2
<1>5. ASSUME target # NoFile
      PROVE  /\ target.whole
             /\ outcome'[target.save] \in {"ok", "late", "crashed"}
             /\ \A n \in Suffix : backup[n].save <= target.save
  <2>1. /\ target.whole /\ outcome[target.save] \in {"ok", "late", "crashed", "running"}
        /\ outcome[target.save] = "running" =>
             \E t \in Saver : pc[t] \in Replaced
        /\ \A n \in Suffix : backup[n].save <= target.save
    BY <1>5 DEF StoredInv
  <2>2. target.save \in Version
    BY <1>5, FileFacts DEF TypeOK
  <2>3. CASE target.save = saving[s]
    <3>1. pc[s] \in Replaced
      BY <1>1, <2>1, <2>3
    <3> QED
      BY <1>3, <2>1, <2>3, <3>1
  <2>4. CASE target.save # saving[s]
    <3>1. outcome[target.save] # "running"
      <4> SUFFICES ASSUME outcome[target.save] = "running" PROVE FALSE
        OBVIOUS
      <4>1. PICK t \in Saver : pc[t] \in Replaced
        BY <2>1
      <4>2. t = s
        BY <1>1, <4>1
      <4>3. target = [save |-> saving[s], whole |-> TRUE]
        BY <4>1, <4>2 DEF ProgressInv
      <4> QED
        BY <2>4, <4>3
    <3> QED
      BY <1>3, <2>1, <2>2, <2>4, <3>1
  <2> QED
    BY <2>3, <2>4
<1>6. PICK c \in 0..MaxSaves :
        /\ Stored(c)
        /\ \A v \in Version : outcome[v] = "ok" => v <= c
        /\ \A r \in Reader : opened[r] <= c
  BY DEF StoredInv
<1>7. Stored(c)'
  BY <1>6 DEF Stored
<1>8. result = "ok" => saving[s] = c
  <2>1. pc[s] = "saved" => target = [save |-> saving[s], whole |-> TRUE]
    BY DEF ProgressInv
  <2>2. pc[s] = "saved" => target # NoFile /\ target.save = saving[s]
    BY <1>1, <2>1, StorageAssumption DEF NoFile, Version
  <2> QED
    BY <1>6, <2>2 DEF Stored
<1>9. \A v \in Version : outcome'[v] = "ok" => v <= c
  <2> SUFFICES ASSUME NEW v \in Version, outcome'[v] = "ok" PROVE v <= c
    OBVIOUS
  <2>1. CASE v = saving[s]
    BY <1>3, <1>8, <2>1, StorageAssumption DEF Version
  <2>2. CASE v # saving[s]
    BY <1>3, <1>6, <2>2
  <2> QED
    BY <2>1, <2>2
<1>10. \A r \in Reader : opened'[r] <= c
  BY <1>6
<1> QED
  BY <1>4, <1>5, <1>6, <1>7, <1>9, <1>10 DEF StoredInv

LEMMA StoredStep ==
  ASSUME TypeOK, HolderInv, ProgressInv, StoredInv, [Next]_vars
  PROVE  StoredInv'
<1>1. PICK c \in 0..MaxSaves :
        /\ Stored(c)
        /\ \A v \in Version : outcome[v] = "ok" => v <= c
        /\ \A r \in Reader : opened[r] <= c
  BY DEF StoredInv
<1>2. ASSUME NEW s \in Saver, CreateLock(s)
      PROVE  StoredInv'
  <2>1. PICK v \in Version : /\ outcome[v] = "unused"
                             /\ outcome' = [outcome EXCEPT ![v] = "running"]
    BY <1>2 DEF CreateLock
  <2>2. UNCHANGED <<target, backup, opened>> /\ \A t \in Saver : pc[t] = "idle"
    BY <1>2 DEF CreateLock, HolderInv
  <2>3. \A u \in Version : outcome[u] # "unused" => outcome'[u] = outcome[u]
    BY <2>1 DEF TypeOK
  <2>4. \A u \in Version : outcome'[u] = "ok" => outcome[u] = "ok"
    BY <2>1 DEF TypeOK
  <2>5. ASSUME target # NoFile
        PROVE  /\ target.whole
               /\ outcome'[target.save] \in {"ok", "late", "crashed"}
               /\ \A n \in Suffix : backup[n].save <= target.save
    <3>1. target.save \in Version
      BY <2>5, FileFacts DEF TypeOK
    <3>2. outcome[target.save] \in {"ok", "late", "crashed"}
      BY <2>2, <2>5 DEF StoredInv
    <3>3. target.whole /\ \A n \in Suffix : backup[n].save <= target.save
      BY <2>5 DEF StoredInv
    <3> QED
      BY <2>3, <3>1, <3>2, <3>3
  <2>6. ASSUME NEW n \in Suffix, backup[n] # NoFile
        PROVE  backup[n].whole /\ outcome'[backup[n].save] \in {"ok", "late", "crashed"}
    <3>1. backup[n].save \in Version
      BY <2>6, FileFacts DEF TypeOK
    <3>2. backup[n].whole /\ outcome[backup[n].save] \in {"ok", "late", "crashed"}
      BY <2>6 DEF StoredInv
    <3> QED
      BY <2>3, <3>1, <3>2
  <2>7. Stored(c)'
    BY <1>1, <2>2 DEF Stored
  <2> QED
    BY <1>1, <2>2, <2>4, <2>5, <2>6, <2>7 DEF StoredInv
<1>3. ASSUME NEW s \in Saver, WriteLockFails(s) \/ Release(s) \/ Crash(s)
      PROVE  StoredInv'
  <2>1. pc[s] # "idle" /\ UNCHANGED <<target, backup, opened>>
    BY <1>3 DEF WriteLockFails, Release, Crash, Result
  <2>2. \E result \in Returned :
          /\ Leave(s, result)
          /\ pc[s] \in Replaced => result # "error"
          /\ result = "ok" => pc[s] = "saved"
    BY <1>3 DEF WriteLockFails, Release, Crash, Result
  <2> QED
    BY <2>1, <2>2, StoredLeave
<1>4. ASSUME NEW s \in Saver,
             \/ WriteLock(s) \/ WriteTemp(s) \/ RemoveTemp(s)
             \/ \E n \in Suffix : CreateTemp(s, n)
             \/ WriteTempFails(s) \/ BackUpFails(s) \/ InstallFails(s)
      PROVE  StoredInv'
  <2>1. UNCHANGED <<target, backup, outcome, opened>>
    BY <1>4 DEF WriteLock, WriteTemp, RemoveTemp, CreateTemp, WriteTempFails,
       BackUpFails, InstallFails
  <2>2. pc[s] \notin Replaced \cup {"idle"}
    BY <1>4 DEF WriteLock, WriteTemp, RemoveTemp, CreateTemp, WriteTempFails,
       BackUpFails, InstallFails, Installing
  <2>3. \A t \in Saver : pc[t] \notin Replaced
    BY <2>2 DEF HolderInv
  <2> QED
    BY <2>1, <2>3, StoredQuiet
<1>5. ASSUME NEW s \in Saver, BackUp(s)
      PROVE  StoredInv'
  <2>1. /\ pc[s] = "replace" /\ target # NoFile /\ target' = NoFile
        /\ backup' = [backup EXCEPT ![name[s]] = target]
        /\ UNCHANGED <<outcome, opened>>
    BY <1>5 DEF BackUp
  <2>2. name[s] \in Suffix
    BY <2>1 DEF ProgressInv
  <2>3. backup'[name[s]] = target /\ \A n \in Suffix : backup'[n] \in {backup[n], target}
    BY <2>1, <2>2 DEF TypeOK
  <2>4. target.whole /\ outcome[target.save] \in {"ok", "late", "crashed"}
    <3>1. \A t \in Saver : pc[t] \notin Replaced
      BY <2>1 DEF HolderInv
    <3> QED
      BY <2>1, <3>1 DEF StoredInv
  <2>5. \A n \in Suffix : backup'[n] # NoFile =>
          backup'[n].whole /\ outcome'[backup'[n].save] \in {"ok", "late", "crashed"}
    BY <2>1, <2>3, <2>4 DEF StoredInv
  <2>6. c = target.save
    BY <1>1, <2>1 DEF Stored
  <2>7. \A n \in Suffix : backup'[n].save <= c
    BY <2>1, <2>3, <2>6, FileFacts DEF StoredInv, TypeOK
  <2>8. Stored(c)'
    BY <2>1, <2>2, <2>3, <2>6, <2>7 DEF Stored
  <2> QED
    BY <1>1, <2>1, <2>5, <2>8 DEF StoredInv
<1>6. ASSUME NEW s \in Saver, Install(s)
      PROVE  StoredInv'
  <2>1. /\ target = NoFile
        /\ pc[s] \in {"replace", "install"} /\ target' = temp[name[s]]
        /\ \E step \in {"discard", "saved"} : Goto(s, step)
        /\ UNCHANGED <<backup, saving, outcome, opened>>
    BY <1>6 DEF Install, Installing, ProgressInv
  <2>2. target' = [save |-> saving[s], whole |-> TRUE]
    BY <2>1 DEF ProgressInv
  <2>3. /\ saving[s] \in Version /\ saving[s] \in Nat
        /\ outcome[saving[s]] = "running"
    BY <2>1, SavingType DEF HolderInv
  <2>4. \A n \in Suffix : backup[n].save <= saving[s]
    <3> SUFFICES ASSUME NEW n \in Suffix PROVE backup[n].save <= saving[s]
      OBVIOUS
    <3>1. CASE backup[n] = NoFile
      BY <2>3, <3>1 DEF NoFile
    <3>2. CASE backup[n] # NoFile
      BY <2>3, <3>2, FileFacts, RunningIsNewest DEF StoredInv, TypeOK
    <3> QED
      BY <3>1, <3>2
  <2>5. \E n \in Suffix : c = backup[n].save
    BY <1>1, <2>1 DEF Stored
  <2>6. c <= saving[s]
    BY <2>4, <2>5
  <2>7. \A v \in Version : outcome'[v] = "ok" => v <= saving[s]
    BY <2>1, <2>3, RunningIsNewest
  <2>8. \A r \in Reader : opened'[r] <= saving[s]
    BY <1>1, <2>1, <2>3, <2>6 DEF TypeOK
  <2>9. target' # NoFile /\ target'.save = saving[s] /\ target'.whole
    BY <2>2, <2>3, StorageAssumption DEF NoFile, Version
  <2>10. pc'[s] \in Replaced
    BY <2>1 DEF Goto, TypeOK
  <2>11. saving[s] \in 0..MaxSaves
    BY DEF TypeOK
  <2>12. \A n \in Suffix : backup'[n] # NoFile =>
           backup'[n].whole /\ outcome'[backup'[n].save] \in {"ok", "late", "crashed"}
    BY <2>1 DEF StoredInv
  <2>13. \E d \in 0..MaxSaves :
           /\ Stored(d)'
           /\ \A v \in Version : outcome'[v] = "ok" => v <= d
           /\ \A r \in Reader : opened'[r] <= d
    BY <2>1, <2>7, <2>8, <2>9, <2>11 DEF Stored
  <2> QED
    BY <2>1, <2>3, <2>4, <2>9, <2>10, <2>12, <2>13 DEF StoredInv
<1>7. ASSUME NEW s \in Saver, RollBack(s)
      PROVE  StoredInv'
  <2>1. pc[s] = "rollback" /\ UNCHANGED <<outcome, opened>>
    BY <1>7 DEF RollBack
  <2>2. /\ target = NoFile /\ backup[name[s]] # NoFile /\ name[s] \in Suffix
        /\ \A n \in Suffix : backup[n].save <= backup[name[s]].save
    BY <2>1 DEF ProgressInv
  <2>3. CASE UNCHANGED <<target, backup>>
    <3>1. \A t \in Saver : pc[t] \notin Replaced
      BY <2>1 DEF HolderInv
    <3> QED
      BY <2>1, <2>3, <3>1, StoredQuiet
  <2>4. CASE /\ target' = backup[name[s]]
             /\ backup' = [backup EXCEPT ![name[s]] = NoFile]
    <3>1. target'.whole /\ outcome[target'.save] \in {"ok", "late", "crashed"}
      BY <2>2, <2>4 DEF StoredInv
    <3>2. \A n \in Suffix : backup'[n] = backup[n] \/ backup'[n] = NoFile
      BY <2>4 DEF TypeOK
    <3>3. target'.save \in Nat /\ target' # NoFile
      BY <2>2, <2>4, FileFacts DEF TypeOK
    <3>4. \A n \in Suffix : backup'[n].save <= target'.save
      BY <2>2, <2>4, <3>2, <3>3 DEF NoFile
    <3>5. \A n \in Suffix : backup'[n] # NoFile =>
            backup'[n].whole /\ outcome'[backup'[n].save] \in {"ok", "late", "crashed"}
      BY <2>1, <3>2 DEF StoredInv
    <3>6. PICK m \in Suffix : c = backup[m].save /\ backup[name[s]].save <= c
      BY <1>1, <2>2 DEF Stored
    <3>7. backup[m].save \in Nat /\ backup[m].save <= backup[name[s]].save
      BY <2>2, FileFacts DEF TypeOK
    <3>8. c = target'.save
      BY <2>4, <3>3, <3>6, <3>7
    <3>9. Stored(c)'
      BY <3>3, <3>8 DEF Stored
    <3> QED
      BY <1>1, <2>1, <3>1, <3>4, <3>5, <3>9 DEF StoredInv
  <2> QED
    BY <1>7, <2>3, <2>4 DEF RollBack
<1>8. ASSUME NEW s \in Saver, DiscardBackup(s)
      PROVE  StoredInv'
  <2>1. /\ pc[s] = "discard" /\ Goto(s, "saved") /\ UNCHANGED <<target, outcome, opened>>
        /\ backup' = [backup EXCEPT ![name[s]] = NoFile] \/ backup' = backup
    BY <1>8 DEF DiscardBackup
  <2>2. target = [save |-> saving[s], whole |-> TRUE] /\ saving[s] \in Version
    BY <2>1, SavingType DEF ProgressInv
  <2>3. target # NoFile
    BY <2>2, StorageAssumption DEF NoFile, Version
  <2>4. \A n \in Suffix : backup'[n] = backup[n] \/ backup'[n] = NoFile
    BY <2>1 DEF TypeOK
  <2>5. target.save \in Nat
    BY FileFacts DEF TypeOK
  <2>6. \A n \in Suffix : backup'[n].save <= target.save
    BY <2>3, <2>4, <2>5 DEF StoredInv, NoFile
  <2>7. \A n \in Suffix : backup'[n] # NoFile =>
          backup'[n].whole /\ outcome'[backup'[n].save] \in {"ok", "late", "crashed"}
    BY <2>1, <2>4 DEF StoredInv
  <2>8. pc'[s] = "saved"
    BY <2>1 DEF Goto, TypeOK
  <2>9. Stored(c)'
    BY <1>1, <2>1, <2>3 DEF Stored
  <2> QED
    BY <1>1, <2>1, <2>3, <2>6, <2>7, <2>8, <2>9 DEF StoredInv
<1>9. ASSUME NEW r \in Reader, Open(r)
      PROVE  StoredInv'
  <2>1. /\ target # NoFile /\ opened' = [opened EXCEPT ![r] = target.save]
        /\ UNCHANGED <<target, backup, pc, outcome>>
    BY <1>9 DEF Open
  <2>2. c = target.save /\ c \in Nat
    BY <1>1, <2>1, StorageAssumption DEF Stored
  <2>3. \A q \in Reader : opened'[q] = opened[q] \/ opened'[q] = c
    BY <2>1, <2>2 DEF TypeOK
  <2>4. \A q \in Reader : opened'[q] <= c
    BY <1>1, <2>2, <2>3
  <2>5. Stored(c)'
    BY <1>1, <2>1 DEF Stored
  <2> QED
    BY <1>1, <2>1, <2>4, <2>5 DEF StoredInv
<1>10. ASSUME NEW s \in Saver, StorePathFails(s)
       PROVE  StoredInv'
  <2>1. /\ pc[s] = "saved" /\ Goto(s, "late")
        /\ UNCHANGED <<target, backup, outcome, opened>>
    BY <1>10 DEF StorePathFails
  <2>2. pc'[s] \in Replaced
    BY <2>1 DEF Goto, TypeOK
  <2> QED
    BY <2>1, <2>2, StoredQuiet
<1>11. CASE RemoveLock \/ UNCHANGED vars
  <2>1. UNCHANGED <<target, backup, pc, outcome, opened>>
    BY <1>11 DEF RemoveLock, vars
  <2>2. Stored(c)'
    BY <1>1, <2>1 DEF Stored
  <2> QED
    BY <1>1, <2>1, <2>2 DEF StoredInv
<1> QED
  BY <1>2, <1>3, <1>4, <1>5, <1>6, <1>7, <1>8, <1>9, <1>11, <1>10
  DEF Next, SaveStep, FailStep, Terminated

-----------------------------------------------------------------------------
(* The last save that returned Ok *)

LEMMA LastInit ==
  ASSUME Init
  PROVE  LastInv
BY DEF Init, LastInv

\* A save that returns Ok is newer than all that did before.
LEMMA LastStep ==
  ASSUME TypeOK, HolderInv, LastInv, [Next]_vars
  PROVE  LastInv'
<1>1. PICK last \in {0} \cup {u \in Version : outcome[u] = "ok"} :
        \A u \in Version : outcome[u] = "ok" => u <= last
  BY DEF LastInv
<1>2. ASSUME \A u \in Version : outcome'[u] = "ok" <=> outcome[u] = "ok"
      PROVE  LastInv'
  BY <1>1, <1>2 DEF LastInv
<1>3. ASSUME NEW s \in Saver, CreateLock(s)
      PROVE  LastInv'
  <2>1. PICK v \in Version : /\ outcome[v] = "unused"
                             /\ outcome' = [outcome EXCEPT ![v] = "running"]
    BY <1>3 DEF CreateLock
  <2>2. \A u \in Version : outcome'[u] = "ok" <=> outcome[u] = "ok"
    BY <2>1 DEF TypeOK
  <2> QED
    BY <1>2, <2>2
<1>4. ASSUME NEW s \in Saver, WriteLockFails(s) \/ Release(s) \/ Crash(s)
      PROVE  LastInv'
  <2>1. pc[s] # "idle"
    BY <1>4 DEF WriteLockFails, Release, Crash, Result
  <2>2. PICK result \in Returned : Leave(s, result)
    BY <1>4 DEF WriteLockFails, Release, Crash, Result
  <2>3. saving[s] \in Version /\ saving[s] \in Nat /\ outcome[saving[s]] = "running"
    BY <2>1, SavingType DEF HolderInv
  <2>4. /\ outcome'[saving[s]] = result
        /\ \A u \in Version : u # saving[s] => outcome'[u] = outcome[u]
    BY <2>2, <2>3 DEF Leave, TypeOK
  <2>5. CASE result = "ok"
    <3>1. \A u \in Version : outcome'[u] = "ok" => u <= saving[s]
      BY <2>3, <2>4, RunningIsNewest
    <3> QED
      BY <2>3, <2>4, <2>5, <3>1 DEF LastInv
  <2>6. CASE result # "ok"
    <3>1. \A u \in Version : outcome'[u] = "ok" <=> outcome[u] = "ok"
      BY <2>3, <2>4, <2>6
    <3> QED
      BY <1>2, <3>1
  <2> QED
    BY <2>5, <2>6
<1>5. ASSUME NEW s \in Saver,
             \/ WriteLock(s) \/ WriteTemp(s) \/ RemoveTemp(s) \/ BackUp(s) \/ Install(s)
             \/ RollBack(s) \/ DiscardBackup(s) \/ (\E n \in Suffix : CreateTemp(s, n))
             \/ WriteTempFails(s) \/ BackUpFails(s) \/ InstallFails(s) \/ StorePathFails(s)
      PROVE  LastInv'
  <2>1. UNCHANGED outcome
    BY <1>5 DEF WriteLock, WriteTemp, RemoveTemp, BackUp, Install, RollBack, DiscardBackup,
       CreateTemp, WriteTempFails, BackUpFails, InstallFails, StorePathFails
  <2> QED
    BY <1>2, <2>1
<1>6. CASE RemoveLock \/ UNCHANGED vars \/ \E r \in Reader : Open(r)
  BY <1>2, <1>6 DEF RemoveLock, vars, Open
<1> QED
  BY <1>3, <1>4, <1>5, <1>6 DEF Next, SaveStep, FailStep, Terminated

\* LastOk is the one of LastInv, and the stored index is not older.
LEMMA LastOkFacts ==
  ASSUME TypeOK, StoredInv, LastInv
  PROVE  /\ LastOk \in Nat
         /\ Current \in 0..MaxSaves /\ Stored(Current)
         /\ LastOk <= Current
         /\ \A r \in Reader : opened[r] <= Current
<1> DEFINE S == {0} \cup {v \in Version : outcome[v] = "ok"}
<1>1. PICK last \in S : \A u \in Version : outcome[u] = "ok" => u <= last
  BY DEF LastInv
<1>2. S \in SUBSET Nat
  BY DEF Version
<1>3. \A x \in S : x <= last
  BY <1>1, <1>2
<1>4. LastOk = last
  BY <1>2, <1>3, MaxIs DEF LastOk
<1>5. PICK c \in 0..MaxSaves :
        /\ Stored(c)
        /\ \A v \in Version : outcome[v] = "ok" => v <= c
        /\ \A r \in Reader : opened[r] <= c
  BY DEF StoredInv
<1>6. Current = c
  BY <1>5, StoredIsCurrent
<1>7. last \in Nat /\ last <= c
  BY <1>2, <1>5, StorageAssumption
<1> QED
  BY <1>4, <1>5, <1>6, <1>7

-----------------------------------------------------------------------------
(* The invariant *)

LEMMA StorageInvariant == Spec => []StorageInv
<1>1. Init => StorageInv
  <2> SUFFICES ASSUME Init PROVE StorageInv
    OBVIOUS
  <2>1. HolderInv
    BY DEF Init, HolderInv
  <2>2. ProgressInv
    BY DEF Init, ProgressInv
  <2> QED
    BY <2>1, <2>2, TypeInit, StoredInit, LastInit DEF StorageInv
<1>2. StorageInv /\ [Next]_vars => StorageInv'
  BY TypeStep, HolderStep, ProgressStep, StoredStep, LastStep DEF StorageInv
<1> QED
  BY <1>1, <1>2, PTL DEF Spec

\* Every variable keeps its type, and a saver has a number exactly while it saves.
THEOREM StorageTypes == Spec => []TypeOK
<1>1. StorageInv => TypeOK
  BY DEF StorageInv
<1> QED
  BY <1>1, StorageInvariant, PTL

\* The lock file is there as long as a save runs, and only one does: whatever
\* calls fail, wherever processes die (IndexLock::acquire and its drop).
THEOREM SavesTakeTurns == Spec => []OneSaveAtATime
<1>1. StorageInv => OneSaveAtATime
  BY DEF StorageInv, HolderInv, OneSaveAtATime
<1> QED
  BY <1>1, StorageInvariant, PTL

\* What has the name of the index is complete, not older than the last save that
\* returned Ok, and not from a save that failed to write or to rename its file:
\* whatever calls of save fail, wherever processes die.
THEOREM TargetIsGood == Spec => []NameIsGood
<1>1. StorageInv => NameIsGood
  <2> SUFFICES ASSUME StorageInv, target # NoFile
               PROVE  /\ target.whole
                      /\ target.save >= LastOk
                      /\ outcome[target.save] # "error"
    BY DEF NameIsGood
  <2>1. target.whole /\ outcome[target.save] # "error"
    BY DEF StorageInv, StoredInv
  <2>2. Stored(Current) /\ LastOk <= Current
    BY LastOkFacts DEF StorageInv
  <2> QED
    BY <2>1, <2>2 DEF Stored
<1> QED
  BY <1>1, StorageInvariant, PTL

\* The last save that returned Ok, or a newer one, is on disk.
THEOREM LastSaveIsKept == Spec => []NothingIsLost
<1>1. StorageInv => NothingIsLost
  <2> SUFFICES ASSUME StorageInv, LastOk > 0
               PROVE  \E f \in {target} \cup {backup[n] : n \in Suffix} :
                        f.whole /\ f.save >= LastOk
    BY DEF NothingIsLost
  <2>1. /\ Stored(Current) /\ LastOk <= Current
        /\ LastOk \in Nat /\ Current \in 0..MaxSaves
    BY LastOkFacts DEF StorageInv
  <2>2. CASE target # NoFile
    BY <2>1, <2>2 DEF Stored, StorageInv, StoredInv
  <2>3. CASE target = NoFile
    <3>1. PICK n \in Suffix : Current = backup[n].save
      BY <2>1, <2>3 DEF Stored
    <3>2. backup[n] # NoFile
      BY <2>1, <3>1 DEF NoFile
    <3>3. backup[n].whole
      BY <3>2 DEF StorageInv, StoredInv
    <3> QED
      BY <2>1, <3>1, <3>3
  <2> QED
    BY <2>2, <2>3
<1> QED
  BY <1>1, StorageInvariant, PTL

-----------------------------------------------------------------------------
(* Readers, and the abstract store *)

LEMMA CurrentFacts ==
  StorageInv => /\ Current \in 0..MaxSaves /\ Stored(Current)
                /\ \A r \in Reader : opened[r] <= Current
BY LastOkFacts DEF StorageInv

\* A reader never goes back to an older index: it opens the stored one, and that
\* is not older than what any reader has seen.
THEOREM ReadersGoForward == Spec => OpensGoForward
<1>1. StorageInv /\ [Next]_vars =>
        [\A r \in Reader : opened'[r] >= opened[r]]_vars
  <2> SUFFICES ASSUME StorageInv, Next, NEW r \in Reader
               PROVE  opened'[r] >= opened[r]
    OBVIOUS
  <2>1. opened[r] \in Nat /\ opened[r] <= Current
    BY CurrentFacts DEF StorageInv, TypeOK
  <2>2. CASE \E q \in Reader : Open(q)
    <3>1. PICK q \in Reader : /\ target # NoFile
                              /\ opened' = [opened EXCEPT ![q] = target.save]
      BY <2>2 DEF Open
    <3>2. target.save = Current
      BY <3>1 DEF Current
    <3>3. opened'[r] \in {opened[r], Current}
      BY <3>1, <3>2 DEF StorageInv, TypeOK
    <3> QED
      BY <2>1, <3>3
  <2>3. CASE UNCHANGED opened
    BY <2>1, <2>3
  <2>4. ASSUME NEW s \in Saver, CreateLock(s) \/ SaveStep(s) \/ FailStep(s)
        PROVE  UNCHANGED opened
    <3>1. CASE CreateLock(s)
      BY <3>1 DEF CreateLock
    <3>2. CASE SaveStep(s)
      BY <3>2 DEF SaveStep, WriteLock, WriteTemp, RemoveTemp, BackUp, Install, RollBack,
         DiscardBackup, Release, CreateTemp
    <3>3. CASE FailStep(s)
      BY <3>3 DEF FailStep, WriteLockFails, WriteTempFails, BackUpFails, InstallFails,
         StorePathFails, Crash
    <3> QED
      BY <2>4, <3>1, <3>2, <3>3
  <2>5. CASE RemoveLock \/ Terminated
    BY <2>3, <2>5 DEF RemoveLock, Terminated, vars
  <2> QED
    BY <2>2, <2>3, <2>4, <2>5 DEF Next
<1> QED
  BY <1>1, StorageInvariant, PTL DEF Spec, OpensGoForward

\* The save that runs is the stored one exactly after its second rename.
LEMMA SavingIsCurrent ==
  ASSUME StorageInv, NEW s \in Saver, pc[s] # "idle"
  PROVE  saving[s] = Current <=> pc[s] \in Replaced
<1>1. saving[s] \in Version /\ outcome[saving[s]] = "running"
  BY SavingType DEF StorageInv, HolderInv
<1>2. \A t \in Saver : pc[t] # "idle" => t = s
  BY DEF StorageInv, HolderInv
<1>3. ASSUME pc[s] \in Replaced
      PROVE  saving[s] = Current
  <2>1. target = [save |-> saving[s], whole |-> TRUE]
    BY <1>3 DEF StorageInv, ProgressInv
  <2>2. target # NoFile /\ target.save = saving[s]
    BY <1>1, <2>1, StorageAssumption DEF NoFile, Version
  <2> QED
    BY <2>2 DEF Current
<1>4. ASSUME saving[s] = Current
      PROVE  pc[s] \in Replaced
  <2>1. Stored(saving[s])
    BY <1>4, CurrentFacts
  <2>2. CASE target # NoFile
    <3>1. target.save = saving[s]
      BY <2>1, <2>2 DEF Stored
    <3>2. PICK t \in Saver : pc[t] \in Replaced
      BY <1>1, <2>2, <3>1 DEF StorageInv, StoredInv
    <3> QED
      BY <1>2, <3>2
  <2>3. CASE target = NoFile
    <3>1. PICK n \in Suffix : saving[s] = backup[n].save
      BY <2>1, <2>3 DEF Stored
    <3>2. backup[n] # NoFile
      BY <1>1, <3>1, StorageAssumption DEF NoFile, Version
    <3>3. outcome[saving[s]] \in {"ok", "late", "crashed"}
      BY <3>1, <3>2 DEF StorageInv, StoredInv
    <3> QED
      BY <1>1, <3>3
  <2> QED
    BY <2>2, <2>3
<1> QED
  BY <1>3, <1>4

\* Every step is one of the abstract store, or changes nothing that it has.
LEMMA StoreStep ==
  ASSUME StorageInv, StorageInv', [Next]_vars
  PROVE  [Store!Next]_(Store!vars)
<1> USE DEF Store!Version
<1>1. ASSUME UNCHANGED <<target, backup>>
      PROVE  Current' = Current
  BY <1>1 DEF Current
<1>2. StorageInv' => (Current \in 0..MaxSaves /\ Stored(Current))'
  BY CurrentFacts, PTL
<1>3. Current \in 0..MaxSaves /\ Stored(Current)
  BY CurrentFacts
<1>4. ASSUME NEW s \in Saver, CreateLock(s)
      PROVE  Store!Next
  <2>1. PICK v \in Version : /\ outcome[v] = "unused"
                             /\ \A u \in 1..(v - 1) : outcome[u] # "unused"
                             /\ outcome' = [outcome EXCEPT ![v] = "running"]
    BY <1>4 DEF CreateLock
  <2>2. \A t \in Saver : pc[t] = "idle" /\ saving[t] = 0
    BY <1>4 DEF CreateLock, StorageInv, HolderInv, TypeOK
  <2>3. \A u \in Version : outcome[u] # "running"
    BY <2>2, StorageAssumption DEF StorageInv, HolderInv, Version
  <2>4. \A u \in 1..(v - 1) : u \in Version
    BY StorageAssumption DEF Version
  <2>5. UNCHANGED opened /\ Current' = Current
    BY <1>1, <1>4 DEF CreateLock
  <2>6. Store!Begin(v)
    BY <2>1, <2>3, <2>4, <2>5 DEF Store!Begin
  <2> QED
    BY <2>6 DEF Store!Next, Version
<1>5. ASSUME NEW s \in Saver, WriteLockFails(s) \/ Release(s)
      PROVE  Store!Next
  <2>1. /\ pc[s] \in {"lock", "saved", "late", "failed"}
        /\ UNCHANGED <<target, backup, opened>>
    BY <1>5 DEF WriteLockFails, Release
  <2>2. Leave(s, Result(s))
    BY <1>5 DEF WriteLockFails, Release, Result
  <2>3. saving[s] \in Version /\ outcome[saving[s]] = "running"
    BY <2>1, SavingType DEF StorageInv, HolderInv
  <2>4. Result(s) \in IF Current = saving[s] THEN {"ok", "late"} ELSE {"error"}
    BY <2>1, SavingIsCurrent DEF Result
  <2>5. outcome' = [outcome EXCEPT ![saving[s]] = Result(s)]
    BY <2>2 DEF Leave
  <2>6. Store!Return(saving[s])
    BY <1>1, <2>1, <2>3, <2>4, <2>5 DEF Store!Return
  <2> QED
    BY <2>3, <2>6 DEF Store!Next, Version
<1>6. ASSUME NEW s \in Saver, Crash(s)
      PROVE  Store!Next
  <2>1. /\ pc[s] # "idle" /\ UNCHANGED <<target, backup, opened>>
        /\ outcome' = [outcome EXCEPT ![saving[s]] = "crashed"]
    BY <1>6 DEF Crash, Leave
  <2>2. saving[s] \in Version /\ outcome[saving[s]] = "running"
    BY <2>1, SavingType DEF StorageInv, HolderInv
  <2>3. Store!Die(saving[s])
    BY <1>1, <2>1, <2>2 DEF Store!Die
  <2> QED
    BY <2>2, <2>3 DEF Store!Next, Version
<1>7. ASSUME NEW s \in Saver, Install(s)
      PROVE  Store!Next
  <2>1. /\ pc[s] \in {"replace", "install"} /\ target' = temp[name[s]]
        /\ UNCHANGED <<outcome, opened>>
    BY <1>7 DEF Install, Installing
  <2>2. target' = [save |-> saving[s], whole |-> TRUE]
    BY <2>1 DEF StorageInv, ProgressInv
  <2>3. saving[s] \in Version /\ outcome[saving[s]] = "running"
    BY <2>1, SavingType DEF StorageInv, HolderInv
  <2>4. target' # NoFile /\ target'.save = saving[s]
    BY <2>2, <2>3, StorageAssumption DEF NoFile, Version
  <2>5. Current' = saving[s]
    BY <2>4 DEF Current
  <2>6. Store!Replace(saving[s])
    BY <2>1, <2>3, <2>5 DEF Store!Replace
  <2> QED
    BY <2>3, <2>6 DEF Store!Next, Version
<1>8. ASSUME NEW s \in Saver, BackUp(s)
      PROVE  UNCHANGED Store!vars
  <2>1. /\ pc[s] = "replace" /\ target # NoFile /\ target' = NoFile
        /\ backup' = [backup EXCEPT ![name[s]] = target]
        /\ UNCHANGED <<outcome, opened>>
    BY <1>8 DEF BackUp
  <2>2. name[s] \in Suffix
    BY <2>1 DEF StorageInv, ProgressInv
  <2>3. backup'[name[s]] = target /\ \A n \in Suffix : backup'[n] \in {backup[n], target}
    BY <2>1, <2>2 DEF StorageInv, TypeOK
  <2>4. Current = target.save /\ target.save \in Nat
    BY <1>3, <2>1, FileFacts DEF Stored, StorageInv, TypeOK
  <2>5. \A n \in Suffix : backup'[n].save <= target.save
    BY <2>1, <2>3, <2>4 DEF StorageInv, StoredInv
  <2>6. PICK n \in Suffix : /\ Current' = backup'[n].save
                            /\ backup'[name[s]].save <= Current'
    BY <1>2, <2>1, <2>2 DEF Stored
  <2>7. Current' \in Nat
    BY <1>2, StorageAssumption
  <2>8. Current' = Current
    BY <2>3, <2>4, <2>5, <2>6, <2>7
  <2> QED
    BY <2>1, <2>8 DEF Store!vars
<1>9. ASSUME NEW s \in Saver, RollBack(s)
      PROVE  UNCHANGED Store!vars
  <2>1. pc[s] = "rollback" /\ UNCHANGED <<outcome, opened>>
    BY <1>9 DEF RollBack
  <2>2. /\ target = NoFile /\ backup[name[s]] # NoFile /\ name[s] \in Suffix
        /\ \A n \in Suffix : backup[n].save <= backup[name[s]].save
    BY <2>1 DEF StorageInv, ProgressInv
  <2>3. CASE UNCHANGED <<target, backup>>
    BY <1>1, <2>1, <2>3 DEF Store!vars
  <2>4. CASE target' = backup[name[s]]
    <3>1. Current' = backup[name[s]].save
      BY <2>2, <2>4 DEF Current
    <3>2. PICK n \in Suffix : /\ Current = backup[n].save
                              /\ backup[name[s]].save <= Current
      BY <1>3, <2>2 DEF Stored
    <3>3. backup[name[s]].save \in Nat /\ Current <= backup[name[s]].save
      BY <2>2, <3>2, FileFacts DEF StorageInv, TypeOK
    <3>4. Current' = Current
      BY <1>3, <3>1, <3>2, <3>3
    <3> QED
      BY <2>1, <3>4 DEF Store!vars
  <2> QED
    BY <1>9, <2>3, <2>4 DEF RollBack
<1>10. ASSUME NEW s \in Saver, DiscardBackup(s)
       PROVE  UNCHANGED Store!vars
  <2>1. pc[s] = "discard" /\ UNCHANGED <<target, saving, outcome, opened>>
    BY <1>10 DEF DiscardBackup
  <2>2. target = [save |-> saving[s], whole |-> TRUE] /\ saving[s] \in Version
    BY <2>1, SavingType DEF StorageInv, ProgressInv
  <2>3. target # NoFile
    BY <2>2, StorageAssumption DEF NoFile, Version
  <2>4. Current' = Current
    BY <2>1, <2>3 DEF Current
  <2> QED
    BY <2>1, <2>4 DEF Store!vars
<1>11. ASSUME NEW s \in Saver,
              \/ WriteLock(s) \/ WriteTemp(s) \/ RemoveTemp(s)
              \/ \E n \in Suffix : CreateTemp(s, n)
              \/ WriteTempFails(s) \/ BackUpFails(s) \/ InstallFails(s)
              \/ StorePathFails(s)
       PROVE  UNCHANGED Store!vars
  <2>1. UNCHANGED <<target, backup, outcome, opened>>
    BY <1>11 DEF WriteLock, WriteTemp, RemoveTemp, CreateTemp, WriteTempFails,
       BackUpFails, InstallFails, StorePathFails
  <2> QED
    BY <1>1, <2>1 DEF Store!vars
<1>12. ASSUME NEW r \in Reader, Open(r)
       PROVE  Store!Next
  <2>1. /\ target # NoFile /\ opened' = [opened EXCEPT ![r] = target.save]
        /\ UNCHANGED <<target, backup, outcome>>
    BY <1>12 DEF Open
  <2>2. Current = target.save /\ Current # 0
    BY <1>3, <2>1, FileFacts DEF Stored, StorageInv, TypeOK
  <2>3. Store!Open(r)
    BY <1>1, <2>1, <2>2 DEF Store!Open
  <2> QED
    BY <2>3 DEF Store!Next
<1>13. CASE RemoveLock \/ UNCHANGED vars
  <2>1. UNCHANGED <<target, backup, outcome, opened>>
    BY <1>13 DEF RemoveLock, vars
  <2> QED
    BY <1>1, <2>1 DEF Store!vars
<1> QED
  BY <1>4, <1>5, <1>6, <1>7, <1>8, <1>9, <1>10, <1>11, <1>12, <1>13
  DEF Next, SaveStep, FailStep, Terminated

\* The files implement a store that each save replaces at once or not at all:
\* it has when save returns Ok, and has not when save returns an error other
\* than that of std::path::absolute.
THEOREM SaveIsAtomic == Spec => StoreSpec
<1>1. Init => Store!Init
  <2> SUFFICES ASSUME Init PROVE Store!Init
    OBVIOUS
  <2>1. /\ outcome = [v \in Store!Version |-> "unused"]
        /\ opened = [r \in Reader |-> 0]
    BY DEF Init, Version, Store!Version
  <2>2. Stored(0)
    <3>1. \E n \in Suffix : TRUE
      BY StorageAssumption
    <3> QED
      BY <3>1 DEF Init, Stored, NoFile
  <2>3. Current = 0
    BY <2>2, TypeInit, StoredIsCurrent
  <2> QED
    BY <2>1, <2>3 DEF Store!Init
<1>2. StorageInv /\ StorageInv' /\ [Next]_vars => [Store!Next]_(Store!vars)
  BY StoreStep
<1> QED
  BY <1>1, <1>2, StorageInvariant, PTL DEF Spec, StoreSpec, Store!Spec

=============================================================================
