-------------------------- MODULE LiveIndexProofs --------------------------
(***************************************************************************)
(* Proofs about LiveIndex, for all constants that satisfy its assumptions. *)
(*                                                                         *)
(* Control says which thread can be where; it makes TypeOK inductive.      *)
(* SearchInv and UnsavedInv strengthen SearchSeesOneSnapshot and           *)
(* UnsavedIsKnown.  Their theorems end the first half.                     *)
(*                                                                         *)
(* The second half is about StaleIsKnown and CleanStop: while the process  *)
(* watches its roots no change of a file is forgotten, and a stop that     *)
(* returns Ok has left nothing behind.                                     *)
(***************************************************************************)
EXTENDS LiveIndex, TLAPS

\* Who holds the write lock, in which stage, and how many reports it has.
Control ==
  /\ writer = NoOne <=> stage = "idle"
  /\ writer = Worker <=> worker = "apply"
  /\ writer = Main <=> main = "building"
  /\ writer \in Client => call[writer] = "apply" /\ main = "running"
  /\ \A c \in Client : call[c] # "none" => main = "running"
  /\ main = "building" => worker = "none"
  /\ main = "off" => writer = NoOne /\ worker \in {"none", "done"}
  /\ stage = "plan" => writer = Worker
  /\ stage = "idle" => reports = 0 /\ root = 1
  /\ stage = "plan" => reports < root
  /\ stage = "scan" => IF writer = Worker THEN reports + 1 < root ELSE reports = 0
  /\ stage \in {"record", "generation"} => writer # Main /\ reports > 0
  /\ stage # "scan" => targets = {}
  /\ \A f \in File \ targets : reading[f] = Closed

\* While a search runs the write lock is free and the index is the one it saw.
SearchInv ==
  \A c \in Client : call[c] = "search" => writer = NoOne /\ index = seen[c]

\* Between a batch's first installed update and its save, what RAM holds beyond
\* the index file is dirty, in an unrecorded report, or in an error.
UnsavedInv ==
  /\ main \in {"running", "stopping", "joining"} =>
       /\ stage \in {"idle", "plan", "scan"} =>
            index = persisted \/ dirty \/ lastError \/ worker = "failed" \/ reports > 0
       /\ stage \in {"generation", "save"} => dirty
  /\ stage = "saved" => persisted = index

-----------------------------------------------------------------------------
(* Sequences *)

\* Append adds one element to a sequence, and to its range.
LEMMA RangeAppend ==
  ASSUME NEW S, NEW q \in Seq(S), NEW m \in S
  PROVE  /\ Append(q, m) \in Seq(S)
         /\ Len(Append(q, m)) = Len(q) + 1
         /\ Len(q) \in Nat
         /\ Range(Append(q, m)) = Range(q) \cup {m}
<1>1. \A i \in 1..Len(q) : Append(q, m)[i] = q[i]
  OBVIOUS
<1>2. Append(q, m)[Len(q) + 1] = m
  OBVIOUS
<1>3. /\ DOMAIN q = 1..Len(q)
      /\ DOMAIN Append(q, m) = 1..(Len(q) + 1)
      /\ Len(q) \in Nat
  OBVIOUS
<1>4. \A i : i \in 1..(Len(q) + 1) <=> i \in 1..Len(q) \/ i = Len(q) + 1
  BY <1>3
<1>5. Range(Append(q, m)) = Range(q) \cup {m}
  BY <1>1, <1>2, <1>3, <1>4, Zenon DEF Range
<1>6. /\ Append(q, m) \in Seq(S)
      /\ Len(Append(q, m)) = Len(q) + 1
      /\ Len(q) \in Nat
  OBVIOUS
<1> QED
  BY <1>5, <1>6

\* Tail takes one element off.
LEMMA RangeTail ==
  ASSUME NEW S, NEW q \in Seq(S), q # <<>>
  PROVE  /\ Head(q) \in S
         /\ Tail(q) \in Seq(S)
         /\ Len(Tail(q)) = Len(q) - 1 /\ Len(q) \in Nat
         /\ Range(q) = Range(Tail(q)) \cup {Head(q)}
<1>1. /\ DOMAIN q = 1..Len(q)
      /\ Len(q) \in Nat \ {0}
      /\ DOMAIN Tail(q) = 1..(Len(q) - 1)
      /\ Head(q) = q[1]
  OBVIOUS
<1>2. \A i \in 1..(Len(q) - 1) : Tail(q)[i] = q[i + 1] 
  OBVIOUS
<1>3. Range(q) \subseteq Range(Tail(q)) \cup {Head(q)}
  <2> SUFFICES ASSUME NEW i \in 1..Len(q), i # 1
               PROVE  \E j \in DOMAIN Tail(q) : q[i] = Tail(q)[j]
    BY <1>1 DEF Range
  <2>1. i - 1 \in 1..(Len(q) - 1) /\ (i - 1) + 1 = i
    BY <1>1
  <2> QED
    BY <2>1, <1>1, <1>2
<1>4. Range(Tail(q)) \cup {Head(q)} \subseteq Range(q)
  <2> SUFFICES ASSUME NEW j \in 1..(Len(q) - 1)
               PROVE  \E i \in DOMAIN q : Tail(q)[j] = q[i]
    BY <1>1, <1>2 DEF Range
  <2>1. j + 1 \in 1..Len(q)
    BY <1>1
  <2> QED
    BY <2>1, <1>1, <1>2
<1>5. Head(q) \in S /\ Tail(q) \in Seq(S) /\ Len(Tail(q)) = Len(q) - 1 /\ Len(q) \in Nat
  OBVIOUS
<1>6. Range(q) = Range(Tail(q)) \cup {Head(q)}
  BY <1>3, <1>4, Zenon
<1> QED
  BY <1>5, <1>6

-----------------------------------------------------------------------------
(* Types and control *)

USE DEF environment, channel, collected, lock, update, health, owner, clients

\* A message that fits leaves a well-typed channel.
LEMMA QueueAppend ==
  ASSUME TypeOK, NEW m \in Message
  PROVE  /\ Append(queue, m) \in Seq(Message)
         /\ Len(queue) < BufferSize => Len(Append(queue, m)) <= BufferSize
         /\ Range(Append(queue, m)) = Range(queue) \cup {m}
<1>1. queue \in Seq(Message) /\ BufferSize \in Nat
  BY OptionsAssumption DEF TypeOK
<1>2. /\ Append(queue, m) \in Seq(Message)
      /\ Len(Append(queue, m)) = Len(queue) + 1
      /\ Len(queue) \in Nat
      /\ Range(Append(queue, m)) = Range(queue) \cup {m}
  BY <1>1, RangeAppend
<1> QED
  BY <1>1, <1>2

\* So does the receipt of one.
LEMMA QueueTail ==
  ASSUME TypeOK, queue # <<>>
  PROVE  /\ Head(queue) \in Message
         /\ Tail(queue) \in Seq(Message)
         /\ Len(Tail(queue)) <= BufferSize
         /\ Range(queue) = Range(Tail(queue)) \cup {Head(queue)}
<1>1. queue \in Seq(Message) /\ BufferSize \in Nat /\ Len(queue) <= BufferSize
  BY OptionsAssumption DEF TypeOK
<1>2. /\ Head(queue) \in Message
      /\ Tail(queue) \in Seq(Message)
      /\ Len(Tail(queue)) = Len(queue) - 1 /\ Len(queue) \in Nat
      /\ Range(queue) = Range(Tail(queue)) \cup {Head(queue)}
  BY <1>1, RangeTail
<1> QED
  BY <1>1, <1>2

\* What has been spent is counted in naturals.
LEMMA SpendType ==
  ASSUME used \in [Budget -> Nat], NEW what \in Budget, Spend(what)
  PROVE  used' \in [Budget -> Nat]
BY DEF Spend

\* The values an update starts from have their types.
LEMMA EmptyTypes == /\ NoEntries \in Snapshot
                    /\ [f \in File |-> Closed] \in [File -> Content \cup {Closed, Torn}]
BY ContentAssumption DEF NoEntries, Snapshot

\* What the watchers see of a save are notifications, and the older ones stay.
LEMMA SaveNotices ==
  ASSUME notices \subseteq Notice, NEW files \in SUBSET Artifact, ArtifactNotices(files)
  PROVE  notices' \subseteq Notice /\ notices \subseteq notices'
<1>1. [kind : {"artifact"}, file : files] \subseteq Notice
  BY DEF Notice, Event
<1>2. notices' \in {notices \cup [kind : {"artifact"}, file : files], notices}
  BY DEF ArtifactNotices
<1> QED
  BY <1>1, <1>2

\* The initial states are well typed and controlled.
LEMMA TypeInit == Init => TypeOK /\ Control
<1> SUFFICES ASSUME Init PROVE TypeOK /\ Control
  OBVIOUS
<1>1. TypeOK
  <2>1. queue \in Seq(Message) /\ Len(queue) <= BufferSize
    BY OptionsAssumption DEF Init
  <2>2. used \in [Budget -> Nat]
    BY DEF Init
  <2>3. seen \in [Client -> Snapshot] /\ call \in [Client -> {"none", "search", "status", "apply"}]
    BY EmptyTypes DEF Init
  <2>4. root \in 1..(NRoots + 1) /\ reports \in 0..NRoots
    BY RootsAssumption DEF Init
  <2>5. batches \in 0..MaxCount /\ generation \in 0..MaxCount
    BY OptionsAssumption DEF Init
  <2> QED
    BY <2>1, <2>2, <2>3, <2>4, <2>5, EmptyTypes DEF Init, TypeOK
<1>2. Control
  BY RootsAssumption, ActorAssumption DEF Init, Control
<1> QED
  BY <1>1, <1>2

\* A Return leaves well-typed variables and an idle lock.
LEMMA ReturnType ==
  ASSUME TypeOK, Control, NEW ok \in BOOLEAN, Return(ok)
  PROVE  /\ writer \in Client \cup {Worker, Main}
         /\ writer' = NoOne /\ stage' = "idle"
         /\ root' = 1 /\ reports' = 0 /\ targets' = {}
         /\ root' \in 1..(NRoots + 1) /\ reports' \in 0..NRoots
         /\ reading' = [f \in File |-> Closed]
         /\ reading' \in [File -> Content \cup {Closed, Torn}]
         /\ staged' \in Snapshot
         /\ batch' \subseteq Event /\ force' \in BOOLEAN
         /\ call' \in [Client -> {"none", "search", "status", "apply"}]
         /\ main' \in {"off", "building", "running", "stopping", "joining"}
         /\ worker' \in {"none", "recv", "collect", "lock", "failed", "done"}
         /\ writer = Worker => UNCHANGED <<main, call>>
         /\ writer = Main => /\ UNCHANGED call
                             /\ main' \in {"off", "running"}
                             /\ main' = "off" => worker' = "none"
         /\ writer \in Client => UNCHANGED <<main, worker>>
                              /\ call' = [call EXCEPT ![writer] = "none"]
<1>1. writer \in Client \cup {Worker, Main}
  BY DEF Return
<1>2. /\ writer' = NoOne /\ stage' = "idle" /\ root' = 1 /\ reports' = 0 /\ targets' = {}
      /\ reading' = [f \in File |-> Closed] /\ staged' = NoEntries
  BY DEF Return, ResetUpdate
<1>3. root' \in 1..(NRoots + 1) /\ reports' \in 0..NRoots
  BY <1>2, RootsAssumption
<1>4. CASE writer = Worker
  BY <1>1, <1>2, <1>3, <1>4, EmptyTypes, ActorAssumption DEF Return, BatchOver, TypeOK
<1>5. CASE writer = Main
  BY <1>1, <1>2, <1>3, <1>5, EmptyTypes, ActorAssumption DEF Return, TypeOK, Control
<1>6. CASE writer \in Client
  <2>1. UNCHANGED <<worker, batch, force, main>> /\ call' = [call EXCEPT ![writer] = "none"]
    BY <1>6, ActorAssumption DEF Return
  <2>2. worker # "apply"
    BY <1>6, ActorAssumption DEF Control
  <2> QED
    BY <1>1, <1>2, <1>3, <1>6, <2>1, <2>2, EmptyTypes, ActorAssumption DEF TypeOK
<1> QED
  BY <1>1, <1>4, <1>5, <1>6

\* Every step keeps types and control; one step of the proof per action.
LEMMA TypeStep ==
  ASSUME TypeOK, Control, [Next]_vars
  PROVE  TypeOK' /\ Control'
<1>1. ASSUME NEW f \in File, NEW c \in Content, NEW kind \in {"change", "structural"},
             WriteFile(f, c, kind)
      PROVE  TypeOK' /\ Control'
  <2>1. notices' \subseteq Notice
    BY <1>1 DEF WriteFile, TypeOK, Notice, Event
  <2>2. disk' \in Snapshot /\ reading' \in [File -> Content \cup {Closed, Torn}]
    BY <1>1 DEF WriteFile, TypeOK, Snapshot
  <2>3. stage # "scan" => reading' = [g \in File |-> Closed]
    BY <1>1 DEF WriteFile, TypeOK, Control
  <2>4. used' \in [Budget -> Nat]
    BY <1>1, SpendType DEF WriteFile, TypeOK, Budget
  <2>5. TypeOK'
    BY <1>1, <2>1, <2>2, <2>4 DEF TypeOK, WriteFile
  <2> QED
    BY <1>1, <2>3, <2>5 DEF Control, WriteFile
<1>2. CASE KernelDrops
  <2>1. notices' \subseteq Notice
    BY <1>2 DEF KernelDrops, TypeOK, Notice
  <2>2. used' \in [Budget -> Nat]
    BY <1>2, SpendType DEF KernelDrops, TypeOK, Budget
  <2>3. TypeOK'
    BY <1>2, <2>1, <2>2 DEF TypeOK, KernelDrops
  <2>4. Control'
    BY <1>2 DEF TypeOK, Control, KernelDrops
  <2> QED
    BY <2>3, <2>4
<1>3. ASSUME NEW e \in Notice,
             Deliver(e)
      PROVE  TypeOK' /\ Control'
  <2>1. queue' \in Seq(Message) /\ Len(queue') <= BufferSize
    BY <1>3, QueueAppend DEF Deliver, TypeOK, Message
  <2>2. TypeOK'
    BY <1>3, <2>1 DEF TypeOK, Deliver
  <2>3. Control'
    BY <1>3 DEF TypeOK, Control, Deliver
  <2> QED
    BY <2>2, <2>3
<1>4. CASE StoreOverflow
  <2>1. TypeOK'
    BY <1>4 DEF TypeOK, StoreOverflow
  <2>2. Control'
    BY <1>4 DEF TypeOK, Control, StoreOverflow
  <2> QED
    BY <2>1, <2>2
<1>5. CASE WorkerReceives
  <2>1. /\ Head(queue) \in Message
        /\ queue' \in Seq(Message) /\ Len(queue') <= BufferSize
    BY <1>5, QueueTail DEF WorkerReceives, TypeOK
  <2>2. ASSUME Head(queue) # Stop, NEW events \in SUBSET Event, NEW forced \in BOOLEAN,
               Collect(Head(queue), events, forced)
        PROVE  batch' \subseteq Event /\ force' \in BOOLEAN /\ lastError' \in BOOLEAN
    BY <2>1, <2>2 DEF Collect, TypeOK, Message, Notice
  <2>3. /\ batch' \subseteq Event /\ force' \in BOOLEAN /\ lastError' \in BOOLEAN
        /\ overflowed' \in BOOLEAN
    <3>1. CASE Head(queue) = Stop
      BY <1>5, <3>1 DEF WorkerReceives, TypeOK
    <3>2. CASE Head(queue) # Stop
      <4>1. Collect(Head(queue), {}, overflowed) /\ overflowed \in BOOLEAN /\ overflowed' = FALSE
        BY <1>5, <3>2 DEF WorkerReceives, TypeOK
      <4> QED
        BY <3>2, <4>1, <2>2
    <3> QED
      BY <3>1, <3>2
  <2>4. TypeOK'
    BY <1>5, <2>1, <2>3 DEF TypeOK, WorkerReceives
  <2>5. Control'
    BY <1>5, ActorAssumption DEF TypeOK, Control, WorkerReceives
  <2> QED
    BY <2>4, <2>5
<1>6. CASE WorkerCollects
  <2>1. /\ Head(queue) \in Message
        /\ queue' \in Seq(Message) /\ Len(queue') <= BufferSize
    BY <1>6, QueueTail DEF WorkerCollects, TypeOK
  <2>2. ASSUME Head(queue) # Stop, NEW events \in SUBSET Event, NEW forced \in BOOLEAN,
               Collect(Head(queue), events, forced)
        PROVE  batch' \subseteq Event /\ force' \in BOOLEAN /\ lastError' \in BOOLEAN
    BY <2>1, <2>2 DEF Collect, TypeOK, Message, Notice
  <2>3. TypeOK'
    BY <1>6, <2>1, <2>2 DEF TypeOK, WorkerCollects
  <2>4. Control'
    BY <1>6, ActorAssumption DEF TypeOK, Control, WorkerCollects
  <2> QED
    BY <2>3, <2>4
<1>7. CASE DebounceEnds
  <2>1. queue' \in Seq(Message) /\ Len(queue') <= BufferSize
    BY <1>7, QueueTail DEF DebounceEnds, TypeOK
  <2>2. force' \in BOOLEAN
    <3>1. force' = (force \/ overflowed)
      BY <1>7 DEF DebounceEnds
    <3> QED
      BY <3>1
  <2>3. /\ worker' = "lock" /\ overflowed' = FALSE /\ stopAfter' \in BOOLEAN
        /\ UNCHANGED <<environment, callback, batch, lock, update, index, persisted,
                       health, owner, clients, used>>
    BY <1>7 DEF DebounceEnds, TypeOK
  <2>4. /\ disk' \in Snapshot /\ index' \in Snapshot /\ staged' \in Snapshot
         /\ persisted' \in Snapshot \cup {NoIndex}
         /\ notices' \subseteq Notice
         /\ callback' \in {"idle", "full"}
         /\ queue' \in Seq(Message) /\ Len(queue') <= BufferSize
    BY <2>1, <2>2, <2>3 DEF TypeOK
  <2>5. /\ overflowed' \in BOOLEAN /\ force' \in BOOLEAN /\ stopAfter' \in BOOLEAN
         /\ dirty' \in BOOLEAN /\ lastError' \in BOOLEAN
         /\ worker' \in {"none", "recv", "collect", "lock", "apply", "failed", "done"}
         /\ batch' \subseteq Event
    BY <2>1, <2>2, <2>3 DEF TypeOK
  <2>6. /\ writer' \in Client \cup {Worker, Main, NoOne}
         /\ stage' \in {"idle", "plan", "scan", "record", "generation", "save", "saved"}
         /\ root' \in 1..(NRoots + 1)
         /\ reports' \in 0..NRoots
         /\ targets' \subseteq File
    BY <2>1, <2>2, <2>3 DEF TypeOK
  <2>7. /\ reading' \in [File -> Content \cup {Closed, Torn}]
         /\ batches' \in 0..MaxCount /\ generation' \in 0..MaxCount
         /\ main' \in {"off", "building", "running", "stopping", "joining"}
         /\ seen' \in [Client -> Snapshot]
         /\ used' \in [Budget -> Nat]
    BY <2>1, <2>2, <2>3 DEF TypeOK
  <2>8. /\ outcome' \in {"none", "ok", "error"}
         /\ call' \in [Client -> {"none", "search", "status", "apply"}]
    BY <2>1, <2>2, <2>3 DEF TypeOK
  <2>9. TypeOK'
    BY <2>4, <2>5, <2>6, <2>7, <2>8 DEF TypeOK
  <2>10. Control'
    BY <1>7, ActorAssumption DEF TypeOK, Control, DebounceEnds
  <2> QED
    BY <2>9, <2>10
<1>8. CASE WorkerLocks
  <2>1. writer = NoOne /\ stage = "idle" /\ main # "building"
    BY <1>8, ActorAssumption DEF WorkerLocks, LockFree, Control
  <2>2. TypeOK'
    BY <1>8 DEF TypeOK, WorkerLocks
  <2>3. Control'
    BY <1>8, <2>1, ActorAssumption, RootsAssumption DEF TypeOK, Control, WorkerLocks
  <2> QED
    BY <2>2, <2>3
<1>9. CASE PlanRoot
  <2>1. /\ targets' \subseteq File /\ staged' \in Snapshot
        /\ stage' \in {"plan", "scan"}
        /\ stage' = "plan" => UNCHANGED targets
    BY <1>9, EmptyTypes DEF PlanRoot, BeginRebuild, BeginChangedFiles, TypeOK
  <2>2. TypeOK'
    BY <1>9, <2>1, RootsAssumption DEF TypeOK, PlanRoot
  <2>3. Control'
    BY <1>9, ActorAssumption, <2>1, RootsAssumption DEF TypeOK, Control, PlanRoot
  <2> QED
    BY <2>2, <2>3
<1>10. CASE BatchApplied
  <2>1. CASE reports = 0
    <3>1. Return(TRUE)
      BY <1>10, <2>1 DEF BatchApplied
    <3>2. TypeOK'
      BY <1>10, <3>1, ReturnType, ActorAssumption DEF BatchApplied, TypeOK
    <3>3. Control'
      BY <1>10, <3>1, ReturnType, ActorAssumption DEF BatchApplied, TypeOK, Control
    <3> QED
      BY <3>2, <3>3
  <2>2. CASE reports # 0
    <3>1. TypeOK'
      BY <1>10, <2>2 DEF BatchApplied, TypeOK
    <3>2. Control'
      BY <1>10, <2>2, ActorAssumption DEF BatchApplied, TypeOK, Control
    <3> QED
      BY <3>1, <3>2
  <2> QED
    BY <2>1, <2>2
<1>11. ASSUME NEW f \in File,
             OpenFile(f)
      PROVE  TypeOK' /\ Control'
  <2>1. reading' \in [File -> Content \cup {Closed, Torn}]
    BY <1>11 DEF OpenFile, TypeOK, Snapshot
  <2>2. TypeOK'
    BY <1>11, <2>1 DEF TypeOK, OpenFile
  <2>3. Control'
    BY <1>11 DEF TypeOK, Control, OpenFile
  <2> QED
    BY <2>2, <2>3
<1>12. ASSUME NEW f \in File,
             FinishFile(f)
      PROVE  TypeOK' /\ Control'
  <2>1. /\ reading' \in [File -> Content \cup {Closed, Torn}]
        /\ staged' \in Snapshot
    BY <1>12, ContentAssumption DEF FinishFile, TypeOK, Snapshot
  <2>2. TypeOK'
    BY <1>12, <2>1 DEF TypeOK, FinishFile
  <2>3. Control'
    BY <1>12 DEF TypeOK, Control, FinishFile
  <2> QED
    BY <2>2, <2>3
<1>13. CASE Escalate
  <2>1. used' \in [Budget -> Nat] /\ targets' = File /\ staged' = NoEntries /\ stage' = "scan"
    BY <1>13, SpendType DEF Escalate, BeginRebuild, TypeOK, Budget
  <2>2. TypeOK'
    BY <1>13, <2>1, EmptyTypes DEF TypeOK, Escalate
  <2>3. Control'
    BY <1>13, <2>1 DEF TypeOK, Control, Escalate
  <2> QED
    BY <2>2, <2>3
<1>14. CASE Install
  <2>1. reading = [f \in File |-> Closed]
    BY <1>14 DEF Install, TypeOK, Control
  <2>2. reports' \in 0..NRoots /\ stage' \in {"plan", "save", "record"}
    BY <1>14, RootsAssumption, ActorAssumption DEF Install, TypeOK, Control
  <2>3. TypeOK'
    BY <1>14, <2>2 DEF TypeOK, Install
  <2>4. Control'
    BY <1>14, <2>1, RootsAssumption, ActorAssumption DEF TypeOK, Control, Install
  <2> QED
    BY <2>3, <2>4
<1>15. CASE UpdateFails
  <2>1. used' \in [Budget -> Nat]
    BY <1>15, SpendType DEF UpdateFails, TypeOK, Budget
  <2>2. Return(FALSE)
    BY <1>15 DEF UpdateFails
  <2>3. TypeOK'
    BY <1>15, <2>1, <2>2, ZenonT(40), ReturnType, ActorAssumption DEF UpdateFails, TypeOK
  <2>4. Control'
    BY <1>15, <2>2, ReturnType, ActorAssumption DEF UpdateFails, TypeOK, Control
  <2> QED
    BY <2>3, <2>4
<1>16. CASE RecordReport
  <2>1. batches' \in 0..MaxCount
    BY <1>16, OptionsAssumption DEF RecordReport, TypeOK
  <2>2. TypeOK'
    BY <1>16, <2>1 DEF TypeOK, RecordReport
  <2>3. Control'
    BY <1>16, ActorAssumption DEF TypeOK, Control, RecordReport
  <2> QED
    BY <2>2, <2>3
<1>17. CASE BumpGeneration
  <2>1. generation' \in 0..MaxCount
    BY <1>17, OptionsAssumption DEF BumpGeneration, TypeOK
  <2>2. CASE reports = 1 /\ ~PersistEachBatch
    <3>1. Return(TRUE)
      BY <1>17, <2>2 DEF BumpGeneration
    <3>2. TypeOK'
      BY <1>17, <2>1, <3>1, ZenonT(40), ReturnType, ActorAssumption DEF BumpGeneration, TypeOK
    <3>3. Control'
      BY <1>17, <3>1, ReturnType, ActorAssumption DEF BumpGeneration, TypeOK, Control
    <3> QED
      BY <3>2, <3>3
  <2>3. CASE ~(reports = 1 /\ ~PersistEachBatch)
    <3>1. reports' \in 0..NRoots /\ reports \in Nat /\ reports > 0 /\ stage' \in {"save", "record"}
      <4>1. reports \in Nat /\ reports > 0 /\ reports <= NRoots
        BY <1>17, RootsAssumption DEF BumpGeneration, TypeOK, Control
      <4>2. reports' = reports - 1 /\ stage' \in {"save", "record"}
        BY <1>17, <2>3 DEF BumpGeneration
      <4> QED
        BY <4>1, <4>2, RootsAssumption
    <3>2. reports' = reports - 1 /\ stage' = IF reports = 1 THEN "save" ELSE "record"
      BY <1>17, <2>3 DEF BumpGeneration
    <3>3. writer # Main /\ stage = "generation"
      BY <1>17 DEF BumpGeneration, Control
    <3>4. stage' = "record" => reports' > 0
      BY <3>1, <3>2
    <3>5. UNCHANGED <<environment, channel, worker, collected, writer, root, targets,
                         reading, staged, index, persisted, dirty, batches, lastError,
                         owner, clients, used>>
      BY <1>17, <2>3 DEF BumpGeneration
    <3>6. /\ disk' \in Snapshot /\ index' \in Snapshot /\ staged' \in Snapshot
           /\ persisted' \in Snapshot \cup {NoIndex}
           /\ notices' \subseteq Notice
           /\ callback' \in {"idle", "full"}
           /\ queue' \in Seq(Message) /\ Len(queue') <= BufferSize
      BY <2>1, <3>1, <3>5 DEF TypeOK
    <3>7. /\ overflowed' \in BOOLEAN /\ force' \in BOOLEAN /\ stopAfter' \in BOOLEAN
           /\ dirty' \in BOOLEAN /\ lastError' \in BOOLEAN
           /\ worker' \in {"none", "recv", "collect", "lock", "apply", "failed", "done"}
           /\ batch' \subseteq Event
      BY <2>1, <3>1, <3>5 DEF TypeOK
    <3>8. /\ writer' \in Client \cup {Worker, Main, NoOne}
           /\ stage' \in {"idle", "plan", "scan", "record", "generation", "save", "saved"}
           /\ root' \in 1..(NRoots + 1)
           /\ reports' \in 0..NRoots
           /\ targets' \subseteq File
      BY <2>1, <3>1, <3>5 DEF TypeOK
    <3>9. /\ reading' \in [File -> Content \cup {Closed, Torn}]
           /\ batches' \in 0..MaxCount /\ generation' \in 0..MaxCount
           /\ main' \in {"off", "building", "running", "stopping", "joining"}
           /\ seen' \in [Client -> Snapshot]
           /\ used' \in [Budget -> Nat]
      BY <2>1, <3>1, <3>5 DEF TypeOK
    <3>10. /\ outcome' \in {"none", "ok", "error"}
           /\ call' \in [Client -> {"none", "search", "status", "apply"}]
      BY <2>1, <3>1, <3>5 DEF TypeOK
    <3>11. TypeOK'
      BY <3>6, <3>7, <3>8, <3>9, <3>10 DEF TypeOK
    <3>12. Control'
      BY <3>1, <3>5, <3>3, <3>4, ActorAssumption DEF TypeOK, Control
    <3> QED
      BY <3>11, <3>12
  <2> QED
    BY <2>2, <2>3
<1>18. CASE Save
  <2>1. notices' \subseteq Notice /\ persisted' \in Snapshot
    BY <1>18, SaveNotices DEF Save, TypeOK
  <2>2. TypeOK'
    BY <1>18, <2>1 DEF TypeOK, Save
  <2>3. Control'
    BY <1>18, ActorAssumption DEF TypeOK, Control, Save
  <2> QED
    BY <2>2, <2>3
<1>19. CASE SaveFails
  <2>1. used' \in [Budget -> Nat]
    BY <1>19, SpendType DEF SaveFails, TypeOK, Budget
  <2>2. Return(FALSE)
    BY <1>19 DEF SaveFails
  <2>3. notices' \subseteq Notice
    BY <1>19, SaveNotices DEF SaveFails, TypeOK
  <2>4. persisted' \in Snapshot \cup {NoIndex}
    BY <1>19 DEF SaveFails, TypeOK
  <2>5. TypeOK'
    BY <1>19, <2>1, <2>2, <2>3, <2>4, ZenonT(40), ReturnType, ActorAssumption
       DEF SaveFails, TypeOK
  <2>6. Control'
    BY <1>19, <2>2, ReturnType, ActorAssumption DEF SaveFails, TypeOK, Control
  <2> QED
    BY <2>5, <2>6
<1>20. CASE MarkClean
  <2>1. Return(TRUE)
    BY <1>20 DEF MarkClean
  <2>2. TypeOK'
    BY <1>20, <2>1, ReturnType, ActorAssumption DEF MarkClean, TypeOK
  <2>3. Control'
    BY <1>20, <2>1, ReturnType, ActorAssumption DEF MarkClean, TypeOK, Control
  <2> QED
    BY <2>2, <2>3
<1>21. CASE RecordFailure
  <2>1. worker' \in {"recv", "done"} /\ batch' = {} /\ force' = FALSE
    <3>1. worker' = (IF stopAfter THEN "done" ELSE "recv") /\ batch' = {} /\ force' = FALSE
      BY <1>21 DEF RecordFailure, BatchOver
    <3> QED
      BY <3>1
  <2>2. /\ worker = "failed" /\ lastError' = TRUE
        /\ UNCHANGED <<disk, notices, callback, queue, overflowed, stopAfter, writer, stage,
                       root, reports, targets, reading, staged, index, persisted,
                       dirty, batches, generation, main, outcome, call, seen, used>>
    BY <1>21 DEF RecordFailure
  <2>3. /\ disk' \in Snapshot /\ index' \in Snapshot /\ staged' \in Snapshot
         /\ persisted' \in Snapshot \cup {NoIndex}
         /\ notices' \subseteq Notice
         /\ callback' \in {"idle", "full"}
         /\ queue' \in Seq(Message) /\ Len(queue') <= BufferSize
    BY <2>1, <2>2 DEF TypeOK
  <2>4. /\ overflowed' \in BOOLEAN /\ force' \in BOOLEAN /\ stopAfter' \in BOOLEAN
         /\ dirty' \in BOOLEAN /\ lastError' \in BOOLEAN
         /\ worker' \in {"none", "recv", "collect", "lock", "apply", "failed", "done"}
         /\ batch' \subseteq Event
    BY <2>1, <2>2 DEF TypeOK
  <2>5. /\ writer' \in Client \cup {Worker, Main, NoOne}
         /\ stage' \in {"idle", "plan", "scan", "record", "generation", "save", "saved"}
         /\ root' \in 1..(NRoots + 1)
         /\ reports' \in 0..NRoots
         /\ targets' \subseteq File
    BY <2>1, <2>2 DEF TypeOK
  <2>6. /\ reading' \in [File -> Content \cup {Closed, Torn}]
         /\ batches' \in 0..MaxCount /\ generation' \in 0..MaxCount
         /\ main' \in {"off", "building", "running", "stopping", "joining"}
         /\ seen' \in [Client -> Snapshot]
         /\ used' \in [Budget -> Nat]
    BY <2>1, <2>2 DEF TypeOK
  <2>7. /\ outcome' \in {"none", "ok", "error"}
         /\ call' \in [Client -> {"none", "search", "status", "apply"}]
    BY <2>1, <2>2 DEF TypeOK
  <2>8. TypeOK'
    BY <2>3, <2>4, <2>5, <2>6, <2>7 DEF TypeOK
  <2>9. Control'
    BY <1>21, <2>1, ActorAssumption DEF RecordFailure, TypeOK, Control
  <2> QED
    BY <2>8, <2>9
<1>22. CASE WorkerPanics
  <2>1. used' \in [Budget -> Nat]
    BY <1>22, SpendType DEF WorkerPanics, TypeOK, Budget
  <2>2. /\ root' = 1 /\ reports' = 0 /\ targets' = {} /\ staged' = NoEntries
        /\ reading' = [f \in File |-> Closed]
    BY <1>22 DEF WorkerPanics, ResetUpdate
  <2>3. TypeOK'
    BY <1>22, <2>1, <2>2, EmptyTypes, RootsAssumption DEF TypeOK, WorkerPanics
  <2>4. Control'
    BY <1>22, <2>2, ActorAssumption DEF TypeOK, Control, WorkerPanics
  <2> QED
    BY <2>3, <2>4
<1>23. ASSUME NEW c \in Client,
             StartSearch(c)
      PROVE  TypeOK' /\ Control'
  <2>1. used' \in [Budget -> Nat]
    BY <1>23, SpendType DEF StartSearch, TypeOK, Budget
  <2>2. /\ call' \in [Client -> {"none", "search", "status", "apply"}]
        /\ seen' \in [Client -> Snapshot]
        /\ \A d \in Client \ {c} : call'[d] = call[d]
    BY <1>23, EmptyTypes DEF StartSearch, TypeOK
  <2>3. TypeOK'
    BY <1>23, <2>1, <2>2, EmptyTypes DEF TypeOK, StartSearch
  <2>4. Control'
    BY <1>23, <2>2, ActorAssumption DEF TypeOK, Control, StartSearch
  <2> QED
    BY <2>3, <2>4
<1>24. ASSUME NEW c \in Client,
             EndSearch(c)
      PROVE  TypeOK' /\ Control'
  <2>1. used' \in [Budget -> Nat]
    BY <1>24 DEF EndSearch, TypeOK
  <2>2. /\ call' \in [Client -> {"none", "search", "status", "apply"}]
        /\ seen' \in [Client -> Snapshot]
        /\ \A d \in Client \ {c} : call'[d] = call[d]
    BY <1>24, EmptyTypes DEF EndSearch, TypeOK
  <2>3. TypeOK'
    BY <1>24, <2>1, <2>2, EmptyTypes DEF TypeOK, EndSearch
  <2>4. Control'
    BY <1>24, <2>2, ActorAssumption DEF TypeOK, Control, EndSearch
  <2> QED
    BY <2>3, <2>4
<1>25. ASSUME NEW c \in Client,
             ReadIndexStatus(c)
      PROVE  TypeOK' /\ Control'
  <2>1. used' \in [Budget -> Nat]
    BY <1>25, SpendType DEF ReadIndexStatus, TypeOK, Budget
  <2>2. /\ call' \in [Client -> {"none", "search", "status", "apply"}]
        /\ seen' \in [Client -> Snapshot]
        /\ \A d \in Client \ {c} : call'[d] = call[d]
    BY <1>25, EmptyTypes DEF ReadIndexStatus, TypeOK
  <2>3. TypeOK'
    BY <1>25, <2>1, <2>2, EmptyTypes DEF TypeOK, ReadIndexStatus
  <2>4. Control'
    BY <1>25, <2>2, ActorAssumption DEF TypeOK, Control, ReadIndexStatus
  <2> QED
    BY <2>3, <2>4
<1>26. ASSUME NEW c \in Client,
             ReadHealth(c)
      PROVE  TypeOK' /\ Control'
  <2>1. used' \in [Budget -> Nat]
    BY <1>26 DEF ReadHealth, TypeOK
  <2>2. /\ call' \in [Client -> {"none", "search", "status", "apply"}]
        /\ seen' \in [Client -> Snapshot]
        /\ \A d \in Client \ {c} : call'[d] = call[d]
    BY <1>26, EmptyTypes DEF ReadHealth, TypeOK
  <2>3. TypeOK'
    BY <1>26, <2>1, <2>2, EmptyTypes DEF TypeOK, ReadHealth
  <2>4. Control'
    BY <1>26, <2>2, ActorAssumption DEF TypeOK, Control, ReadHealth
  <2> QED
    BY <2>3, <2>4
<1>27. ASSUME NEW c \in Client, NEW r \in 1..NRoots,
             ApplyEvents(c, r)
      PROVE  TypeOK' /\ Control'
  <2>1. writer = NoOne /\ stage = "idle" /\ reports = 0 /\ main = "running"
    BY <1>27, ActorAssumption DEF ApplyEvents, LockFree, Control
  <2>2. used' \in [Budget -> Nat]
    BY <1>27, SpendType DEF ApplyEvents, TypeOK, Budget
  <2>3. call' \in [Client -> {"none", "search", "status", "apply"}] /\ call'[c] = "apply"
    BY <1>27 DEF ApplyEvents, TypeOK
  <2>4. targets' \subseteq File /\ staged' \in Snapshot /\ stage' = "scan"
    BY <1>27, EmptyTypes DEF ApplyEvents, BeginRebuild, BeginChangedFiles, FilesOf, TypeOK
  <2>5. TypeOK'
    BY <1>27, <2>2, <2>3, <2>4 DEF TypeOK, ApplyEvents
  <2>6. Control'
    BY <1>27, <2>3, <2>4, <2>1, ActorAssumption DEF TypeOK, Control, ApplyEvents
  <2> QED
    BY <2>5, <2>6
<1>28. CASE Start
  <2>1. used' \in [Budget -> Nat]
    BY <1>28, SpendType DEF Start, TypeOK, Budget
  <2>2. writer = NoOne /\ stage = "idle" /\ main = "off" /\ reports = 0 /\ root = 1
    BY <1>28 DEF Start, Control, TypeOK
  <2>3. queue' \in Seq(Message) /\ Len(queue') <= BufferSize
    BY <1>28, OptionsAssumption DEF Start
  <2>4. /\ notices' = {} /\ callback' = "idle" /\ overflowed' = FALSE
        /\ batch' = {} /\ force' = FALSE /\ stopAfter' = FALSE
        /\ dirty' = FALSE /\ lastError' = FALSE /\ outcome' = "none"
        /\ batches' = 0 /\ generation' = 0
        /\ UNCHANGED <<disk, root, reports, reading, persisted, clients>>
    BY <1>28 DEF Start
  <2>5. batches' \in 0..MaxCount /\ generation' \in 0..MaxCount
    BY <2>4, OptionsAssumption
  <2>6. \A c \in Client : call[c] = "none"
    BY <2>2 DEF Control
  <2>7. targets = {} /\ \A f \in File : reading[f] = Closed
    BY <2>2 DEF Control
  <2>8. CASE persisted # NoIndex /\ ~RebuildOnStart
    <3>1. /\ main' = "running" /\ worker' = "recv" /\ index' = persisted
          /\ UNCHANGED <<lock, targets, staged>>
      BY <1>28, <2>8 DEF Start
    <3>2. TypeOK'
      BY <2>1, <2>3, <2>4, <2>5, <2>8, <3>1 DEF TypeOK
    <3>3. Control'
      BY <2>2, <2>4, <2>6, <2>7, <3>1, ActorAssumption DEF Control
    <3> QED
      BY <3>2, <3>3
  <2>9. CASE ~(persisted # NoIndex /\ ~RebuildOnStart)
    <3>1. /\ main' = "building" /\ worker' = "none" /\ index' = NoEntries
          /\ writer' = Main /\ stage' = "scan" /\ targets' = File /\ staged' = NoEntries
      BY <1>28, <2>9 DEF Start, BeginRebuild
    <3>2. TypeOK'
      BY <2>1, <2>3, <2>4, <2>5, <3>1, EmptyTypes DEF TypeOK
    <3>3. Control'
      BY <2>2, <2>4, <2>6, <2>7, <3>1, ActorAssumption DEF Control
    <3> QED
      BY <3>2, <3>3
  <2> QED
    BY <2>8, <2>9
<1>29. CASE BeginStop
  <2>1. TypeOK'
    BY <1>29 DEF TypeOK, BeginStop
  <2>2. Control'
    BY <1>29, ActorAssumption DEF TypeOK, Control, BeginStop
  <2> QED
    BY <2>1, <2>2
<1>30. CASE SendStop
  <2>1. queue' \in Seq(Message) /\ Len(queue') <= BufferSize
    BY <1>30, QueueAppend DEF SendStop, TypeOK, Message
  <2>2. TypeOK'
    BY <1>30, <2>1 DEF TypeOK, SendStop
  <2>3. Control'
    BY <1>30, ActorAssumption DEF TypeOK, Control, SendStop
  <2> QED
    BY <2>2, <2>3
<1>31. CASE FinishStop
  <2>1. persisted' \in Snapshot \cup {NoIndex} /\ dirty' = FALSE
    BY <1>31 DEF FinishStop, TypeOK
  <2>2. outcome' \in {"ok", "error"}
    <3>1. outcome' = IF lastError THEN "error" ELSE "ok"
      BY <1>31 DEF FinishStop
    <3> QED
      BY <3>1
  <2>3. /\ main' = "off"
        /\ UNCHANGED <<environment, channel, worker, collected, lock, update, index,
                       batches, generation, lastError, clients, used>>
    BY <1>31 DEF FinishStop
  <2>4. /\ disk' \in Snapshot /\ index' \in Snapshot /\ staged' \in Snapshot
         /\ persisted' \in Snapshot \cup {NoIndex}
         /\ notices' \subseteq Notice
         /\ callback' \in {"idle", "full"}
         /\ queue' \in Seq(Message) /\ Len(queue') <= BufferSize
    BY <2>1, <2>2, <2>3 DEF TypeOK
  <2>5. /\ overflowed' \in BOOLEAN /\ force' \in BOOLEAN /\ stopAfter' \in BOOLEAN
         /\ dirty' \in BOOLEAN /\ lastError' \in BOOLEAN
         /\ worker' \in {"none", "recv", "collect", "lock", "apply", "failed", "done"}
         /\ batch' \subseteq Event
    BY <2>1, <2>2, <2>3 DEF TypeOK
  <2>6. /\ writer' \in Client \cup {Worker, Main, NoOne}
         /\ stage' \in {"idle", "plan", "scan", "record", "generation", "save", "saved"}
         /\ root' \in 1..(NRoots + 1)
         /\ reports' \in 0..NRoots
         /\ targets' \subseteq File
    BY <2>1, <2>2, <2>3 DEF TypeOK
  <2>7. /\ reading' \in [File -> Content \cup {Closed, Torn}]
         /\ batches' \in 0..MaxCount /\ generation' \in 0..MaxCount
         /\ main' \in {"off", "building", "running", "stopping", "joining"}
         /\ seen' \in [Client -> Snapshot]
         /\ used' \in [Budget -> Nat]
    BY <2>1, <2>2, <2>3 DEF TypeOK
  <2>8. /\ outcome' \in {"none", "ok", "error"}
         /\ call' \in [Client -> {"none", "search", "status", "apply"}]
    BY <2>1, <2>2, <2>3 DEF TypeOK
  <2>9. TypeOK'
    BY <2>4, <2>5, <2>6, <2>7, <2>8 DEF TypeOK
  <2>10. Control'
    BY <1>31, ActorAssumption DEF TypeOK, Control, FinishStop
  <2> QED
    BY <2>9, <2>10
<1>32. CASE StopSaveFails
  <2>1. used' \in [Budget -> Nat]
    BY <1>32, SpendType DEF StopSaveFails, TypeOK, Budget
  <2>2. persisted' \in Snapshot \cup {NoIndex} /\ dirty' \in BOOLEAN
    BY <1>32 DEF StopSaveFails, TypeOK
  <2>3. /\ main' = "off" /\ outcome' = "error"
        /\ UNCHANGED <<environment, channel, worker, collected, lock, update, index,
                       batches, generation, lastError, clients>>
    BY <1>32 DEF StopSaveFails
  <2>4. TypeOK'
    BY <2>1, <2>2, <2>3 DEF TypeOK
  <2>5. Control'
    BY <1>32, ActorAssumption DEF TypeOK, Control, StopSaveFails
  <2> QED
    BY <2>4, <2>5
<1>33. CASE Crash
  <2>1. used' \in [Budget -> Nat]
    BY <1>33, SpendType DEF Crash, TypeOK, Budget
  <2>2. /\ root' = 1 /\ reports' = 0 /\ targets' = {} /\ staged' = NoEntries
        /\ reading' = [f \in File |-> Closed]
    BY <1>33 DEF Crash, ResetUpdate
  <2>3. TypeOK'
    BY <1>33, <2>1, <2>2, EmptyTypes, RootsAssumption, OptionsAssumption DEF TypeOK, Crash
  <2>4. Control'
    BY <1>33, <2>2, ActorAssumption DEF TypeOK, Control, Crash
  <2> QED
    BY <2>3, <2>4
<1>34. CASE UNCHANGED vars
  BY <1>34 DEF vars, TypeOK, Control
<1> QED
  BY <1>1, <1>2, <1>3, <1>4, <1>5, <1>6, <1>7, <1>8, <1>9, <1>10, <1>11, <1>12, <1>13, <1>14, <1>15,
     <1>16, <1>17, <1>18, <1>19, <1>20, <1>21, <1>22, <1>23, <1>24, <1>25, <1>26, <1>27, <1>28,
     <1>29, <1>30, <1>31, <1>32, <1>33, <1>34
     DEF Next, WatcherStep, WorkerStep, UpdateStep, CallerStep, StopStep, FaultStep,
         RequestStep, Terminated

-----------------------------------------------------------------------------
(* Searches *)

\* Return gives a client's call back and starts none.
LEMMA ReturnCalls ==
  ASSUME TypeOK, Control, NEW ok \in BOOLEAN, Return(ok)
  PROVE  /\ writer # NoOne
         /\ \A c \in Client : call'[c] \in {call[c], "none"}
<1>1. writer # NoOne /\ call \in [Client -> {"none", "search", "status", "apply"}]
  BY ReturnType, ActorAssumption DEF TypeOK
<1>2. call' = call \/ call' = [call EXCEPT ![writer] = "none"]
  BY ReturnType
<1> QED
  BY <1>1, <1>2

\* While a search runs nobody gets the write lock, and the index stays.
LEMMA SearchStep ==
  ASSUME TypeOK, Control, SearchInv, [Next]_vars
  PROVE  SearchInv'
<1>1. ASSUME UNCHANGED <<call, seen, writer, index>>
      PROVE  SearchInv'
  BY <1>1 DEF SearchInv
<1>2. ASSUME \A c \in Client : call'[c] # "search"
      PROVE  SearchInv'
  BY <1>2 DEF SearchInv
<1>3. ASSUME writer # NoOne,
             \A c \in Client : call'[c] \in {call[c], "none"}
      PROVE  SearchInv'
  BY <1>2, <1>3 DEF SearchInv
<1>4. ASSUME writer # NoOne, call' = call
      PROVE  SearchInv'
  BY <1>2, <1>4 DEF SearchInv
<1>5. ASSUME NEW ok \in BOOLEAN, Return(ok)
      PROVE  SearchInv'
  BY <1>3, <1>5, ReturnCalls
<1>6. CASE WatcherStep
  <2>1. UNCHANGED <<call, seen, writer, index>>
    BY <1>6 DEF WatcherStep, StoreOverflow, Deliver
  <2> QED
    BY <2>1, <1>1
<1>7. CASE WorkerStep
  <2>1. CASE WorkerReceives \/ WorkerCollects \/ DebounceEnds \/ PlanRoot \/ RecordFailure
    <3>1. UNCHANGED <<call, seen, writer, index>>
      BY <2>1 DEF WorkerReceives, WorkerCollects, DebounceEnds, PlanRoot, RecordFailure
    <3> QED
      BY <3>1, <1>1
  <2>2. CASE WorkerLocks
    <3>1. Readers = {} /\ call' = call
      BY <2>2 DEF WorkerLocks, LockFree
    <3> QED
      BY <3>1, <1>2 DEF Readers
  <2>3. CASE BatchApplied
    <3>1. Return(TRUE) \/ UNCHANGED <<call, seen, writer, index>>
      BY <2>3 DEF BatchApplied
    <3> QED
      BY <3>1, <1>1, <1>5
  <2> QED
    BY <1>7, <2>1, <2>2, <2>3 DEF WorkerStep
<1>8. CASE UpdateStep
  <2>1. ASSUME NEW f \in File, OpenFile(f) \/ FinishFile(f)
        PROVE  SearchInv'
    <3>1. UNCHANGED <<call, seen, writer, index>>
      BY <2>1 DEF OpenFile, FinishFile
    <3> QED
      BY <3>1, <1>1
  <2>2. CASE Install
    <3>1. writer # NoOne /\ call' = call
      BY <2>2 DEF Install, Control
    <3> QED
      BY <3>1, <1>4
  <2>3. CASE RecordReport \/ Save
    <3>1. UNCHANGED <<call, seen, writer, index>>
      BY <2>3 DEF RecordReport, Save
    <3> QED
      BY <3>1, <1>1
  <2>4. CASE BumpGeneration
    <3>1. Return(TRUE) \/ UNCHANGED <<call, seen, writer, index>>
      BY <2>4 DEF BumpGeneration
    <3> QED
      BY <3>1, <1>1, <1>5
  <2>5. CASE MarkClean
    <3>1. Return(TRUE)
      BY <2>5 DEF MarkClean
    <3> QED
      BY <3>1, <1>5
  <2> QED
    BY <1>8, <2>1, <2>2, <2>3, <2>4, <2>5 DEF UpdateStep
<1>9. CASE CallerStep
  <2> SUFFICES ASSUME NEW c \in Client, EndSearch(c) \/ ReadHealth(c)
               PROVE  SearchInv'
    BY <1>9 DEF CallerStep
  <2>1. /\ call' = [call EXCEPT ![c] = "none"]
        /\ seen' = [seen EXCEPT ![c] = NoEntries]
        /\ UNCHANGED <<writer, index>>
    BY DEF EndSearch, ReadHealth
  <2> QED
    BY <2>1 DEF SearchInv, TypeOK
<1>10. CASE StopStep
  <2>1. UNCHANGED <<call, seen, writer, index>>
    BY <1>10 DEF StopStep, SendStop, FinishStop
  <2> QED
    BY <2>1, <1>1
<1>11. CASE FaultStep
  <2>1. CASE KernelDrops \/ Escalate \/ StopSaveFails
    <3>1. UNCHANGED <<call, seen, writer, index>>
      BY <2>1 DEF KernelDrops, Escalate, StopSaveFails
    <3> QED
      BY <3>1, <1>1
  <2>2. CASE UpdateFails \/ SaveFails
    <3>1. Return(FALSE)
      BY <2>2 DEF UpdateFails, SaveFails
    <3> QED
      BY <3>1, <1>5
  <2>3. CASE WorkerPanics
    <3>1. writer # NoOne /\ call' = call
      BY <2>3, ActorAssumption DEF WorkerPanics
    <3> QED
      BY <3>1, <1>4
  <2>4. CASE Crash
    <3>1. call' = [c \in Client |-> "none"]
      BY <2>4 DEF Crash
    <3> QED
      BY <3>1, <1>2
  <2> QED
    BY <1>11, <2>1, <2>2, <2>3, <2>4 DEF FaultStep
<1>12. CASE RequestStep
  <2>1. ASSUME NEW f \in File, NEW c \in Content, NEW kind \in {"change", "structural"},
               WriteFile(f, c, kind)
        PROVE  SearchInv'
    <3>1. UNCHANGED <<call, seen, writer, index>>
      BY <2>1 DEF WriteFile
    <3> QED
      BY <3>1, <1>1
  <2>2. ASSUME NEW c \in Client, StartSearch(c) \/ ReadIndexStatus(c)
        PROVE  SearchInv'
    <3>1. /\ writer = NoOne
          /\ seen' = [seen EXCEPT ![c] = index]
          /\ UNCHANGED <<writer, index>>
      BY <2>2 DEF StartSearch, ReadIndexStatus
    <3>2. \A d \in Client \ {c} : call'[d] = call[d]
      BY <2>2 DEF StartSearch, ReadIndexStatus, TypeOK
    <3> QED
      BY <3>1, <3>2 DEF SearchInv, TypeOK
  <2>3. ASSUME NEW c \in Client, NEW r \in 1..NRoots, ApplyEvents(c, r)
        PROVE  SearchInv'
    <3>1. Readers = {} /\ call' = [call EXCEPT ![c] = "apply"]
      BY <2>3 DEF ApplyEvents, LockFree
    <3> QED
      BY <3>1, <1>2 DEF Readers, TypeOK
  <2>4. CASE Start
    <3>1. call' = call /\ main = "off"
      BY <2>4 DEF Start
    <3> QED
      BY <3>1, <1>2 DEF Control
  <2>5. CASE BeginStop
    <3>1. UNCHANGED <<call, seen, writer, index>>
      BY <2>5 DEF BeginStop
    <3> QED
      BY <3>1, <1>1
  <2> QED
    BY <1>12, <2>1, <2>2, <2>3, <2>4, <2>5 DEF RequestStep
<1>13. CASE UNCHANGED vars
  BY <1>13, <1>1 DEF vars
<1> QED
  BY <1>6, <1>7, <1>8, <1>9, <1>10, <1>11, <1>12, <1>13 DEF Next, Terminated

-----------------------------------------------------------------------------
(* Saves *)

\* RAM that differs from the file is dirty, reported, or about to be.
LEMMA UnsavedStep ==
  ASSUME TypeOK, Control, UnsavedInv, [Next]_vars
  PROVE  UnsavedInv' /\ (dirty /\ ~dirty' => persisted' = index' \/ main = "off")
<1> DEFINE Saved == dirty /\ ~dirty' => persisted' = index' \/ main = "off"
<1>1. ASSUME UNCHANGED <<main, stage, index, persisted, dirty, reports>>,
             lastError => lastError',
             worker = "failed" => worker' = "failed" \/ lastError'
      PROVE  UnsavedInv' /\ Saved
  BY <1>1 DEF UnsavedInv
<1>2. CASE WatcherStep
  <2>1. UNCHANGED <<main, stage, index, persisted, dirty, reports, lastError, worker>>
    BY <1>2 DEF WatcherStep, StoreOverflow, Deliver
  <2> QED
    BY <2>1, <1>1
<1>3. CASE WorkerStep
  <2>1. CASE WorkerReceives \/ WorkerCollects
    <3>1. /\ UNCHANGED <<main, stage, index, persisted, dirty, reports>>
          /\ worker # "failed"
          /\ lastError => lastError'
      BY <2>1 DEF WorkerReceives, WorkerCollects, Collect
    <3> QED
      BY <3>1, <1>1
  <2>2. CASE DebounceEnds
    <3>1. /\ UNCHANGED <<main, stage, index, persisted, dirty, reports, lastError>>
          /\ worker # "failed"
      BY <2>2 DEF DebounceEnds
    <3> QED
      BY <3>1, <1>1
  <2>3. CASE WorkerLocks
    <3>1. /\ UNCHANGED <<main, index, persisted, dirty, reports, lastError>>
          /\ stage = "idle" /\ stage' = "plan" /\ worker # "failed"
      BY <2>3 DEF WorkerLocks, LockFree, Control
    <3> QED
      BY <3>1 DEF UnsavedInv
  <2>4. CASE PlanRoot
    <3>1. /\ UNCHANGED <<main, index, persisted, dirty, reports, lastError, worker>>
          /\ stage = "plan" /\ stage' \in {"plan", "scan"}
      BY <2>4 DEF PlanRoot, BeginRebuild, BeginChangedFiles
    <3> QED
      BY <3>1 DEF UnsavedInv
  <2>5. CASE BatchApplied
    <3>1. /\ UNCHANGED <<index, persisted, dirty, lastError>>
          /\ stage = "plan" /\ worker # "failed" /\ writer = Worker
      BY <2>5 DEF BatchApplied, Control
    <3>2. CASE reports = 0
      <4>1. Return(TRUE)
        BY <2>5, <3>2 DEF BatchApplied
      <4>2. stage' = "idle" /\ reports' = 0 /\ main' = main
        BY <3>1, <4>1, ReturnType
      <4> QED
        BY <3>1, <3>2, <4>2 DEF UnsavedInv
    <3>3. CASE reports # 0
      <4>1. stage' = "record" /\ UNCHANGED <<main, reports, worker>>
        BY <2>5, <3>3 DEF BatchApplied
      <4> QED
        BY <3>1, <4>1 DEF UnsavedInv
    <3> QED
      BY <3>2, <3>3
  <2>6. CASE RecordFailure
    <3>1. /\ UNCHANGED <<main, stage, index, persisted, dirty, reports>>
          /\ lastError' = TRUE
      BY <2>6 DEF RecordFailure
    <3> QED
      BY <3>1, <1>1
  <2> QED
    BY <1>3, <2>1, <2>2, <2>3, <2>4, <2>5, <2>6 DEF WorkerStep
<1>4. CASE UpdateStep
  <2>1. ASSUME NEW f \in File, OpenFile(f) \/ FinishFile(f)
        PROVE  UnsavedInv' /\ Saved
    <3>1. UNCHANGED <<main, stage, index, persisted, dirty, reports, lastError, worker>>
      BY <2>1 DEF OpenFile, FinishFile
    <3> QED
      BY <3>1, <1>1
  <2>2. CASE Install
    <3>1. /\ UNCHANGED <<main, persisted, dirty, lastError, worker>>
          /\ stage' \in {"plan", "save", "record"}
          /\ stage' = "plan" => writer = Worker
          /\ stage' = "save" => writer = Main
      BY <2>2 DEF Install
    <3>2. writer = Worker => reports' > 0
      <4>1. reports \in Nat
        BY RootsAssumption DEF TypeOK
      <4>2. writer = Worker => reports' = reports + 1
        BY <2>2, ActorAssumption DEF Install
      <4> QED
        BY <4>1, <4>2
    <3>3. writer = Main => main' = "building"
      BY <3>1 DEF Control
    <3> QED
      BY <3>1, <3>2, <3>3 DEF UnsavedInv
  <2>3. CASE RecordReport
    <3>1. dirty' = TRUE /\ stage' = "generation"
      BY <2>3 DEF RecordReport
    <3> QED
      BY <3>1 DEF UnsavedInv
  <2>4. CASE BumpGeneration
    <3>1. /\ UNCHANGED <<index, persisted, dirty, lastError>>
          /\ stage = "generation" /\ writer # Main
      BY <2>4 DEF BumpGeneration, Control
    <3>2. /\ main' = main
          /\ stage' \in {"idle", "save", "record"}
      <4>1. CASE Return(TRUE)
        BY <3>1, <4>1, ReturnType
      <4>2. CASE ~Return(TRUE)
        BY <2>4, <4>2 DEF BumpGeneration
      <4> QED
        BY <4>1, <4>2
    <3> QED
      BY <3>1, <3>2 DEF UnsavedInv
  <2>5. CASE Save
    <3>1. UNCHANGED <<main, dirty>> /\ stage' = "saved" /\ persisted' = index /\ index' = index
      BY <2>5 DEF Save
    <3> QED
      BY <3>1 DEF UnsavedInv
  <2>6. CASE MarkClean
    <3>1. stage = "saved" /\ Return(TRUE) /\ UNCHANGED <<index, persisted>>
      BY <2>6 DEF MarkClean
    <3>2. stage' = "idle"
      BY <3>1, ReturnType
    <3> QED
      BY <3>1, <3>2 DEF UnsavedInv
  <2> QED
    BY <1>4, <2>1, <2>2, <2>3, <2>4, <2>5, <2>6 DEF UpdateStep
<1>5. CASE CallerStep
  <2>1. UNCHANGED <<main, stage, index, persisted, dirty, reports, lastError, worker>>
    BY <1>5 DEF CallerStep, EndSearch, ReadHealth
  <2> QED
    BY <2>1, <1>1
<1>6. CASE StopStep
  <2>1. CASE SendStop
    <3>1. /\ UNCHANGED <<stage, index, persisted, dirty, reports, lastError, worker>>
          /\ main = "stopping"
      BY <2>1 DEF SendStop
    <3> QED
      BY <3>1 DEF UnsavedInv
  <2>2. CASE FinishStop
    <3>1. main' = "off" /\ UNCHANGED <<stage, index>>
      BY <2>2 DEF FinishStop
    <3>2. persisted' = IF dirty THEN index ELSE persisted
      BY <2>2 DEF FinishStop
    <3> QED
      BY <3>1, <3>2 DEF UnsavedInv
  <2> QED
    BY <1>6, <2>1, <2>2 DEF StopStep
<1>7. CASE FaultStep
  <2>1. CASE KernelDrops
    <3>1. UNCHANGED <<main, stage, index, persisted, dirty, reports, lastError, worker>>
      BY <2>1 DEF KernelDrops
    <3> QED
      BY <3>1, <1>1
  <2>2. CASE Escalate
    <3>1. UNCHANGED <<main, stage, index, persisted, dirty, reports, lastError, worker>>
      BY <2>2 DEF Escalate, BeginRebuild
    <3> QED
      BY <3>1, <1>1
  <2>3. CASE UpdateFails
    <3>1. stage = "scan" /\ Return(FALSE) /\ UNCHANGED <<index, persisted, dirty, lastError>>
      BY <2>3 DEF UpdateFails
    <3>2. /\ stage' = "idle" /\ reports' = 0
          /\ writer \in Client \cup {Worker, Main}
          /\ writer = Worker => worker' = "failed"
          /\ writer = Main => main' = "off"
          /\ writer \in Client => UNCHANGED <<main, worker>> /\ reports = 0
      <4>1. stage' = "idle" /\ reports' = 0 /\ writer \in Client \cup {Worker, Main}
        BY <3>1, ReturnType
      <4>2. writer = Worker => worker' = "failed"
        BY <3>1, ActorAssumption DEF Return
      <4>3. writer = Main => main' = "off"
        BY <3>1, ActorAssumption DEF Return
      <4>4. writer \in Client => UNCHANGED <<main, worker>> /\ reports = 0
        BY <3>1, ActorAssumption, ReturnType DEF Control
      <4> QED
        BY <4>1, <4>2, <4>3, <4>4
    <3> QED
      BY <3>1, <3>2 DEF UnsavedInv
  <2>4. CASE SaveFails
    <3>1. /\ stage = "save" /\ Return(FALSE) /\ UNCHANGED <<index, dirty, lastError>>
          /\ persisted' \in {persisted, index}
      BY <2>4 DEF SaveFails
    <3>2. stage' = "idle"
      BY <3>1, ReturnType
    <3>3. writer = Main => main' = "off"
      BY <3>1, ActorAssumption DEF Return
    <3>4. writer # Main => main' = main
      BY <3>1, ReturnType, ActorAssumption
    <3> QED
      BY <3>1, <3>2, <3>3, <3>4 DEF UnsavedInv
  <2>5. CASE WorkerPanics
    <3>1. worker' = "failed" /\ stage' = "idle" /\ UNCHANGED dirty
      BY <2>5 DEF WorkerPanics
    <3> QED
      BY <3>1 DEF UnsavedInv
  <2>6. CASE StopSaveFails
    <3>1. /\ main' = "off" /\ UNCHANGED <<stage, index>>
          /\ persisted' = index \/ UNCHANGED dirty
          /\ main = "joining" /\ worker = "done"
      BY <2>6 DEF StopSaveFails
    <3>2. stage = "idle"
      BY <3>1, ActorAssumption DEF Control, TypeOK
    <3> QED
      BY <3>1, <3>2 DEF UnsavedInv
  <2>7. CASE Crash
    <3>1. main' = "off" /\ stage' = "idle" /\ UNCHANGED dirty
      BY <2>7 DEF Crash
    <3> QED
      BY <3>1 DEF UnsavedInv
  <2> QED
    BY <1>7, <2>1, <2>2, <2>3, <2>4, <2>5, <2>6, <2>7 DEF FaultStep
<1>8. CASE RequestStep
  <2>1. ASSUME NEW f \in File, NEW c \in Content, NEW kind \in {"change", "structural"},
               WriteFile(f, c, kind)
        PROVE  UnsavedInv' /\ Saved
    <3>1. UNCHANGED <<main, stage, index, persisted, dirty, reports, lastError, worker>>
      BY <2>1 DEF WriteFile
    <3> QED
      BY <3>1, <1>1
  <2>2. ASSUME NEW c \in Client, StartSearch(c) \/ ReadIndexStatus(c)
        PROVE  UnsavedInv' /\ Saved
    <3>1. UNCHANGED <<main, stage, index, persisted, dirty, reports, lastError, worker>>
      BY <2>2 DEF StartSearch, ReadIndexStatus
    <3> QED
      BY <3>1, <1>1
  <2>3. ASSUME NEW c \in Client, NEW r \in 1..NRoots, ApplyEvents(c, r)
        PROVE  UnsavedInv' /\ Saved
    <3>1. /\ UNCHANGED <<main, index, persisted, dirty, reports, lastError, worker>>
          /\ stage = "idle" /\ stage' = "scan"
      BY <2>3 DEF ApplyEvents, LockFree, Control, BeginRebuild, BeginChangedFiles
    <3> QED
      BY <3>1 DEF UnsavedInv
  <2>4. CASE Start
    <3>1. main = "off" /\ stage = "idle"
      BY <2>4 DEF Start, Control
    <3>2. \/ stage' = stage /\ index' = persisted' /\ persisted' = persisted
          \/ stage' = "scan" /\ main' = "building"
      BY <2>4 DEF Start, BeginRebuild
    <3> QED
      BY <3>1, <3>2 DEF UnsavedInv
  <2>5. CASE BeginStop
    <3>1. /\ UNCHANGED <<stage, index, persisted, dirty, reports, lastError, worker>>
          /\ main = "running"
      BY <2>5 DEF BeginStop
    <3> QED
      BY <3>1 DEF UnsavedInv
  <2> QED
    BY <1>8, <2>1, <2>2, <2>3, <2>4, <2>5 DEF RequestStep
<1>9. CASE UNCHANGED vars
  BY <1>9, <1>1 DEF vars
<1> QED
  BY <1>2, <1>3, <1>4, <1>5, <1>6, <1>7, <1>8, <1>9 DEF Next, Terminated

-----------------------------------------------------------------------------
(* The theorems *)

\* The inductive invariant the theorems below share.
SafeInv == TypeOK /\ Control /\ SearchInv /\ UnsavedInv

LEMMA SafeInvariant == Spec => []SafeInv
<1>1. Init => SafeInv
  <2> SUFFICES ASSUME Init PROVE SearchInv /\ UnsavedInv
    BY TypeInit DEF SafeInv
  <2>1. SearchInv
    BY DEF Init, SearchInv
  <2>2. UnsavedInv
    BY DEF Init, UnsavedInv
  <2> QED
    BY <2>1, <2>2
<1>2. SafeInv /\ [Next]_vars => SafeInv'
  BY TypeStep, SearchStep, UnsavedStep DEF SafeInv
<1> QED
  BY <1>1, <1>2, PTL DEF Spec

\* Every variable keeps its type: no batch counter leaves the range of a u64 and
\* the channel never holds more than event_buffer messages (runtime.rs, api.rs).
THEOREM TypeCorrect == Spec => []TypeOK
<1>1. SafeInv => TypeOK
  BY DEF SafeInv
<1> QED
  BY <1>1, SafeInvariant, PTL

\* A search reads one snapshot from its first file to its last, whatever the
\* worker, apply_events and stop do meanwhile (LiveIndex::search, api.rs).
THEOREM SearchIsolated == Spec => []SearchSeesOneSnapshot
<1>1. SafeInv => SearchSeesOneSnapshot
  BY DEF SafeInv, SearchInv, SearchSeesOneSnapshot
<1> QED
  BY <1>1, SafeInvariant, PTL

\* Once the write lock is free, entries that are not in the index file are
\* announced by dirty or by an error (record_update, apply_batch, stop).
THEOREM UnsavedAnnounced == Spec => []UnsavedIsKnown
<1>1. SafeInv => UnsavedIsKnown
  <2> SUFFICES ASSUME SafeInv, main \in {"running", "stopping", "joining"}, writer = NoOne
               PROVE  index = persisted \/ dirty \/ lastError \/ worker = "failed"
    BY DEF UnsavedIsKnown
  <2>1. stage = "idle" /\ reports = 0
    BY DEF SafeInv, Control
  <2> QED
    BY <2>1 DEF SafeInv, UnsavedInv
<1> QED
  BY <1>1, SafeInvariant, PTL

\* dirty is cleared only by a save that wrote the entries of the RAM index
\* (apply_batch, apply_events, start, stop), or when a new process starts.
THEOREM CleanIsSaved == Spec => CleanMeansSaved
<1>1. SafeInv /\ [Next]_vars =>
        [dirty /\ ~dirty' => persisted' = index' \/ main = "off"]_vars
  BY UnsavedStep DEF SafeInv
<1> QED
  BY <1>1, SafeInvariant, PTL DEF Spec, CleanMeansSaved

-----------------------------------------------------------------------------
(***************************************************************************)
(* No change is forgotten.  The invariant follows the knowledge that a     *)
(* file changed on its way from the notification to the entry.  Pending    *)
(* says where it is; StagedInv and IndexInv say that a file that is not    *)
(* pending is right, in the update that runs and in the index.             *)
(***************************************************************************)

\* The worker leaves its loop only on Stop, which only stop sends, or after a
\* panic, which is recorded.
LoopInv ==
  main \in {"building", "running", "stopping"} =>
    /\ Stop \notin Range(queue)
    /\ stopAfter => worker \in {"failed", "done"}
    /\ worker = "done" => lastError

\* Reports are recorded after the loop over the roots.
LateInv ==
  writer = Worker /\ stage \in {"record", "generation", "save", "saved"} =>
    root > NRoots

\* A change of f that no batch has collected, or that an error stands for.
Heard(f) == \/ \E e \in notices \cup Range(queue) : Covers(e, f)
            \/ callback = "full" \/ overflowed \/ lastError

\* A change of f in the batch the worker is collecting.
Batched(f) == force \/ \E e \in batch : Covers(e, f)

\* A change of f in the roots of the batch that are still to be planned.
Ahead(f) ==
  /\ writer = Worker
  /\ root <= NRoots
  /\ \/ force
     \/ \E e \in batch : /\ e.kind # "artifact"
                         /\ Covers(e, f)
                         /\ RootOf[e.file] >= root

Pending(f) == \/ Heard(f)
              \/ worker \in {"collect", "lock"} /\ Batched(f)
              \/ worker = "failed"
              \/ Ahead(f)

IndexInv(f) == index[f] = disk[f] \/ Pending(f)

StagedInv(f) ==
  IF f \in targets
    THEN reading[f] = Closed \/ reading[f] = disk[f] \/ Pending(f)
    ELSE staged[f] = disk[f] \/ Pending(f)

\* While the worker updates, the index it replaces may be old: its batch says so.
Fresh(f) ==
  /\ stage = "scan" => StagedInv(f)
  /\ stage # "scan" \/ writer \in Client => IndexInv(f)
  /\ stage = "scan" /\ writer = Worker => index[f] = disk[f] \/ Known(f)

FreshInv == RebuildOnStart /\ Watched => \A f \in File : Fresh(f)

USE DEF environment, channel, collected, lock, update, health, owner, clients

-----------------------------------------------------------------------------
(* The loop of the worker *)

\* A Return ends an update, and the loop only when Stop was received.
LEMMA ReturnLoop ==
  ASSUME TypeOK, Control, LoopInv, NEW ok \in BOOLEAN, Return(ok),
         UNCHANGED <<queue, stopAfter, lastError>>
  PROVE  LoopInv' /\ LateInv'
<1>1. writer' = NoOne
  BY DEF Return
<1>2. LateInv'
  BY <1>1, ActorAssumption DEF LateInv
<1>3. CASE writer = Worker
  <2>1. main' = main /\ worker = "apply"
    BY <1>3, ReturnType DEF Control
  <2>2. worker' = "failed" \/ worker' = IF stopAfter THEN "done" ELSE "recv"
    BY <1>3, ActorAssumption DEF Return, BatchOver
  <2> QED
    BY <1>2, <2>1, <2>2 DEF LoopInv
<1>4. CASE writer = Main
  <2>1. main = "building" /\ worker = "none" /\ main' \in {"off", "running"}
    BY <1>4, ReturnType DEF Control
  <2>2. worker' \in {"recv", "none"}
    BY <1>4, <2>1, ActorAssumption DEF Return
  <2> QED
    BY <1>2, <2>1, <2>2 DEF LoopInv
<1>5. CASE writer \in Client
  <2>1. UNCHANGED <<main, worker>>
    BY <1>5, ReturnType
  <2> QED
    BY <1>2, <2>1 DEF LoopInv
<1> QED
  BY <1>3, <1>4, <1>5, ReturnType

\* Every step keeps the loop going until Stop or a panic.
LEMMA LoopKept ==
  ASSUME TypeOK, Control, LoopInv, LateInv, [Next]_vars
  PROVE  LoopInv' /\ LateInv'
<1>1. ASSUME UNCHANGED <<main, queue, stopAfter, worker, lastError>>,
             UNCHANGED <<writer, stage, root>>
      PROVE  LoopInv' /\ LateInv'
  BY <1>1 DEF LoopInv, LateInv
<1>2. ASSUME main' \in {"off", "joining"},
             writer' = Worker => UNCHANGED <<writer, stage, root>>
      PROVE  LoopInv' /\ LateInv'
  BY <1>2 DEF LoopInv, LateInv
<1>3. CASE WatcherStep
  <2>1. CASE StoreOverflow
    <3>1. /\ UNCHANGED <<main, queue, stopAfter, worker, lastError>>
          /\ UNCHANGED <<writer, stage, root>>
      BY <2>1 DEF StoreOverflow
    <3> QED
      BY <3>1, <1>1
  <2>2. ASSUME NEW e \in Notice, Deliver(e)
        PROVE  LoopInv' /\ LateInv'
    <3>1. UNCHANGED <<main, stopAfter, worker, lastError, writer, stage, root>>
      BY <2>2 DEF Deliver
    <3>2. e # Stop /\ e \in Message
      BY DEF Notice, Event, Lost, Stop, Message
    <3>3. Range(queue') \subseteq Range(queue) \cup {e}
      <4>1. queue' = queue \/ queue' = Append(queue, e)
        BY <2>2 DEF Deliver
      <4> QED
        BY <4>1, <3>2, QueueAppend
    <3> QED
      BY <3>1, <3>2, <3>3 DEF LoopInv, LateInv
  <2> QED
    BY <1>3, <2>1, <2>2 DEF WatcherStep
<1>4. CASE WorkerStep
  <2>1. CASE WorkerReceives
    <3>1. /\ UNCHANGED <<main, stopAfter, writer, stage, root>>
          /\ worker = "recv" /\ queue # <<>> /\ queue' = Tail(queue)
          /\ Head(queue) # Stop => worker' = "collect"
      BY <2>1 DEF WorkerReceives
    <3>2. Range(queue) = Range(queue') \cup {Head(queue)}
      BY <3>1, QueueTail
    <3> QED
      BY <3>1, <3>2 DEF LoopInv, LateInv
  <2>2. CASE WorkerCollects
    <3>1. /\ UNCHANGED <<main, stopAfter, worker, writer, stage, root>>
          /\ worker = "collect" /\ queue # <<>> /\ queue' = Tail(queue)
      BY <2>2 DEF WorkerCollects
    <3>2. Range(queue) = Range(queue') \cup {Head(queue)}
      BY <3>1, QueueTail
    <3> QED
      BY <3>1, <3>2 DEF LoopInv, LateInv
  <2>3. CASE DebounceEnds
    <3>1. /\ UNCHANGED <<main, writer, stage, root>>
          /\ worker' = "lock"
          /\ \/ queue # <<>> /\ Head(queue) = Stop
             \/ UNCHANGED <<queue, stopAfter>>
          /\ worker = "collect"
      BY <2>3 DEF DebounceEnds
    <3>2. queue # <<>> => Head(queue) \in Range(queue)
      BY QueueTail
    <3> QED
      BY <3>1, <3>2 DEF LoopInv, LateInv
  <2>4. CASE WorkerLocks
    <3>1. /\ UNCHANGED <<main, queue, stopAfter, lastError>>
          /\ worker = "lock" /\ worker' = "apply" /\ stage' = "plan"
      BY <2>4 DEF WorkerLocks
    <3> QED
      BY <3>1 DEF LoopInv, LateInv
  <2>5. CASE PlanRoot
    <3>1. /\ UNCHANGED <<main, queue, stopAfter, worker, lastError>>
          /\ stage' \in {"plan", "scan"}
      BY <2>5 DEF PlanRoot, BeginRebuild, BeginChangedFiles
    <3> QED
      BY <3>1 DEF LoopInv, LateInv
  <2>6. CASE BatchApplied
    <3>1. CASE Return(TRUE)
      <4>1. UNCHANGED <<queue, stopAfter, lastError>>
        BY <2>6 DEF BatchApplied
      <4> QED
        BY <3>1, <4>1, ReturnLoop
    <3>2. CASE ~Return(TRUE)
      <4>1. /\ UNCHANGED <<main, queue, stopAfter, worker, lastError, root>>
            /\ root > NRoots
        BY <2>6, <3>2 DEF BatchApplied
      <4> QED
        BY <4>1 DEF LoopInv, LateInv
    <3> QED
      BY <3>1, <3>2
  <2>7. CASE RecordFailure
    <3>1. /\ UNCHANGED <<main, queue, stopAfter, writer, stage, root>>
          /\ lastError' = TRUE
      BY <2>7 DEF RecordFailure
    <3>2. worker' = IF stopAfter THEN "done" ELSE "recv"
      BY <2>7 DEF RecordFailure, BatchOver
    <3> QED
      BY <3>1, <3>2 DEF LoopInv, LateInv
  <2> QED
    BY <1>4, <2>1, <2>2, <2>3, <2>4, <2>5, <2>6, <2>7 DEF WorkerStep
<1>5. CASE UpdateStep
  <2>1. ASSUME NEW f \in File, OpenFile(f) \/ FinishFile(f)
        PROVE  LoopInv' /\ LateInv'
    <3>1. /\ UNCHANGED <<main, queue, stopAfter, worker, lastError>>
          /\ UNCHANGED <<writer, stage, root>>
      BY <2>1 DEF OpenFile, FinishFile
    <3> QED
      BY <3>1, <1>1
  <2>2. CASE Install
    <3>1. UNCHANGED <<main, queue, stopAfter, worker, lastError, writer>>
      BY <2>2 DEF Install
    <3>2. writer = Worker => stage' = "plan"
      BY <2>2 DEF Install
    <3> QED
      BY <3>1, <3>2 DEF LoopInv, LateInv
  <2>3. CASE RecordReport \/ Save
    <3>1. /\ UNCHANGED <<main, queue, stopAfter, worker, lastError, writer, root>>
          /\ stage \in {"record", "save"}
      BY <2>3 DEF RecordReport, Save
    <3> QED
      BY <3>1 DEF LoopInv, LateInv
  <2>4. CASE BumpGeneration
    <3>1. CASE Return(TRUE)
      <4>1. UNCHANGED <<queue, stopAfter, lastError>>
        BY <2>4 DEF BumpGeneration
      <4> QED
        BY <3>1, <4>1, ReturnLoop
    <3>2. CASE ~Return(TRUE)
      <4>1. /\ UNCHANGED <<main, queue, stopAfter, worker, lastError, writer, root>>
            /\ stage = "generation"
        BY <2>4, <3>2 DEF BumpGeneration
      <4> QED
        BY <4>1 DEF LoopInv, LateInv
    <3> QED
      BY <3>1, <3>2
  <2>5. CASE MarkClean
    <3>1. Return(TRUE) /\ UNCHANGED <<queue, stopAfter, lastError>>
      BY <2>5 DEF MarkClean
    <3> QED
      BY <3>1, ReturnLoop
  <2> QED
    BY <1>5, <2>1, <2>2, <2>3, <2>4, <2>5 DEF UpdateStep
<1>6. CASE CallerStep
  <2>1. /\ UNCHANGED <<main, queue, stopAfter, worker, lastError>>
        /\ UNCHANGED <<writer, stage, root>>
    BY <1>6 DEF CallerStep, EndSearch, ReadHealth
  <2> QED
    BY <2>1, <1>1
<1>7. CASE StopStep
  <2>1. /\ main' \in {"off", "joining"}
        /\ UNCHANGED <<writer, stage, root>>
    BY <1>7 DEF StopStep, SendStop, FinishStop
  <2> QED
    BY <2>1, <1>2
<1>8. CASE FaultStep
  <2>1. CASE KernelDrops \/ Escalate
    <3>1. /\ UNCHANGED <<main, queue, stopAfter, worker, lastError>>
          /\ UNCHANGED <<writer, root>>
          /\ UNCHANGED stage
      BY <2>1 DEF KernelDrops, Escalate, BeginRebuild
    <3> QED
      BY <3>1, <1>1
  <2>2. CASE UpdateFails \/ SaveFails
    <3>1. Return(FALSE) /\ UNCHANGED <<queue, stopAfter, lastError>>
      BY <2>2 DEF UpdateFails, SaveFails
    <3> QED
      BY <3>1, ReturnLoop
  <2>3. CASE WorkerPanics
    <3>1. /\ UNCHANGED <<main, queue, lastError>>
          /\ worker' = "failed" /\ writer' = NoOne
      BY <2>3 DEF WorkerPanics
    <3> QED
      BY <3>1, ActorAssumption DEF LoopInv, LateInv
  <2>4. CASE StopSaveFails
    <3>1. main' = "off" /\ UNCHANGED <<writer, stage, root>>
      BY <2>4 DEF StopSaveFails
    <3> QED
      BY <3>1, <1>2
  <2>5. CASE Crash
    <3>1. main' = "off" /\ writer' = NoOne
      BY <2>5 DEF Crash
    <3> QED
      BY <3>1, <1>2, ActorAssumption
  <2> QED
    BY <1>8, <2>1, <2>2, <2>3, <2>4, <2>5 DEF FaultStep
<1>9. CASE RequestStep
  <2>1. ASSUME NEW f \in File, NEW c \in Content, NEW kind \in {"change", "structural"},
               WriteFile(f, c, kind)
        PROVE  LoopInv' /\ LateInv'
    <3>1. /\ UNCHANGED <<main, queue, stopAfter, worker, lastError>>
          /\ UNCHANGED <<writer, stage, root>>
      BY <2>1 DEF WriteFile
    <3> QED
      BY <3>1, <1>1
  <2>2. ASSUME NEW c \in Client, StartSearch(c) \/ ReadIndexStatus(c)
        PROVE  LoopInv' /\ LateInv'
    <3>1. /\ UNCHANGED <<main, queue, stopAfter, worker, lastError>>
          /\ UNCHANGED <<writer, stage, root>>
      BY <2>2 DEF StartSearch, ReadIndexStatus
    <3> QED
      BY <3>1, <1>1
  <2>3. ASSUME NEW c \in Client, NEW r \in 1..NRoots, ApplyEvents(c, r)
        PROVE  LoopInv' /\ LateInv'
    <3>1. /\ UNCHANGED <<main, queue, stopAfter, worker, lastError>>
          /\ writer' = c
      BY <2>3 DEF ApplyEvents
    <3> QED
      BY <3>1, ActorAssumption DEF LoopInv, LateInv
  <2>4. CASE Start
    <3>1. queue' = <<>> /\ stopAfter' = FALSE /\ main = "off"
      BY <2>4 DEF Start
    <3>2. writer = NoOne /\ writer' \in {NoOne, Main}
      BY <2>4 DEF Start, Control
    <3>3. worker' \in {"none", "recv"}
      BY <2>4 DEF Start
    <3>4. Range(queue') = {}
      BY <3>1 DEF Range
    <3> QED
      BY <3>1, <3>2, <3>3, <3>4, ActorAssumption DEF LoopInv, LateInv
  <2>5. CASE BeginStop
    <3>1. /\ UNCHANGED <<queue, stopAfter, worker, lastError>>
          /\ UNCHANGED <<writer, stage, root>>
          /\ main = "running" /\ main' = "stopping"
      BY <2>5 DEF BeginStop
    <3> QED
      BY <3>1 DEF LoopInv, LateInv
  <2> QED
    BY <1>9, <2>1, <2>2, <2>3, <2>4, <2>5 DEF RequestStep
<1>10. CASE UNCHANGED vars
  BY <1>10, <1>1 DEF vars
<1> QED
  BY <1>3, <1>4, <1>5, <1>6, <1>7, <1>8, <1>9, <1>10 DEF Next, Terminated

-----------------------------------------------------------------------------
(* The knowledge of a change *)

\* A step that leaves the files and entries of f alone and loses no knowledge.
LEMMA FreshQuiet ==
  ASSUME NEW f \in File, Fresh(f),
         UNCHANGED <<stage, writer, index, staged, targets>>,
         UNCHANGED <<disk[f], reading[f]>>,
         Pending(f) => Pending(f)',
         writer = Worker /\ Known(f) => Known(f)'
  PROVE  Fresh(f)'
BY DEF Fresh, StagedInv, IndexInv

\* A step after which the change of f is still heard of.
LEMMA FreshHeard ==
  ASSUME NEW f \in File, Heard(f)'
  PROVE  Fresh(f)' /\ Pending(f)' /\ Known(f)'
<1>1. Pending(f)' /\ Known(f)'
  BY DEF Heard, Pending, Known
<1> QED
  BY <1>1 DEF Fresh, StagedInv, IndexInv

\* What is heard of is pending and known as long as the batch stays.
LEMMA HeardQuiet ==
  ASSUME NEW f \in File, Fresh(f), Heard(f) => Heard(f)',
         UNCHANGED <<stage, writer, index, staged, targets>>,
         UNCHANGED <<disk[f], reading[f]>>,
         UNCHANGED <<worker, batch, force, root>>
  PROVE  Fresh(f)'
<1>1. CASE Heard(f)
  BY <1>1, FreshHeard
<1>2. CASE ~Heard(f)
  <2>1. Pending(f) => Pending(f)'
    BY <1>2 DEF Pending, Batched, Ahead
  <2>2. Known(f) => Known(f)'
    BY <1>2 DEF Known, Heard
  <2> QED
    BY <2>1, <2>2, FreshQuiet
<1> QED
  BY <1>1, <1>2

\* The end of an update: what was not right in the index stays known.
LEMMA ReturnFresh ==
  ASSUME TypeOK, Control, NEW ok \in BOOLEAN, Return(ok),
         NEW f \in File, Fresh(f), Watched',
         UNCHANGED <<index, disk, callback, queue, overflowed, lastError>>,
         notices \subseteq notices',
         ok => stage # "scan",
         ok /\ writer = Worker => root > NRoots
  PROVE  Fresh(f)'
<1>1. writer' = NoOne /\ stage' = "idle"
  BY DEF Return
<1>2. SUFFICES IndexInv(f)'
  BY <1>1, ActorAssumption DEF Fresh
<1>3. Heard(f) => Heard(f)'
  BY DEF Heard
<1>4. CASE writer = Worker
  <2>1. CASE ok
    <3>1. root \in Nat /\ NRoots \in Nat
      BY RootsAssumption DEF TypeOK
    <3>2. IndexInv(f) /\ worker = "apply" /\ ~Ahead(f)
      BY <1>4, <2>1, <3>1 DEF Fresh, Control, Ahead
    <3> QED
      BY <1>3, <3>2 DEF IndexInv, Pending
  <2>2. CASE ~ok
    <3>1. worker' = "failed"
      BY <1>4, <2>2, ActorAssumption DEF Return
    <3> QED
      BY <3>1 DEF IndexInv, Pending
  <2> QED
    BY <2>1, <2>2
<1>5. CASE writer = Main
  <2>1. ok
    <3>1. ~ok => main' = "off"
      BY <1>5, ActorAssumption DEF Return
    <3> QED
      BY <3>1 DEF Watched
  <2>2. IndexInv(f) /\ worker = "none" /\ ~Ahead(f)
    BY <1>5, <2>1, ActorAssumption DEF Fresh, Control, Ahead
  <2> QED
    BY <1>3, <2>2 DEF IndexInv, Pending
<1>6. CASE writer \in Client
  <2>1. IndexInv(f) /\ ~Ahead(f)
    BY <1>6, ActorAssumption DEF Fresh, Ahead
  <2>2. UNCHANGED <<worker, batch, force>>
    BY <1>6, ActorAssumption DEF Return
  <2> QED
    BY <1>3, <2>1, <2>2 DEF IndexInv, Pending, Batched
<1> QED
  BY <1>4, <1>5, <1>6, ReturnType

-----------------------------------------------------------------------------
(* The channel *)

\* A notification is queued, or its loss is flagged, or nobody is left to read it.
LEMMA DeliverHeard ==
  ASSUME TypeOK, LoopInv, Watched, NEW e \in Notice, Deliver(e), NEW f \in File, Heard(f)
  PROVE  Heard(f)'
<1>1. UNCHANGED <<overflowed, lastError>> /\ notices' = notices \ {e}
  BY DEF Deliver
<1>2. CASE worker = "done"
  <2>1. lastError
    BY <1>2 DEF Deliver, Watched, LoopInv
  <2> QED
    BY <1>1, <2>1 DEF Heard
<1>3. CASE callback' = "full"
  BY <1>3 DEF Heard
<1>4. CASE worker # "done" /\ callback' # "full"
  <2>1. callback = "idle" /\ queue' = Append(queue, e)
    BY <1>4 DEF Deliver
  <2>2. Range(queue') = Range(queue) \cup {e}
    BY <2>1, QueueAppend DEF Message
  <2>3. notices \cup Range(queue) \subseteq notices' \cup Range(queue')
    BY <1>1, <2>2
  <2> QED
    BY <1>1, <2>1, <2>3 DEF Heard
<1> QED
  BY <1>2, <1>3, <1>4

\* A message that is not Stop goes from the queue into the batch.
LEMMA CollectHeard ==
  ASSUME TypeOK, queue # <<>>, queue' = Tail(queue), NEW events, NEW forced,
         Collect(Head(queue), events, forced), NEW f \in File,
         UNCHANGED <<notices, callback>>,
         overflowed => overflowed' \/ forced,
         Heard(f) \/ forced \/ \E e \in events : Covers(e, f)
  PROVE  Heard(f)' \/ Batched(f)'
<1>1. Range(queue) = Range(queue') \cup {Head(queue)}
  BY QueueTail
<1>2. /\ forced => force'
      /\ lastError => lastError'
      /\ events \subseteq batch'
      /\ Head(queue) = Lost => force'
      /\ Head(queue) # Lost => Head(queue) \in batch'
  BY DEF Collect
<1>3. CASE forced \/ \E e \in events : Covers(e, f)
  BY <1>2, <1>3 DEF Batched
<1>4. CASE callback = "full" \/ overflowed \/ lastError
  BY <1>2, <1>4 DEF Heard, Batched
<1>5. ASSUME NEW e \in notices \cup Range(queue), Covers(e, f)
      PROVE  Heard(f)' \/ Batched(f)'
  <2>1. CASE e \in notices' \cup Range(queue')
    BY <1>5, <2>1 DEF Heard
  <2>2. CASE e = Head(queue)
    BY <1>2, <1>5, <2>2 DEF Batched
  <2> QED
    BY <1>1, <2>1, <2>2
<1> QED
  BY <1>3, <1>4, <1>5 DEF Heard

-----------------------------------------------------------------------------
(* The loop over the roots *)

\* An event of the batch covers a file only if it names a file of some root.
LEMMA BatchCovers ==
  ASSUME TypeOK, NEW e \in batch, NEW f \in File, Covers(e, f)
  PROVE  /\ e.kind \in {"change", "structural"}
         /\ e.file \in File
         /\ RootOf[e.file] \in 1..NRoots
         /\ e.kind = "change" => e.file = f
<1>1. e \in Event
  BY DEF TypeOK
<1>2. e.kind \in {"change", "structural"} /\ e.file \in File
  BY <1>1 DEF Event, Covers
<1> QED
  BY <1>2, RootsAssumption DEF Covers

\* With the lock, the worker has the whole batch ahead of it.
LEMMA LockAhead ==
  ASSUME TypeOK, Control, WorkerLocks, NEW f \in File, Batched(f)
  PROVE  Ahead(f)'
<1>1. root = 1 /\ UNCHANGED <<root, batch, force>> /\ writer' = Worker
  BY DEF WorkerLocks, LockFree, Control
<1>2. CASE force
  BY <1>1, <1>2, RootsAssumption DEF Ahead
<1>3. ASSUME NEW e \in batch, Covers(e, f)
      PROVE  Ahead(f)'
  <2>1. e.kind # "artifact" /\ RootOf[e.file] >= 1
    BY <1>3, BatchCovers, RootsAssumption
  <2> QED
    BY <1>1, <1>3, <2>1, RootsAssumption DEF Ahead
<1> QED
  BY <1>2, <1>3 DEF Batched

\* A root that is not rescanned leaves ahead what its plan does not name.
LEMMA PlanAhead ==
  ASSUME TypeOK, ~force, ~Structural(root), root <= NRoots, writer = Worker,
         root' = root + 1, UNCHANGED <<writer, batch, force>>,
         NEW f \in File, f \notin {e.file : e \in Relevant(root)}, Ahead(f)
  PROVE  Ahead(f)'
<1>1. PICK e \in batch : /\ e.kind # "artifact"
                         /\ Covers(e, f)
                         /\ RootOf[e.file] >= root
  BY DEF Ahead
<1>2. /\ e.kind \in {"change", "structural"}
      /\ RootOf[e.file] \in 1..NRoots
      /\ e.kind = "change" => e.file = f
  BY <1>1, BatchCovers
<1>3. RootOf[e.file] # root
  <2> SUFFICES ASSUME RootOf[e.file] = root PROVE FALSE
    OBVIOUS
  <2>1. e \in Relevant(root)
    BY <1>1 DEF Relevant
  <2>2. e.kind # "structural"
    BY <2>1 DEF Structural
  <2> QED
    BY <1>2, <2>1, <2>2
<1>4. root \in Nat /\ NRoots \in Nat
  BY RootsAssumption DEF TypeOK
<1>5. RootOf[e.file] >= root + 1 /\ root + 1 <= NRoots
  BY <1>1, <1>2, <1>3, <1>4
<1> QED
  BY <1>1, <1>5 DEF Ahead

-----------------------------------------------------------------------------
(* The invariant *)

\* Outside of an update, Fresh is only about the index.
LEMMA FreshIdle ==
  ASSUME NEW f \in File, Fresh(f), stage # "scan", stage' # "scan",
         UNCHANGED <<index[f], disk[f]>>, Pending(f) => Pending(f)'
  PROVE  Fresh(f)'
BY DEF Fresh, IndexInv

\* The steps of the watcher and the file system.
LEMMA FreshNotice ==
  ASSUME TypeOK, Control, LoopInv, NEW f \in File, Fresh(f), Watched,
         \/ WatcherStep
         \/ KernelDrops
         \/ \E g \in File, c \in Content, kind \in {"change", "structural"} :
              WriteFile(g, c, kind)
  PROVE  Fresh(f)'
<1>1. CASE StoreOverflow
  <2>1. overflowed'
    BY <1>1 DEF StoreOverflow
  <2> QED
    BY <2>1, FreshHeard DEF Heard
<1>2. ASSUME NEW e \in Notice, Deliver(e)
      PROVE  Fresh(f)'
  <2>1. Heard(f) => Heard(f)'
    BY <1>2, DeliverHeard
  <2>2. /\ UNCHANGED <<stage, writer, index, staged, targets, disk, reading>>
        /\ UNCHANGED <<worker, batch, force, root>>
    BY <1>2 DEF Deliver
  <2> QED
    BY <2>1, <2>2, HeardQuiet
<1>3. CASE KernelDrops
  <2>1. /\ UNCHANGED <<stage, writer, index, staged, targets, disk, reading>>
        /\ UNCHANGED <<worker, batch, force, root, queue>>
        /\ Lost \in notices'
    BY <1>3 DEF KernelDrops
  <2>2. Covers(Lost, f)
    BY DEF Covers, Lost
  <2> QED
    BY <2>1, <2>2, FreshHeard DEF Heard
<1>4. ASSUME NEW g \in File, NEW c \in Content, NEW kind \in {"change", "structural"},
             WriteFile(g, c, kind)
      PROVE  Fresh(f)'
  <2>1. /\ UNCHANGED <<stage, writer, index, staged, targets>>
        /\ UNCHANGED <<worker, batch, force, root, queue, callback, overflowed, lastError>>
        /\ notices' = notices \cup {[kind |-> kind, file |-> g]}
        /\ disk' = [disk EXCEPT ![g] = c]
        /\ \E x : reading' = [reading EXCEPT ![g] = x]
    BY <1>4 DEF WriteFile, Watched, Watching
  <2>2. CASE f = g
    <3>1. Covers([kind |-> kind, file |-> g], f)
      BY <2>2 DEF Covers
    <3> QED
      BY <2>1, <3>1, FreshHeard DEF Heard
  <2>3. CASE f # g
    <3>1. UNCHANGED <<disk[f], reading[f]>>
      BY <2>1, <2>3 DEF TypeOK, Snapshot
    <3>2. Heard(f) => Heard(f)'
      BY <2>1 DEF Heard
    <3> QED
      BY <2>1, <3>1, <3>2, HeardQuiet
  <2> QED
    BY <2>2, <2>3
<1> QED
  BY <1>1, <1>2, <1>3, <1>4 DEF WatcherStep

\* The steps of the worker up to its lock.
LEMMA FreshCollect ==
  ASSUME TypeOK, Control, LoopInv, NEW f \in File, Fresh(f), Watched,
         WorkerReceives \/ WorkerCollects \/ DebounceEnds \/ WorkerLocks
  PROVE  Fresh(f)'
<1>1. CASE WorkerReceives \/ WorkerCollects
  <2>1. /\ UNCHANGED <<stage, writer, index, staged, targets, disk, reading>>
        /\ UNCHANGED <<root, notices, callback>>
        /\ worker \in {"recv", "collect"} /\ queue # <<>> /\ queue' = Tail(queue)
    BY <1>1 DEF WorkerReceives, WorkerCollects
  <2>2. Head(queue) # Stop
    BY <2>1, QueueTail DEF LoopInv, Watched
  <2>3. worker' = "collect"
    BY <1>1, <2>2 DEF WorkerReceives, WorkerCollects
  <2>4. writer # Worker
    BY <2>1 DEF Control
  <2>5. Pending(f) => Heard(f)' \/ Batched(f)'
    <3>1. CASE WorkerReceives
      <4>1. Collect(Head(queue), {}, overflowed)
        BY <3>1, <2>2 DEF WorkerReceives
      <4>2. worker = "recv"
        BY <3>1 DEF WorkerReceives
      <4>3. Pending(f) => Heard(f)
        BY <2>4, <4>2 DEF Pending, Ahead
      <4> QED
        BY <2>1, <4>1, <4>3, CollectHeard
    <3>2. CASE WorkerCollects
      <4>1. Collect(Head(queue), batch, force) /\ UNCHANGED overflowed
        BY <3>2 DEF WorkerCollects
      <4>2. worker = "collect"
        BY <3>2 DEF WorkerCollects
      <4>3. Pending(f) => Heard(f) \/ force \/ \E e \in batch : Covers(e, f)
        BY <2>4, <4>2 DEF Pending, Ahead, Batched
      <4> QED
        BY <2>1, <4>1, <4>3, CollectHeard
    <3> QED
      BY <1>1, <3>1, <3>2
  <2>6. Pending(f) => Pending(f)'
    BY <2>3, <2>5 DEF Pending
  <2> QED
    BY <2>1, <2>4, <2>6, FreshQuiet
<1>2. CASE DebounceEnds
  <2>1. /\ UNCHANGED <<stage, writer, index, staged, targets, disk, reading>>
        /\ UNCHANGED <<root, notices, callback, batch, lastError>>
        /\ worker = "collect" /\ worker' = "lock"
        /\ \/ queue # <<>> /\ Head(queue) = Stop
           \/ UNCHANGED queue
    BY <1>2 DEF DebounceEnds
  <2>2. UNCHANGED queue
    BY <2>1, QueueTail DEF LoopInv, Watched
  <2>3. (force => force') /\ (overflowed => force')
    BY <1>2 DEF DebounceEnds
  <2>4. writer # Worker
    BY <2>1 DEF Control
  <2>5. Pending(f) => Pending(f)'
    BY <2>1, <2>2, <2>3, <2>4 DEF Pending, Heard, Batched, Ahead
  <2> QED
    BY <2>1, <2>4, <2>5, FreshQuiet
<1>3. CASE WorkerLocks
  <2>1. /\ UNCHANGED <<index, disk, notices, queue, callback, overflowed, lastError>>
        /\ worker = "lock" /\ writer = NoOne /\ stage' = "plan"
    BY <1>3 DEF WorkerLocks, LockFree
  <2>2. stage # "scan"
    BY <2>1 DEF Control
  <2>3. Heard(f) => Heard(f)'
    BY <2>1 DEF Heard
  <2>4. Batched(f) => Ahead(f)'
    BY <1>3, LockAhead
  <2>5. Pending(f) => Pending(f)'
    BY <2>1, <2>3, <2>4, ActorAssumption DEF Pending, Ahead
  <2> QED
    BY <2>1, <2>2, <2>5, FreshIdle
<1> QED
  BY <1>1, <1>2, <1>3

\* A root is planned: what its plan reads is closed, what it leaves out is right
\* or still ahead.
LEMMA FreshPlan ==
  ASSUME TypeOK, Control, NEW f \in File, Fresh(f), PlanRoot
  PROVE  Fresh(f)'
<1>1. /\ writer = Worker /\ stage = "plan" /\ root <= NRoots
      /\ UNCHANGED <<writer, index, disk, notices, queue, callback, overflowed>>
      /\ UNCHANGED <<lastError, worker, batch, force, reading>>
  BY DEF PlanRoot
<1>2. worker' = "apply" /\ writer' \notin Client
  BY <1>1, ActorAssumption DEF Control
<1>3. IndexInv(f) /\ reading[f] = Closed
  BY <1>1 DEF Fresh, Control
<1>4. Heard(f) => Heard(f)'
  BY <1>1 DEF Heard
<1>5. index[f] = disk[f] \/ Known(f)'
  <2>1. Ahead(f) => Batched(f)
    BY DEF Ahead, Batched
  <2>2. index[f] = disk[f] \/ Heard(f) \/ Batched(f)
    BY <1>1, <1>2, <1>3, <2>1 DEF IndexInv, Pending
  <2> QED
    BY <1>1, <1>2, <2>2 DEF Heard, Batched, Known
<1>6. CASE f \in targets' /\ stage' = "scan"
  BY <1>1, <1>2, <1>3, <1>5, <1>6 DEF Fresh, StagedInv
<1>7. CASE (force \/ Structural(root)) /\ BeginRebuild
  BY <1>6, <1>7 DEF BeginRebuild
<1>8. ASSUME ~force, ~Structural(root), root' = root + 1,
             f \notin {e.file : e \in Relevant(root)}
      PROVE  IndexInv(f)'
  <2>1. Ahead(f) => Ahead(f)'
    BY <1>1, <1>8, PlanAhead
  <2> QED
    BY <1>1, <1>2, <1>3, <1>4, <2>1 DEF IndexInv, Pending
<1>9. CASE /\ ~force /\ ~Structural(root) /\ root' = root + 1
           /\ BeginChangedFiles({e.file : e \in Relevant(root)} \cap File)
  <2>1. /\ stage' = "scan" /\ staged' = index
        /\ targets' = {e.file : e \in Relevant(root)} \cap File
    BY <1>9 DEF BeginChangedFiles
  <2>2. CASE f \notin targets'
    <3>1. IndexInv(f)'
      BY <1>8, <1>9, <2>1, <2>2
    <3> QED
      BY <1>1, <1>2, <1>5, <2>1, <2>2, <3>1 DEF Fresh, StagedInv, IndexInv
  <2> QED
    BY <1>6, <2>1, <2>2
<1>10. CASE /\ ~force /\ Relevant(root) = {} /\ root' = root + 1
            /\ UNCHANGED <<stage, targets, staged>>
  <2>1. IndexInv(f)'
    BY <1>8, <1>10 DEF Structural
  <2> QED
    BY <1>1, <1>10, <2>1 DEF Fresh
<1> QED
  BY <1>7, <1>9, <1>10 DEF PlanRoot

\* The steps of an update, for whoever runs it.
LEMMA FreshUpdate ==
  ASSUME TypeOK, Control, LateInv, NEW f \in File, Fresh(f), Watched,
         Watched',
         UpdateStep \/ Escalate \/ UpdateFails \/ SaveFails \/ WorkerPanics
  PROVE  Fresh(f)'
<1>1. ASSUME NEW g \in File, OpenFile(g) \/ FinishFile(g)
      PROVE  Fresh(f)'
  <2>1. /\ UNCHANGED <<stage, writer, index, disk, notices, queue, callback>>
        /\ UNCHANGED <<overflowed, lastError, worker, batch, force, root>>
        /\ stage = "scan" /\ g \in targets
    BY <1>1 DEF OpenFile, FinishFile
  <2>2. (Pending(f) => Pending(f)') /\ (Known(f) => Known(f)')
    BY <2>1 DEF Pending, Heard, Batched, Ahead, Known
  <2>3. StagedInv(f)
    BY <2>1 DEF Fresh
  <2>4. StagedInv(f)'
    <3>1. CASE f # g
      <4>1. UNCHANGED <<reading[f], staged[f]>> /\ (f \in targets' <=> f \in targets)
        BY <1>1, <3>1 DEF OpenFile, FinishFile, TypeOK, Snapshot
      <4> QED
        BY <2>1, <2>2, <2>3, <4>1 DEF StagedInv
    <3>2. CASE f = g /\ OpenFile(g)
      <4>1. reading'[f] = disk[f] /\ f \in targets'
        BY <3>2 DEF OpenFile, TypeOK
      <4> QED
        BY <2>1, <4>1 DEF StagedInv
    <3>3. CASE f = g /\ FinishFile(g)
      <4>1. /\ f \notin targets' /\ reading[f] # Closed
            /\ staged'[f] = IF reading[f] = Torn THEN Absent ELSE reading[f]
        BY <3>3 DEF FinishFile, TypeOK, Snapshot
      <4>2. disk[f] # Torn
        BY ContentAssumption DEF TypeOK, Snapshot
      <4>3. reading[f] = disk[f] \/ Pending(f)
        BY <2>1, <2>3, <3>3, <4>1 DEF StagedInv
      <4> QED
        BY <2>1, <2>2, <4>1, <4>2, <4>3 DEF StagedInv
    <3> QED
      BY <1>1, <3>1, <3>2, <3>3
  <2> QED
    BY <2>1, <2>2, <2>4 DEF Fresh, IndexInv
<1>2. CASE Escalate
  <2>1. /\ UNCHANGED <<writer, index, disk, notices, queue, callback>>
        /\ UNCHANGED <<overflowed, lastError, worker, batch, force, root>>
        /\ stage = "scan" /\ stage' = "scan" /\ targets' = File
        /\ reading' = [g \in File |-> Closed]
    BY <1>2 DEF Escalate, BeginRebuild
  <2>2. (Pending(f) => Pending(f)') /\ (Known(f) => Known(f)')
    BY <2>1 DEF Pending, Heard, Batched, Ahead, Known
  <2> QED
    BY <2>1, <2>2 DEF Fresh, StagedInv, IndexInv
<1>3. CASE Install
  <2>1. /\ UNCHANGED <<writer, disk, notices, queue, callback>>
        /\ UNCHANGED <<overflowed, lastError, worker, batch, force, root>>
        /\ stage = "scan" /\ targets = {} /\ index' = staged
        /\ stage' # "scan"
    BY <1>3 DEF Install
  <2>2. Pending(f) => Pending(f)'
    BY <2>1 DEF Pending, Heard, Batched, Ahead
  <2>3. staged[f] = disk[f] \/ Pending(f)
    BY <2>1 DEF Fresh, StagedInv
  <2> QED
    BY <2>1, <2>2, <2>3 DEF Fresh, IndexInv
<1>4. CASE RecordReport \/ Save
  <2>1. /\ UNCHANGED <<writer, index, disk, queue, callback>>
        /\ UNCHANGED <<overflowed, lastError, worker, batch, force, root>>
        /\ stage # "scan" /\ stage' # "scan"
        /\ notices \subseteq notices'
    BY <1>4, SaveNotices DEF RecordReport, Save, TypeOK
  <2>2. Pending(f) => Pending(f)'
    BY <2>1 DEF Pending, Heard, Batched, Ahead
  <2> QED
    BY <2>1, <2>2, FreshIdle
<1>5. CASE BumpGeneration \/ MarkClean
  <2>1. /\ UNCHANGED <<index, disk, notices, queue, callback, overflowed, lastError>>
        /\ stage \in {"generation", "saved"}
    BY <1>5 DEF BumpGeneration, MarkClean
  <2>2. CASE Return(TRUE)
    <3>1. writer = Worker => root > NRoots
      BY <2>1 DEF LateInv
    <3>2. notices \subseteq notices'
      BY <2>1
    <3> QED
      BY <2>1, <2>2, <3>1, <3>2, ReturnFresh
  <2>3. CASE ~Return(TRUE)
    <3>1. UNCHANGED <<writer, worker, batch, force, root>> /\ stage' # "scan"
      BY <1>5, <2>3 DEF BumpGeneration, MarkClean
    <3>2. Pending(f) => Pending(f)'
      BY <2>1, <3>1 DEF Pending, Heard, Batched, Ahead
    <3> QED
      BY <2>1, <3>1, <3>2, FreshIdle
  <2> QED
    BY <2>2, <2>3
<1>6. CASE UpdateFails \/ SaveFails
  <2>1. Return(FALSE)
    BY <1>6 DEF UpdateFails, SaveFails
  <2>2. UNCHANGED <<index, disk, queue, callback, overflowed, lastError>>
    BY <1>6 DEF UpdateFails, SaveFails
  <2>3. notices \subseteq notices'
    BY <1>6, SaveNotices DEF UpdateFails, SaveFails, TypeOK
  <2> QED
    BY <2>1, <2>2, <2>3, ReturnFresh
<1>7. CASE WorkerPanics
  <2>1. worker' = "failed" /\ stage' = "idle"
    BY <1>7 DEF WorkerPanics
  <2> QED
    BY <2>1 DEF Fresh, IndexInv, Pending
<1> QED
  BY <1>1, <1>2, <1>3, <1>4, <1>5, <1>6, <1>7 DEF UpdateStep

\* The steps of the callers, and the process that starts.
LEMMA FreshCaller ==
  ASSUME TypeOK, Control, NEW f \in File, Watched => Fresh(f),
         RebuildOnStart, Watched',
         CallerStep \/ RequestStep,
         \A g \in File, c \in Content, kind \in {"change", "structural"} :
           ~WriteFile(g, c, kind)
  PROVE  Fresh(f)'
<1>1. ASSUME NEW c \in Client,
             EndSearch(c) \/ ReadHealth(c) \/ StartSearch(c) \/ ReadIndexStatus(c)
      PROVE  Fresh(f)'
  <2>1. /\ UNCHANGED <<stage, writer, index, staged, targets, disk, reading, main>>
        /\ UNCHANGED <<worker, batch, force, root, notices, queue, callback>>
        /\ UNCHANGED <<overflowed, lastError>>
    BY <1>1 DEF EndSearch, ReadHealth, StartSearch, ReadIndexStatus
  <2>2. Watched /\ (Heard(f) => Heard(f)')
    BY <2>1 DEF Watched, Heard
  <2> QED
    BY <2>1, <2>2, HeardQuiet
<1>2. ASSUME NEW c \in Client, NEW r \in 1..NRoots, ApplyEvents(c, r)
      PROVE  Fresh(f)'
  <2>1. /\ UNCHANGED <<index, disk, reading>>
        /\ UNCHANGED <<worker, batch, force, root, notices, queue, callback>>
        /\ UNCHANGED <<overflowed, lastError>>
        /\ main = "running" /\ writer = NoOne /\ writer' = c
        /\ BeginRebuild \/ \E files \in SUBSET FilesOf(r) : BeginChangedFiles(files)
    BY <1>2 DEF ApplyEvents, LockFree
  <2>2. stage = "idle" /\ writer' # Worker /\ reading[f] = Closed
    BY <2>1, ActorAssumption DEF Control
  <2>3. IndexInv(f)
    BY <2>1, <2>2 DEF Fresh, Watched
  <2>4. Pending(f) => Pending(f)'
    BY <2>1, ActorAssumption DEF Pending, Heard, Batched, Ahead
  <2>5. f \in targets' \/ staged' = index
    BY <2>1 DEF BeginRebuild, BeginChangedFiles
  <2> QED
    BY <2>1, <2>2, <2>3, <2>4, <2>5 DEF Fresh, StagedInv, IndexInv
<1>3. CASE Start
  <2>1. main = "off" /\ UNCHANGED reading
    BY <1>3 DEF Start
  <2>2. reading[f] = Closed
    BY <2>1 DEF Control
  <2>3. stage' = "scan" /\ targets' = File /\ writer' = Main
    BY <1>3 DEF Start, BeginRebuild
  <2> QED
    BY <2>1, <2>2, <2>3, ActorAssumption DEF Fresh, StagedInv
<1>4. CASE BeginStop
  BY <1>4 DEF BeginStop, Watched
<1> QED
  BY <1>1, <1>2, <1>3, <1>4 DEF CallerStep, RequestStep

\* Every step keeps the knowledge of every change.
LEMMA FreshKept ==
  ASSUME TypeOK, Control, LoopInv, LateInv, FreshInv, [Next]_vars
  PROVE  FreshInv'
<1> SUFFICES ASSUME RebuildOnStart, Watched', NEW f \in File
             PROVE  Fresh(f)'
  BY DEF FreshInv
<1>1. Watched => Fresh(f)
  BY DEF FreshInv
<1>2. CASE StopStep \/ StopSaveFails \/ Crash
  BY <1>2 DEF StopStep, SendStop, FinishStop, StopSaveFails, Crash, Watched
<1>3. CASE CallerStep \/ RequestStep
  <2>1. ASSUME NEW g \in File, NEW c \in Content, NEW kind \in {"change", "structural"},
               WriteFile(g, c, kind)
        PROVE  Fresh(f)'
    <3>1. Watched
      BY <2>1 DEF WriteFile, Watched
    <3> QED
      BY <1>1, <2>1, <3>1, FreshNotice
  <2> QED
    BY <1>1, <1>3, <2>1, FreshCaller
<1>4. CASE WatcherStep \/ KernelDrops
  <2>1. UNCHANGED main
    BY <1>4 DEF WatcherStep, StoreOverflow, Deliver, KernelDrops
  <2>2. Watched
    BY <2>1 DEF Watched
  <2> QED
    BY <1>1, <1>4, <2>2, FreshNotice
<1>5. CASE WorkerReceives \/ WorkerCollects \/ DebounceEnds \/ WorkerLocks
  <2>1. UNCHANGED main
    BY <1>5 DEF WorkerReceives, WorkerCollects, DebounceEnds, WorkerLocks
  <2>2. Watched
    BY <2>1 DEF Watched
  <2> QED
    BY <1>1, <1>5, <2>2, FreshCollect
<1>6. CASE PlanRoot
  <2>1. UNCHANGED main
    BY <1>6 DEF PlanRoot
  <2>2. Watched
    BY <2>1 DEF Watched
  <2> QED
    BY <1>1, <1>6, <2>2, FreshPlan
<1>7. CASE BatchApplied
  <2>1. /\ UNCHANGED <<index, disk, notices, queue, callback, overflowed, lastError>>
        /\ stage = "plan" /\ root > NRoots /\ writer = Worker
    BY <1>7 DEF BatchApplied
  <2>2. UNCHANGED main
    <3>1. Return(TRUE) => UNCHANGED main
      BY <2>1, ReturnType
    <3> QED
      BY <1>7, <3>1 DEF BatchApplied
  <2>3. Watched /\ Fresh(f)
    BY <1>1, <2>2 DEF Watched
  <2>4. CASE Return(TRUE)
    <3>1. notices \subseteq notices'
      BY <2>1
    <3> QED
      BY <2>1, <2>3, <2>4, <3>1, ReturnFresh
  <2>5. CASE ~Return(TRUE)
    <3>1. UNCHANGED <<writer, worker, batch, force, root>> /\ stage' = "record"
      BY <1>7, <2>5 DEF BatchApplied
    <3>2. Pending(f) => Pending(f)'
      BY <2>1, <3>1 DEF Pending, Heard, Batched, Ahead
    <3> QED
      BY <2>1, <2>3, <3>1, <3>2, FreshIdle
  <2> QED
    BY <2>4, <2>5
<1>8. CASE RecordFailure
  <2>1. lastError'
    BY <1>8 DEF RecordFailure
  <2> QED
    BY <2>1, FreshHeard DEF Heard
<1>9. CASE UpdateStep \/ Escalate \/ UpdateFails \/ SaveFails \/ WorkerPanics
  <2>1. Watched
    <3>1. CASE Return(TRUE) \/ Return(FALSE)
      <4>1. UNCHANGED main \/ writer = Main
        BY <3>1, ReturnType
      <4> QED
        BY <4>1 DEF Watched, Control
    <3>2. CASE ~(Return(TRUE) \/ Return(FALSE))
      <4>1. UNCHANGED main
        BY <1>9, <3>2 DEF UpdateStep, OpenFile, FinishFile, Install, RecordReport,
             BumpGeneration, Save, MarkClean, Escalate, UpdateFails, SaveFails, WorkerPanics
      <4> QED
        BY <4>1 DEF Watched
    <3> QED
      BY <3>1, <3>2
  <2> QED
    BY <1>1, <1>9, <2>1, FreshUpdate
<1>10. CASE UNCHANGED vars
  <2>1. /\ UNCHANGED <<stage, writer, index, staged, targets, disk, reading, main>>
        /\ UNCHANGED <<worker, batch, force, root, notices, queue, callback>>
        /\ UNCHANGED <<overflowed, lastError>>
    BY <1>10 DEF vars
  <2>2. Watched /\ (Heard(f) => Heard(f)')
    BY <2>1 DEF Watched, Heard
  <2> QED
    BY <1>1, <2>1, <2>2, HeardQuiet
<1> QED
  BY <1>2, <1>3, <1>4, <1>5, <1>6, <1>7, <1>8, <1>9, <1>10
  DEF Next, WorkerStep, FaultStep, Terminated

-----------------------------------------------------------------------------
(* The theorem *)

\* The inductive invariant.
StaleInv == SafeInv /\ LoopInv /\ LateInv /\ FreshInv

LEMMA StaleInvariant == Spec => []StaleInv
<1>1. Init => LoopInv /\ LateInv /\ FreshInv
  <2> SUFFICES ASSUME Init PROVE LoopInv /\ LateInv /\ FreshInv
    OBVIOUS
  <2>1. main = "off" /\ writer = NoOne
    BY DEF Init
  <2> QED
    BY <2>1, ActorAssumption DEF LoopInv, LateInv, FreshInv, Watched
<1>2. SafeInv /\ LoopInv /\ LateInv /\ FreshInv /\ [Next]_vars
        => LoopInv' /\ LateInv' /\ FreshInv'
  BY LoopKept, FreshKept DEF SafeInv
<1> QED
  BY <1>1, <1>2, SafeInvariant, PTL DEF Spec, StaleInv

\* No silent staleness, for any number of files, roots and callers and any size
\* of the queue: from start to stop a file differs from its entry only while the
\* change is on its way to the worker, in its batch, in the overflow flag or in
\* an error (start, the watcher callback, live_worker, apply_batch).
THEOREM NoSilentStaleness == Spec => []StaleIsKnown
<1>1. StaleInv => StaleIsKnown
  <2> SUFFICES ASSUME StaleInv, main = "running", RebuildOnStart, NEW f \in File
               PROVE  index[f] = disk[f] \/ Known(f)
    BY DEF StaleIsKnown
  <2>1. Fresh(f) /\ Control
    BY DEF StaleInv, FreshInv, Watched, SafeInv
  <2>2. Pending(f) => Known(f)
    <3>1. Ahead(f) => worker = "apply" /\ Batched(f)
      BY <2>1 DEF Ahead, Batched, Control
    <3> QED
      BY <3>1 DEF Pending, Heard, Batched, Known
  <2>3. CASE stage = "scan" /\ writer = Worker
    BY <2>1, <2>3 DEF Fresh
  <2>4. CASE stage # "scan" \/ writer \in Client
    BY <2>1, <2>2, <2>4 DEF Fresh, IndexInv
  <2>5. stage = "scan" => writer \in Client \cup {Worker}
    BY <2>1 DEF StaleInv, SafeInv, TypeOK, Control
  <2> QED
    BY <2>3, <2>4, <2>5
<1> QED
  BY <1>1, StaleInvariant, PTL

-----------------------------------------------------------------------------
(***************************************************************************)
(* CleanStop: a stop that returns Ok has left nothing of its past behind,  *)
(* neither in the channel nor in memory.                                   *)
(*                                                                         *)
(* The channel holds the message of stop once, behind every message sent   *)
(* before it, so the worker that receives it has received all of those.  A *)
(* watcher that ends late may send more behind it.  A worker that ended    *)
(* for another reason has recorded an error, and stop returns it.          *)
(***************************************************************************)

OneStop == \E i \in 1..Len(queue) :
             \A j \in 1..Len(queue) : queue[j] = Stop <=> j = i

\* While stop joins the worker: Stop is on its way, or was received.
DrainInv ==
  main = "joining" =>
    \/ lastError \/ worker = "failed"
    \/ IF stopAfter \/ worker = "done" THEN Stop \notin Range(queue) ELSE OneStop

\* The result of a stop is about the process that ended.
OutcomeInv ==
  /\ main # "off" => outcome = "none"
  /\ main = "off" /\ outcome = "ok" => Stop \notin Range(queue) /\ persisted = index

-----------------------------------------------------------------------------
(* The last message *)

\* The send of Stop puts the only one into the channel.
LEMMA AppendStop ==
  ASSUME TypeOK, Stop \notin Range(queue), queue' = Append(queue, Stop)
  PROVE  OneStop'
<1>1. queue \in Seq(Message) /\ Len(queue) \in Nat
  BY DEF TypeOK
<1>2. \A i \in 1..Len(queue) : queue[i] # Stop
  BY <1>1 DEF Range
<1>3. /\ Len(queue') = Len(queue) + 1
      /\ \A i \in 1..Len(queue) : queue'[i] = queue[i]
      /\ queue'[Len(queue) + 1] = Stop
  BY <1>1 DEF Message
<1>4. Len(queue) + 1 \in 1..Len(queue')
  BY <1>1, <1>3
<1>5. ASSUME NEW j \in 1..Len(queue')
      PROVE  queue'[j] = Stop <=> j = Len(queue) + 1
  <2>1. j \in 1..Len(queue) \/ j = Len(queue) + 1
    BY <1>1, <1>3
  <2>2. j \in 1..Len(queue) => j # Len(queue) + 1
    BY <1>1
  <2> QED
    BY <1>2, <1>3, <2>1, <2>2, Zenon
<1> QED
  BY <1>4, <1>5, Zenon DEF OneStop

\* What a late watcher sends behind it is something else.
LEMMA AppendOther ==
  ASSUME TypeOK, OneStop, NEW e \in Notice, queue' = Append(queue, e)
  PROVE  OneStop'
<1>1. e \in Message /\ e # Stop
  BY DEF Notice, Event, Lost, Stop, Message
<1>2. /\ queue \in Seq(Message) /\ Len(queue) \in Nat
      /\ Len(queue') = Len(queue) + 1
      /\ \A j \in 1..Len(queue) : queue'[j] = queue[j]
      /\ queue'[Len(queue) + 1] = e
  <2>1. queue \in Seq(Message)
    BY DEF TypeOK
  <2> QED
    BY <1>1, <2>1
<1>3. PICK i \in 1..Len(queue) : \A j \in 1..Len(queue) : queue[j] = Stop <=> j = i
  BY DEF OneStop
<1>4. i \in 1..Len(queue') /\ i # Len(queue) + 1
  BY <1>2
<1>5. ASSUME NEW j \in 1..Len(queue')
      PROVE  queue'[j] = Stop <=> j = i
  <2>1. j \in 1..Len(queue) \/ j = Len(queue) + 1
    BY <1>2
  <2> QED
    BY <1>1, <1>2, <1>3, <1>4, <2>1, Zenon
<1> QED
  BY <1>4, <1>5, Zenon DEF OneStop

\* The receipt of the only Stop leaves none, that of another message leaves it.
LEMMA TailStop ==
  ASSUME TypeOK, OneStop, queue' = Tail(queue)
  PROVE  IF Head(queue) = Stop THEN Stop \notin Range(queue') ELSE OneStop'
<1>1. PICK i \in 1..Len(queue) : \A j \in 1..Len(queue) : queue[j] = Stop <=> j = i
  BY DEF OneStop
<1>2. /\ queue \in Seq(Message) /\ Len(queue) \in Nat \ {0}
      /\ Head(queue) = queue[1]
      /\ queue' \in Seq(Message)
      /\ Len(queue') = Len(queue) - 1
      /\ \A j \in 1..(Len(queue) - 1) : queue'[j] = queue[j + 1]
  <2>1. queue \in Seq(Message)
    BY DEF TypeOK
  <2>2. queue # <<>>
    BY <1>1
  <2> QED
    BY <2>1, <2>2
<1>3. 1 \in 1..Len(queue)
  BY <1>2
<1>4. Head(queue) = Stop <=> i = 1
  BY <1>1, <1>2, <1>3, Zenon
<1>5. ASSUME NEW j \in 1..Len(queue')
      PROVE  queue'[j] = Stop <=> j + 1 = i
  <2>1. j \in 1..(Len(queue) - 1) /\ j + 1 \in 1..Len(queue)
    BY <1>2
  <2> QED
    BY <1>1, <1>2, <2>1, Zenon
<1>6. CASE i = 1
  <2>1. \A j \in 1..Len(queue') : j + 1 # i
    BY <1>2, <1>6
  <2>2. \A j \in 1..Len(queue') : queue'[j] # Stop
    BY <1>5, <2>1, Zenon
  <2>3. DOMAIN queue' = 1..Len(queue')
    BY <1>2
  <2> QED
    BY <1>4, <1>6, <2>2, <2>3, Zenon DEF Range
<1>7. CASE i # 1
  <2>1. i - 1 \in 1..Len(queue')
    BY <1>2, <1>7
  <2>2. \A j \in 1..Len(queue') : j + 1 = i <=> j = i - 1
    BY <1>2
  <2>3. \A j \in 1..Len(queue') : queue'[j] = Stop <=> j = i - 1
    BY <1>5, <2>2, Zenon
  <2> QED
    BY <1>4, <1>7, <2>1, <2>3, Zenon DEF OneStop
<1> QED
  BY <1>6, <1>7

-----------------------------------------------------------------------------
(* The worker drains the channel *)

\* The end of a batch ends the loop exactly when Stop was received.
LEMMA ReturnDrain ==
  ASSUME TypeOK, Control, DrainInv, NEW ok \in BOOLEAN, Return(ok),
         UNCHANGED <<queue, stopAfter, lastError>>
  PROVE  DrainInv'
<1>1. CASE writer = Worker
  <2>1. main' = main /\ worker = "apply"
    BY <1>1, ReturnType DEF Control
  <2>2. worker' = "failed" \/ worker' = IF stopAfter THEN "done" ELSE "recv"
    BY <1>1, ActorAssumption DEF Return, BatchOver
  <2> QED
    BY <2>1, <2>2 DEF DrainInv, OneStop
<1>2. CASE writer = Main
  <2>1. main' \in {"off", "running"}
    BY <1>2, ReturnType
  <2> QED
    BY <2>1 DEF DrainInv
<1>3. CASE writer \in Client
  <2>1. UNCHANGED <<main, worker>>
    BY <1>3, ReturnType
  <2> QED
    BY <2>1 DEF DrainInv, OneStop
<1> QED
  BY <1>1, <1>2, <1>3, ReturnType

LEMMA DrainKept ==
  ASSUME TypeOK, Control, LoopInv, DrainInv, [Next]_vars
  PROVE  DrainInv'
<1>1. ASSUME main = "joining" => UNCHANGED <<queue, stopAfter, worker, lastError>>,
             main' = "joining" => main = "joining"
      PROVE  DrainInv'
  BY <1>1 DEF DrainInv, OneStop
<1>2. ASSUME Return(TRUE) \/ Return(FALSE), UNCHANGED <<queue, stopAfter, lastError>>
      PROVE  DrainInv'
  BY <1>2, ReturnDrain
<1>3. CASE WatcherStep
  <2>1. CASE StoreOverflow
    BY <1>1, <2>1 DEF StoreOverflow
  <2>2. ASSUME NEW e \in Notice, Deliver(e)
        PROVE  DrainInv'
    <3>1. UNCHANGED <<main, stopAfter, worker, lastError>>
      BY <2>2 DEF Deliver
    <3>2. CASE UNCHANGED queue
      BY <1>1, <3>1, <3>2
    <3>3. CASE worker # "done" /\ queue' = Append(queue, e)
      <4>1. e \in Message /\ e # Stop
        BY DEF Notice, Event, Lost, Stop, Message
      <4>2. Stop \notin Range(queue) => Stop \notin Range(queue')
        BY <3>3, <4>1, QueueAppend
      <4>3. OneStop => OneStop'
        BY <3>3, AppendOther
      <4> QED
        BY <3>1, <4>2, <4>3 DEF DrainInv
    <3> QED
      BY <2>2, <3>2, <3>3 DEF Deliver
  <2> QED
    BY <1>3, <2>1, <2>2 DEF WatcherStep
<1>4. CASE WorkerStep
  <2>1. ASSUME queue # <<>>, queue' = Tail(queue), Stop \notin Range(queue)
        PROVE  Stop \notin Range(queue') /\ Head(queue) # Stop
    BY <2>1, QueueTail
  <2>2. CASE WorkerReceives
    <3>1. /\ UNCHANGED <<main, stopAfter>> /\ queue' = Tail(queue) /\ queue # <<>>
          /\ worker = "recv"
          /\ IF Head(queue) = Stop THEN worker' = "done" ELSE worker' = "collect"
          /\ lastError => lastError'
      BY <2>2 DEF WorkerReceives, Collect
    <3> QED
      BY <2>1, <3>1, TailStop DEF DrainInv
  <2>3. CASE WorkerCollects
    <3>1. /\ UNCHANGED <<main, stopAfter, worker>> /\ queue' = Tail(queue)
          /\ queue # <<>> /\ Head(queue) # Stop /\ worker = "collect"
          /\ lastError => lastError'
      BY <2>3 DEF WorkerCollects, Collect
    <3> QED
      BY <2>1, <3>1, TailStop DEF DrainInv
  <2>4. CASE DebounceEnds
    <3>1. /\ UNCHANGED <<main, lastError>>
          /\ worker = "collect" /\ worker' = "lock"
          /\ \/ /\ queue # <<>> /\ Head(queue) = Stop
                /\ queue' = Tail(queue) /\ stopAfter' = TRUE
             \/ UNCHANGED <<queue, stopAfter>>
      BY <2>4 DEF DebounceEnds
    <3>2. CASE UNCHANGED <<queue, stopAfter>>
      BY <3>1, <3>2 DEF DrainInv, OneStop
    <3>3. CASE /\ queue # <<>> /\ Head(queue) = Stop
               /\ queue' = Tail(queue) /\ stopAfter' = TRUE
      BY <2>1, <3>1, <3>3, TailStop DEF DrainInv
    <3> QED
      BY <3>1, <3>2, <3>3
  <2>5. CASE WorkerLocks
    <3>1. /\ UNCHANGED <<main, queue, stopAfter, lastError>>
          /\ worker = "lock" /\ worker' = "apply"
      BY <2>5 DEF WorkerLocks
    <3> QED
      BY <3>1 DEF DrainInv, OneStop
  <2>6. CASE PlanRoot
    BY <1>1, <2>6 DEF PlanRoot
  <2>7. CASE BatchApplied
    <3>1. CASE Return(TRUE)
      BY <1>2, <2>7, <3>1 DEF BatchApplied
    <3>2. CASE ~Return(TRUE)
      BY <1>1, <2>7, <3>2 DEF BatchApplied
    <3> QED
      BY <3>1, <3>2
  <2>8. CASE RecordFailure
    BY <2>8 DEF RecordFailure, DrainInv
  <2> QED
    BY <1>4, <2>2, <2>3, <2>4, <2>5, <2>6, <2>7, <2>8 DEF WorkerStep
<1>5. CASE UpdateStep
  <2>1. CASE Return(TRUE)
    <3>1. CASE BumpGeneration \/ MarkClean
      BY <1>2, <2>1, <3>1 DEF BumpGeneration, MarkClean
    <3>2. CASE ~(BumpGeneration \/ MarkClean)
      BY <1>1, <1>5, <3>2 DEF UpdateStep, OpenFile, FinishFile, Install, RecordReport, Save
    <3> QED
      BY <3>1, <3>2
  <2>2. CASE ~Return(TRUE)
    BY <1>1, <1>5, <2>2 DEF UpdateStep, OpenFile, FinishFile, Install, RecordReport,
       BumpGeneration, Save, MarkClean
  <2> QED
    BY <2>1, <2>2
<1>6. CASE CallerStep
  BY <1>1, <1>6 DEF CallerStep, EndSearch, ReadHealth
<1>7. CASE SendStop
  <2>1. /\ main = "stopping" /\ UNCHANGED <<worker, stopAfter, lastError>>
        /\ worker = "done" \/ queue' = Append(queue, Stop)
    BY <1>7 DEF SendStop
  <2>2. /\ Stop \notin Range(queue)
        /\ stopAfter => worker \in {"failed", "done"}
        /\ worker = "done" => lastError
    BY <2>1 DEF LoopInv
  <2>3. CASE worker = "done"
    BY <2>1, <2>2, <2>3 DEF DrainInv
  <2>4. CASE worker # "done"
    <3>1. OneStop'
      BY <2>1, <2>2, <2>4, AppendStop
    <3> QED
      BY <2>1, <2>2, <2>4, <3>1 DEF DrainInv
  <2> QED
    BY <2>3, <2>4
<1>8. CASE FinishStop \/ StopSaveFails \/ Crash
  BY <1>8 DEF FinishStop, StopSaveFails, Crash, DrainInv
<1>9. CASE KernelDrops \/ Escalate
  BY <1>1, <1>9 DEF KernelDrops, Escalate
<1>10. CASE UpdateFails \/ SaveFails
  BY <1>2, <1>10 DEF UpdateFails, SaveFails
<1>11. CASE WorkerPanics
  BY <1>11 DEF WorkerPanics, DrainInv
<1>12. CASE RequestStep
  BY <1>1, <1>12 DEF RequestStep, WriteFile, StartSearch, ReadIndexStatus, ApplyEvents,
     Start, BeginStop
<1>13. CASE UNCHANGED vars
  BY <1>1, <1>13 DEF vars
<1> QED
  BY <1>3, <1>4, <1>5, <1>6, <1>7, <1>8, <1>9, <1>10, <1>11, <1>12, <1>13
  DEF Next, StopStep, FaultStep, Terminated

-----------------------------------------------------------------------------
(* The result of stop *)

\* Nothing touches the channel or the index of a process that ended.
LEMMA OutcomeKept ==
  ASSUME TypeOK, Control, UnsavedInv, DrainInv, OutcomeInv, [Next]_vars
  PROVE  OutcomeInv'
<1>1. ASSUME UNCHANGED <<main, outcome, queue, persisted, index>>
      PROVE  OutcomeInv'
  BY <1>1 DEF OutcomeInv
<1>2. ASSUME main # "off", outcome' = outcome
      PROVE  OutcomeInv'
  BY <1>2 DEF OutcomeInv
<1>3. ASSUME writer # NoOne, outcome' = outcome
      PROVE  OutcomeInv'
  BY <1>2, <1>3 DEF Control
<1>4. CASE WatcherStep
  <2>1. CASE StoreOverflow
    BY <1>1, <2>1 DEF StoreOverflow
  <2>2. ASSUME NEW e \in Notice, Deliver(e)
        PROVE  OutcomeInv'
    BY <1>2, <2>2 DEF Deliver, Watching
  <2> QED
    BY <1>4, <2>1, <2>2 DEF WatcherStep
<1>5. CASE WorkerStep
  <2>1. CASE PlanRoot \/ BatchApplied
    BY <1>3, <2>1, ActorAssumption DEF PlanRoot, BatchApplied
  <2>2. CASE WorkerReceives \/ WorkerCollects \/ DebounceEnds \/ WorkerLocks \/ RecordFailure
    <3>1. main # "off" /\ outcome' = outcome
      BY <2>2 DEF WorkerReceives, WorkerCollects, DebounceEnds, WorkerLocks, RecordFailure, Control
    <3> QED
      BY <1>2, <3>1
  <2> QED
    BY <1>5, <2>1, <2>2 DEF WorkerStep
<1>6. CASE UpdateStep \/ Escalate \/ UpdateFails \/ SaveFails \/ WorkerPanics
  <2>1. writer # NoOne
    BY <1>6 DEF UpdateStep, OpenFile, FinishFile, Install, RecordReport, BumpGeneration,
       Save, MarkClean, Escalate, UpdateFails, SaveFails, WorkerPanics, Control
  <2>2. outcome' = outcome
    BY <1>6 DEF UpdateStep, OpenFile, FinishFile, Install, RecordReport, BumpGeneration,
       Save, MarkClean, Escalate, UpdateFails, SaveFails, WorkerPanics
  <2> QED
    BY <1>3, <2>1, <2>2
<1>7. CASE CallerStep
  BY <1>1, <1>7 DEF CallerStep, EndSearch, ReadHealth
<1>8. CASE FinishStop
  <2>1. /\ main = "joining" /\ main' = "off" /\ worker = "done"
        /\ outcome' = IF lastError THEN "error" ELSE "ok"
        /\ UNCHANGED <<queue, index>>
        /\ \/ dirty /\ persisted' = index
           \/ ~dirty /\ persisted' = persisted
    BY <1>8 DEF FinishStop
  <2>2. writer = NoOne /\ stage = "idle" /\ reports = 0
    BY <2>1 DEF Control, TypeOK
  <2>3. ~lastError => Stop \notin Range(queue)
    BY <2>1 DEF DrainInv
  <2>4. ~lastError => persisted' = index'
    BY <2>1, <2>2 DEF UnsavedInv
  <2> QED
    BY <2>1, <2>3, <2>4 DEF OutcomeInv
<1>9. CASE StopSaveFails
  BY <1>9 DEF StopSaveFails, OutcomeInv
<1>10. CASE SendStop \/ Crash \/ KernelDrops
  <2>1. main # "off" /\ outcome' = outcome
    BY <1>10 DEF SendStop, Crash, KernelDrops, Watching
  <2> QED
    BY <1>2, <2>1
<1>11. CASE RequestStep
  <2>1. ASSUME NEW f \in File, NEW c \in Content, NEW kind \in {"change", "structural"},
               WriteFile(f, c, kind)
        PROVE  OutcomeInv'
    BY <1>1, <2>1 DEF WriteFile
  <2>2. ASSUME NEW c \in Client,
               \/ StartSearch(c) \/ ReadIndexStatus(c)
               \/ \E r \in 1..NRoots : ApplyEvents(c, r)
        PROVE  OutcomeInv'
    BY <1>1, <2>2 DEF StartSearch, ReadIndexStatus, ApplyEvents
  <2>3. CASE Start
    BY <2>3 DEF Start, OutcomeInv
  <2>4. CASE BeginStop
    <3>1. main = "running" /\ outcome' = outcome
      BY <2>4 DEF BeginStop
    <3> QED
      BY <1>2, <3>1
  <2> QED
    BY <1>11, <2>1, <2>2, <2>3, <2>4 DEF RequestStep
<1>12. CASE UNCHANGED vars
  BY <1>1, <1>12 DEF vars
<1> QED
  BY <1>4, <1>5, <1>6, <1>7, <1>8, <1>9, <1>10, <1>11, <1>12
  DEF Next, StopStep, FaultStep, Terminated

\* The inductive invariant.
StopInv == StaleInv /\ DrainInv /\ OutcomeInv

LEMMA StopInvariant == Spec => []StopInv
<1>1. Init => DrainInv /\ OutcomeInv
  <2> SUFFICES ASSUME Init PROVE DrainInv /\ OutcomeInv
    OBVIOUS
  <2>1. main = "off" /\ outcome = "none"
    BY DEF Init
  <2> QED
    BY <2>1 DEF DrainInv, OutcomeInv
<1>2. StaleInv /\ DrainInv /\ OutcomeInv /\ [Next]_vars => DrainInv' /\ OutcomeInv'
  BY DrainKept, OutcomeKept DEF StaleInv, SafeInv
<1> QED
  BY <1>1, <1>2, StaleInvariant, PTL DEF Spec, StopInv

\* A stop that returned Ok has let the worker receive its message and with it
\* every message sent before, no batch is half done and the entries in RAM are
\* saved, for any size of the channel, any number of roots and a watcher that may
\* deliver until stop returns: what it sends behind that message goes with the
\* channel (LiveIndex::stop_inner, live_worker, apply_batch).
THEOREM StopIsClean == Spec => []CleanStop
<1>1. StopInv => CleanStop
  BY DEF StopInv, StaleInv, SafeInv, Control, OutcomeInv, CleanStop
<1> QED
  BY <1>1, StopInvariant, PTL

=============================================================================
