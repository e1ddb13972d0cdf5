------------------------- MODULE IndexUpdateProofs -------------------------
(***************************************************************************)
(* For all files, contents, limits and workers: an index keeps within its  *)
(* limits, an operation changes only what it should and reports what it    *)
(* changed.  When no file is written and nothing fails while it runs, its  *)
(* outcome does not depend on the workers: it is accepted exactly if the   *)
(* index it should give is within the limits, and then gives that index.   *)
(***************************************************************************)
EXTENDS IndexUpdate, FiniteSetTheorems, TLAPS

-----------------------------------------------------------------------------
(* Sets *)

\* The size of a set of which a part is replaced by something else.
LEMMA Exchange ==
  ASSUME NEW S, IsFiniteSet(S), NEW T \in SUBSET S,
         NEW U, IsFiniteSet(U), (S \ T) \cap U = {}
  PROVE  Cardinality((S \ T) \cup U) = Cardinality(S) - Cardinality(T) + Cardinality(U)
<1>1. IsFiniteSet(S \ T) /\ Cardinality(S \ T) = Cardinality(S) - Cardinality(T)
  <2>1. S \cap T = T
    OBVIOUS
  <2> QED
    BY <2>1, FS_Difference
<1>2. Cardinality((S \ T) \cup U)
        = Cardinality(S \ T) + Cardinality(U) - Cardinality((S \ T) \cap U)
  BY <1>1, FS_Union
<1>3. Cardinality((S \ T) \cap U) = 0
  BY FS_EmptySet
<1>4. /\ Cardinality(S) \in Nat /\ Cardinality(T) \in Nat /\ Cardinality(U) \in Nat
      /\ Cardinality(S \ T) \in Nat
  BY <1>1, FS_Subset, FS_CardinalityType
<1> QED
  BY <1>1, <1>2, <1>3, <1>4

\* A part of a finite set, and what is left of the set.
LEMMA PartAndRest ==
  ASSUME NEW S, IsFiniteSet(S), NEW T \in SUBSET S
  PROVE  /\ IsFiniteSet(T)
         /\ Cardinality(S) \in Nat /\ Cardinality(T) \in Nat
         /\ Cardinality(T) <= Cardinality(S)
         /\ Cardinality(S \ T) = Cardinality(S) - Cardinality(T)
<1>1. S \cap T = T
  OBVIOUS
<1> QED
  BY <1>1, FS_Difference, FS_Subset, FS_CardinalityType

\* A set that grows by at most one element.
LEMMA OneMore ==
  ASSUME NEW S, IsFiniteSet(S), NEW x, NEW T \in SUBSET (S \cup {x})
  PROVE  /\ IsFiniteSet(T)
         /\ Cardinality(T) \in Nat /\ Cardinality(S) \in Nat
         /\ Cardinality(T) <= Cardinality(S) + 1
<1>1. IsFiniteSet(S \cup {x}) /\ Cardinality(S \cup {x}) <= Cardinality(S) + 1
  <2>1. /\ IsFiniteSet(S \cup {x})
        /\ Cardinality(S \cup {x}) \in {Cardinality(S), Cardinality(S) + 1}
    BY FS_AddElement
  <2>2. Cardinality(S) \in Nat
    BY FS_CardinalityType
  <2> QED
    BY <2>1, <2>2
<1>2. IsFiniteSet(T) /\ Cardinality(T) <= Cardinality(S \cup {x})
  BY <1>1, FS_Subset
<1> QED
  BY <1>1, <1>2, FS_CardinalityType

-----------------------------------------------------------------------------
(* Bytes and entries *)

AllBytes == File \X (1..MaxSize)

LEMMA BytesAreFinite ==
  /\ IsFiniteSet(AllBytes)
  /\ \A e, files : files \subseteq File =>
       /\ Bytes(e, files) \subseteq AllBytes
       /\ IsFiniteSet(Bytes(e, files))
       /\ Total(e, files) \in Nat
<1>1. IsFiniteSet(AllBytes)
  <2>1. IsFiniteSet(File) /\ 1 \in Int /\ MaxSize \in Int
    BY UpdateAssumption
  <2>2. IsFiniteSet(1..MaxSize)
    BY <2>1, FS_Interval
  <2> QED
    BY <2>1, <2>2, FS_Product DEF AllBytes
<1>2. \A e, files : files \subseteq File => Bytes(e, files) \subseteq AllBytes
  BY DEF Bytes, AllBytes
<1> QED
  BY <1>1, <1>2, FS_Subset, FS_CardinalityType DEF Total

LEMMA IndexedIsFinite ==
  ASSUME NEW e, NEW S \in SUBSET File
  PROVE  /\ Indexed(e) \subseteq File /\ IsFiniteSet(Indexed(e))
         /\ IsFiniteSet(S) /\ Cardinality(S) \in Nat /\ Cardinality(Indexed(e)) \in Nat
<1>1. Indexed(e) \subseteq File
  BY DEF Indexed
<1> QED
  BY <1>1, UpdateAssumption, FS_Subset, FS_CardinalityType

LEMMA BytesHave ==
  ASSUME NEW e, NEW files, NEW f, NEW b
  PROVE  <<f, b>> \in Bytes(e, files) <=> f \in files /\ b \in 1..MaxSize /\ b <= Size[e[f]]
BY DEF Bytes

LEMMA SizeFacts ==
  /\ \A c \in Content \cup {Absent} : Size[c] \in 0..MaxSize /\ Size[c] \in Nat
  /\ Size[Absent] = 0
BY UpdateAssumption

\* Files that are not indexed have no bytes.
LEMMA BytesOfIndexed ==
  ASSUME NEW e \in Contents
  PROVE  Bytes(e, File) = Bytes(e, Indexed(e))
<1>1. ASSUME NEW f \in File, NEW b \in 1..MaxSize, b <= Size[e[f]]
      PROVE  f \in Indexed(e)
  BY <1>1, UpdateAssumption DEF Indexed, Contents
<1> QED
  BY <1>1 DEF Bytes, Indexed

\* What replacing the affected entries does to the entries and the bytes.
LEMMA ReplacedFacts ==
  ASSUME entries \in Contents, collected \in Contents,
         plan.changed \subseteq File, plan.removed \subseteq File, missing \subseteq File
  PROVE  /\ Replaced \in Contents
         /\ Indexed(Replaced) = (Indexed(entries) \ OldEntries) \cup Changed
         /\ Cardinality(Indexed(Replaced)) = NextLen
         /\ Total(Replaced, File)
              = Total(entries, File) - Total(entries, OldEntries) + Total(collected, Changed)
         /\ Total(entries, OldEntries) <= Total(entries, File)
<1>1. /\ Changed \subseteq File /\ Affected \subseteq File /\ Changed \subseteq Affected
      /\ OldEntries \subseteq Indexed(entries) /\ Indexed(entries) \subseteq File
  BY DEF Changed, Affected, OldEntries, Indexed
<1>2. Replaced \in Contents
  BY DEF Replaced, Contents
<1>3. Indexed(Replaced) = (Indexed(entries) \ OldEntries) \cup Changed
  BY <1>1 DEF Replaced, Changed, OldEntries, Indexed
<1>4. Cardinality(Indexed(Replaced)) = NextLen
  <2>1. (Indexed(entries) \ OldEntries) \cap Changed = {}
    BY <1>1 DEF OldEntries
  <2> QED
    BY <1>1, <1>3, <2>1, IndexedIsFinite, Exchange DEF NextLen
<1> DEFINE new == Bytes(collected, Changed)
           old == Bytes(entries, OldEntries)
<1>5. old \subseteq Bytes(entries, File)
  BY <1>1 DEF Bytes
<1>6. Bytes(Replaced, File) = (Bytes(entries, File) \ old) \cup new
  <2>1. ASSUME NEW f \in File, NEW b \in 1..MaxSize
        PROVE  <<f, b>> \in Bytes(Replaced, File)
                 <=> <<f, b>> \in (Bytes(entries, File) \ old) \cup new
    <3>1. CASE f \in Changed
      <4>1. <<f, b>> \in Bytes(Replaced, File) <=> <<f, b>> \in new
        BY <1>1, <3>1, BytesHave DEF Replaced
      <4>2. <<f, b>> \in Bytes(entries, File) => <<f, b>> \in old
        <5> SUFFICES ASSUME b <= Size[entries[f]] PROVE f \in OldEntries
          BY BytesHave
        <5> QED
          BY <1>1, <3>1, UpdateAssumption DEF OldEntries, Indexed, Contents
      <4> QED
        BY <4>1, <4>2
    <3>2. CASE f \notin Changed /\ f \in Affected
      <4>1. <<f, b>> \notin Bytes(Replaced, File) /\ <<f, b>> \notin new
        BY <3>2, BytesHave, UpdateAssumption DEF Replaced
      <4>2. <<f, b>> \in Bytes(entries, File) => <<f, b>> \in old
        <5> SUFFICES ASSUME b <= Size[entries[f]] PROVE f \in OldEntries
          BY BytesHave
        <5> QED
          BY <3>2, UpdateAssumption DEF OldEntries, Indexed, Contents
      <4> QED
        BY <4>1, <4>2
    <3>3. CASE f \notin Affected
      <4>1. <<f, b>> \in Bytes(Replaced, File) <=> <<f, b>> \in Bytes(entries, File)
        BY <1>1, <3>3, BytesHave DEF Replaced
      <4>2. <<f, b>> \notin old /\ <<f, b>> \notin new
        BY <1>1, <3>3, BytesHave DEF OldEntries
      <4> QED
        BY <4>1, <4>2
    <3> QED
      BY <3>1, <3>2, <3>3
  <2>2. /\ Bytes(Replaced, File) \subseteq AllBytes
        /\ (Bytes(entries, File) \ old) \cup new \subseteq AllBytes
    BY <1>1, BytesAreFinite
  <2> QED
    BY <2>1, <2>2 DEF AllBytes
<1>7. (Bytes(entries, File) \ old) \cap new = {}
  <2>1. ASSUME NEW f \in File, NEW b \in 1..MaxSize, <<f, b>> \in Bytes(entries, File),
               <<f, b>> \in new
        PROVE  <<f, b>> \in old
    <3>1. f \in Changed /\ b <= Size[entries[f]]
      BY <2>1, BytesHave
    <3>2. f \in OldEntries
      BY <1>1, <3>1, UpdateAssumption DEF OldEntries, Indexed, Contents
    <3> QED
      BY <3>1, <3>2, BytesHave
  <2>2. Bytes(entries, File) \subseteq AllBytes
    BY BytesAreFinite
  <2> QED
    BY <2>1, <2>2 DEF AllBytes
<1>8. /\ IsFiniteSet(Bytes(entries, File)) /\ IsFiniteSet(new)
  BY <1>1, BytesAreFinite
<1>9. Total(Replaced, File)
        = Total(entries, File) - Total(entries, OldEntries) + Total(collected, Changed)
  BY <1>5, <1>6, <1>7, <1>8, Exchange DEF Total
<1>10. Total(entries, OldEntries) <= Total(entries, File)
  BY <1>5, <1>8, PartAndRest DEF Total
<1> QED
  BY <1>2, <1>3, <1>4, <1>9, <1>10

-----------------------------------------------------------------------------
(* The inductive invariant *)

Label == {"idle", "event", "chunk", "end", "push", "limit", "memory", "quit"}
Held == {w \in Worker : pc[w] \notin {"idle", "quit"}}
HeldFiles == {file[w] : w \in Held}
Pushing == {file[w] : w \in {u \in Worker : pc[u] = "push"}}

\* A worker has a file while it handles its events, and counts no more of it than
\* there is.
WorkerInv ==
  \A w \in Worker :
    /\ w \in Held => file[w] \in File /\ seen[w] \in Content
    /\ w \notin Held => file[w] = Absent /\ seen[w] = Absent /\ got[w] = 0 /\ w \notin torn
    /\ got[w] <= Size[seen[w]]
    /\ pc[w] = "chunk" => got[w] < Size[seen[w]]
    /\ pc[w] \in {"end", "push"} => got[w] = Size[seen[w]]

IdleInv == op = "none" => todo = {} /\ Held = {}

\* What is retained has been counted, and the counters are within the limits as
\* long as no worker has found that they are not.
InFlight == {p \in AllBytes : \E w \in Held : file[w] = p[1] /\ p[2] <= got[w]}
Counted == Bytes(collected, File) \cup InFlight
Listed == Changed \cup Pushing
LimitReached == failure # None \/ \E w \in Worker : pc[w] = "limit"
CountInv ==
  /\ Cardinality(Counted) <= retainedBytes
  /\ op = "rebuild" => Cardinality(Listed) <= retainedEntries
  /\ ~LimitReached => /\ retainedBytes <= MaxContentBytes
                      /\ op = "rebuild" => retainedEntries <= MaxEntries

\* An update reads the changed files of its plan.
PlanInv == op = "update" => todo \cup missing \cup Changed \cup HeldFiles \subseteq plan.changed

IInv == TypeOK /\ WorkerInv /\ IdleInv /\ CountInv /\ PlanInv /\ WithinLimits

-----------------------------------------------------------------------------
(* Facts about states *)

LEMMA NothingFacts ==
  /\ Nothing \in Contents /\ Indexed(Nothing) = {}
  /\ \A files : files \subseteq File => Bytes(Nothing, files) = {}
<1>1. ASSUME NEW f \in File, NEW b \in 1..MaxSize PROVE ~(b <= Size[Nothing[f]])
  BY UpdateAssumption DEF Nothing
<1>2. \A files : files \subseteq File => Bytes(Nothing, files) = {}
  BY <1>1 DEF Bytes
<1> QED
  BY <1>2 DEF Nothing, Contents, Indexed

LEMMA PlanTypes ==
  /\ NoPlan \in Plans
  /\ \A p \in Plans : p.changed \subseteq File /\ p.removed \subseteq File
  /\ \A root : PlansOf(root) \subseteq Plans
BY DEF NoPlan, Plans, PlansOf

LEMMA NewScanTypes ==
  ASSUME NEW files \in SUBSET File, NewScan(files), TypeOK
  PROVE  /\ todo' \subseteq File /\ missing' \subseteq File
         /\ pc' \in [Worker -> Label]
         /\ file' \in [Worker -> File \cup {Absent}]
         /\ seen' \in [Worker -> Content \cup {Absent}]
         /\ got' \in [Worker -> Nat]
         /\ torn' \subseteq Worker
         /\ collected' \in Contents
         /\ retainedBytes' \in Nat /\ retainedEntries' \in Nat
         /\ failure' \in {None, "limit", "memory"}
BY NothingFacts DEF NewScan, TypeOK, Label

LEMMA UpdateReportType ==
  ASSUME entries \in Contents, collected \in Contents
  PROVE  UpdateReport \in [added : Nat, updated : Nat, removed : Nat]
<1>1. /\ IsFiniteSet(Changed) /\ Changed \subseteq File
      /\ IsFiniteSet(OldEntries) /\ OldEntries \subseteq File
  <2>1. Changed \subseteq File /\ OldEntries \subseteq File
    BY DEF Changed, OldEntries, Indexed
  <2> QED
    BY <2>1, UpdateAssumption, FS_Subset
<1>2. Retained \subseteq Changed /\ Retained \subseteq OldEntries
  BY DEF Retained
<1>3. {f \in Retained : entries[f] # collected[f]} \subseteq Changed
  BY <1>2
<1>4. Cardinality(Changed) - Cardinality(Retained) \in Nat
  BY <1>1, <1>2, PartAndRest
<1>5. Cardinality(OldEntries) - Cardinality(Retained) \in Nat
  BY <1>1, <1>2, PartAndRest
<1>6. Cardinality({f \in Retained : entries[f] # collected[f]}) \in Nat
  BY <1>1, <1>3, PartAndRest
<1> QED
  BY <1>4, <1>5, <1>6 DEF UpdateReport

LEMMA DropTypes ==
  ASSUME TypeOK, NEW w \in Worker, Drop(w)
  PROVE  /\ file' \in [Worker -> File \cup {Absent}]
         /\ seen' \in [Worker -> Content \cup {Absent}]
         /\ got' \in [Worker -> Nat]
         /\ torn' \subseteq Worker
BY DEF TypeOK, Drop

-----------------------------------------------------------------------------
(* Types *)

LEMMA TypeInit ==
  ASSUME Init
  PROVE  TypeOK
<1>1. /\ disk \in Contents /\ entries \in Contents /\ collected \in Contents
      /\ plan \in Plans
  BY NothingFacts, PlanTypes DEF Init
<1> QED
  BY <1>1 DEF Init, TypeOK, NoReport

LEMMA TypeStep ==
  ASSUME TypeOK, WithinLimits, Next
  PROVE  TypeOK'
<1>1. CASE BeginUpdate
  <2>1. PICK root \in Root : plan' \in PlansOf(root)
    BY <1>1 DEF BeginUpdate
  <2>2. plan' \in Plans /\ plan'.changed \subseteq File
    BY <2>1, PlanTypes
  <2>3. NewScan(plan'.changed) /\ op' = "update" /\ Begin
    BY <1>1 DEF BeginUpdate
  <2> QED
    BY <2>2, <2>3, NewScanTypes DEF TypeOK, Begin, NoReport, index, Label
<1>2. CASE BeginRebuild
  <2>1. NewScan(File) /\ op' = "rebuild" /\ Begin /\ plan' = NoPlan
    BY <1>2 DEF BeginRebuild
  <2> QED
    BY <2>1, NewScanTypes, PlanTypes DEF TypeOK, Begin, NoReport, index, Label
<1>3. ASSUME NEW f \in File, FileIsGone(f) \/ Write(f)
      PROVE  TypeOK'
  BY <1>3 DEF FileIsGone, Write, Fault, TypeOK, Contents, index, worker, shared, outcome, bounds
<1>4. ASSUME NEW w \in Worker, OpenFile(w)
      PROVE  TypeOK'
  <2>1. PICK f \in todo : /\ todo' = todo \ {f}
                          /\ file' = [file EXCEPT ![w] = f]
                          /\ seen' = [seen EXCEPT ![w] = disk[f]]
    BY <1>4 DEF OpenFile
  <2>2. f \in File /\ disk[f] \in Content \cup {Absent}
    BY DEF TypeOK, Contents
  <2> QED
    BY <1>4, <2>1, <2>2 DEF OpenFile, Set, TypeOK, index, shared, outcome, bounds
<1>5. ASSUME NEW w \in Worker, Visit(w) \/ EndFile(w)
      PROVE  TypeOK'
  <2>1. /\ pc' \in [Worker -> Label]
        /\ Drop(w) \/ UNCHANGED <<file, seen, got, torn>>
    BY <1>5 DEF Visit, EndFile, Set, TypeOK, Label
  <2>2. /\ file' \in [Worker -> File \cup {Absent}]
        /\ seen' \in [Worker -> Content \cup {Absent}]
        /\ got' \in [Worker -> Nat]
        /\ torn' \subseteq Worker
    BY <2>1, DropTypes DEF TypeOK
  <2>3. retainedEntries' \in Nat
    BY <1>5 DEF Visit, EndFile, TypeOK, shared
  <2>4. UNCHANGED <<disk, index, op, plan, todo, missing, collected, retainedBytes, failure,
                    outcome>>
    BY <1>5 DEF Visit, EndFile, shared
  <2> QED
    BY <2>1, <2>2, <2>3, <2>4 DEF TypeOK, Label, index, outcome
<1>6. ASSUME NEW w \in Worker, CountChunk(w) \/ AllocationFails(w)
      PROVE  TypeOK'
  BY <1>6 DEF CountChunk, AllocationFails, Fault, Set, TypeOK, index, shared, outcome, bounds
<1>7. ASSUME NEW w \in Worker, Push(w)
      PROVE  TypeOK'
  <2>1. Drop(w) /\ pc' = [pc EXCEPT ![w] = "idle"]
    BY <1>7 DEF Push, Set
  <2>2. collected' \in Contents
    BY <1>7 DEF Push, TypeOK, Contents
  <2> QED
    BY <1>7, <2>1, <2>2, DropTypes DEF Push, TypeOK, index, outcome, bounds
<1>8. ASSUME NEW w \in Worker, SetFailure(w)
      PROVE  TypeOK'
  <2>1. Drop(w) /\ pc' = [pc EXCEPT ![w] = "quit"]
    BY <1>8 DEF SetFailure, Set
  <2>2. failure' \in {None, "limit", "memory"}
    BY <1>8 DEF SetFailure, TypeOK
  <2> QED
    BY <1>8, <2>1, <2>2, DropTypes DEF SetFailure, TypeOK, index, outcome, bounds
<1>9. CASE Refuse \/ ScanFails
  <2>1. /\ NewScan({}) /\ Return("error") /\ UNCHANGED <<disk, index, report>>
    BY <1>9 DEF Refuse, ScanFails, EndScan
  <2> QED
    BY <2>1, NewScanTypes, PlanTypes DEF Return, TypeOK, index, Label
<1>10. CASE Apply
  <2>1. /\ entries' \in Contents /\ contentBytes' \in Nat
        /\ report' \in [added : Nat, updated : Nat, removed : Nat]
    <3>1. CASE UNCHANGED <<index, report>>
      BY <3>1 DEF TypeOK, index
    <3>2. CASE entries' = Replaced /\ contentBytes' = NextContentBytes /\ report' = UpdateReport
      <4>1. /\ Replaced \in Contents /\ Total(entries, OldEntries) <= contentBytes
        BY PlanTypes, ReplacedFacts DEF TypeOK, WithinLimits
      <4>2. /\ Total(entries, OldEntries) \in Nat /\ Total(collected, Changed) \in Nat
        BY BytesAreFinite DEF OldEntries, Changed, Indexed
      <4>3. NextContentBytes \in Nat
        BY <4>1, <4>2 DEF NextContentBytes, TypeOK
      <4> QED
        BY <3>2, <4>1, <4>3, UpdateReportType DEF TypeOK
    <3> QED
      BY <1>10, <3>1, <3>2 DEF Apply
  <2>2. /\ NewScan({}) /\ UNCHANGED disk
        /\ Return("error") \/ Return("ok")
    BY <1>10 DEF Apply, EndScan
  <2> QED
    BY <2>1, <2>2, NewScanTypes, PlanTypes DEF Return, TypeOK, Label
<1>11. CASE RescanRequired
  <2>1. /\ NewScan(File) /\ op' = "rebuild" /\ plan' = NoPlan
        /\ UNCHANGED <<disk, index, outcome>>
    BY <1>11 DEF RescanRequired
  <2> QED
    BY <2>1, NewScanTypes, PlanTypes DEF TypeOK, index, outcome, Label
<1>12. CASE Replace
  <2>1. entries' \in Contents /\ contentBytes' \in Nat
    BY <1>12, BytesAreFinite DEF Replace, TypeOK
  <2>2. report' \in [added : Nat, updated : Nat, removed : Nat]
    <3> DEFINE old == Indexed(entries)
    <3>1. /\ Changed \ old \subseteq File /\ old \ Changed \subseteq File
          /\ {f \in Changed \cap old : entries[f] # collected[f]} \subseteq File
      BY DEF Changed, Indexed
    <3> HIDE DEF old
    <3>2. /\ Cardinality(Changed \ old) \in Nat /\ Cardinality(old \ Changed) \in Nat
          /\ Cardinality({f \in Changed \cap old : entries[f] # collected[f]}) \in Nat
      BY <3>1, IndexedIsFinite
    <3> QED
      BY <1>12, <3>2 DEF Replace, old
  <2>3. /\ NewScan({}) /\ Return("ok") /\ UNCHANGED disk
    BY <1>12 DEF Replace, EndScan
  <2> QED
    BY <2>1, <2>2, <2>3, NewScanTypes, PlanTypes DEF Return, TypeOK, Label
<1>13. CASE Done
  BY <1>13 DEF Done, vars, TypeOK, index, scan, worker, shared, outcome, bounds
<1> QED
  BY <1>1, <1>2, <1>3, <1>4, <1>5, <1>6, <1>7, <1>8, <1>9, <1>10, <1>11, <1>12, <1>13
     DEF Next, Work, Finish

-----------------------------------------------------------------------------
(* Steps of the workers *)

\* The steps that begin a scan or end one.
ScanBoundary == /\ \E files \in SUBSET File : NewScan(files) /\ (op' = "none" => files = {})
                /\ Held = {}

LEMMA BoundaryStep ==
  ASSUME TypeOK, IdleInv, BeginUpdate \/ BeginRebuild \/ Finish \/ RescanRequired \/ ScanFails
  PROVE  ScanBoundary
<1>1. CASE BeginUpdate
  <2>1. PICK root \in Root : plan' \in PlansOf(root)
    BY <1>1 DEF BeginUpdate
  <2>2. plan'.changed \in SUBSET File
    BY <2>1, PlanTypes
  <2> QED
    BY <1>1, <2>2 DEF BeginUpdate, Begin, ScanBoundary, IdleInv
<1>2. CASE BeginRebuild
  BY <1>2 DEF BeginRebuild, Begin, ScanBoundary, IdleInv
<1>3. CASE Finish
  <2>1. NewScan({}) /\ Held = {}
    BY <1>3 DEF Finish, Refuse, Apply, Replace, EndScan, ScanEnded, Held
  <2> QED
    BY <2>1 DEF ScanBoundary
<1>4. CASE RescanRequired
  BY <1>4 DEF RescanRequired, ScanEnded, Held, ScanBoundary
<1>5. CASE ScanFails
  BY <1>5 DEF ScanFails, Held, ScanBoundary
<1> QED
  BY <1>1, <1>2, <1>3, <1>4, <1>5

LEMMA BoundaryHeld ==
  ASSUME TypeOK, WorkerInv, ScanBoundary
  PROVE  /\ WorkerInv' /\ IdleInv'
         /\ Held' = {} /\ HeldFiles' = {} /\ Pushing' = {} /\ Changed' = {}
         /\ InFlight' = {} /\ Bytes(collected', File) = {}
         /\ missing' = {} /\ failure' = None
         /\ retainedBytes' = 0 /\ retainedEntries' = 0
         /\ ~LimitReached'
<1>1. PICK files \in SUBSET File : NewScan(files) /\ (op' = "none" => files = {})
  BY DEF ScanBoundary
<1>2. \A w \in Worker : pc'[w] = "idle"
  BY <1>1 DEF NewScan
<1>3. /\ Held' = {} /\ HeldFiles' = {} /\ Pushing' = {} /\ InFlight' = {}
  BY <1>2 DEF Held, HeldFiles, Pushing, InFlight
<1>4. WorkerInv'
  BY <1>1, <1>2, <1>3, UpdateAssumption DEF WorkerInv, ScanBoundary, NewScan, Held
<1>5. IdleInv'
  BY <1>1, <1>3 DEF IdleInv, NewScan
<1>6. collected' = Nothing /\ failure' = None
  BY <1>1 DEF NewScan
<1>7. Changed' = {} /\ Bytes(collected', File) = {}
  BY <1>6, NothingFacts DEF Changed
<1> QED
  BY <1>1, <1>2, <1>3, <1>4, <1>5, <1>6, <1>7 DEF NewScan, LimitReached

\* The worker's own part of the invariant, when only this worker moves.
LEMMA WorkerStep ==
  ASSUME TypeOK, WorkerInv, NEW w \in Worker, Work(w) \/ AllocationFails(w)
  PROVE  WorkerInv'
<1>1. CASE OpenFile(w)
  <2>1. PICK f \in todo : /\ disk[f] # Absent
                          /\ file' = [file EXCEPT ![w] = f]
                          /\ seen' = [seen EXCEPT ![w] = disk[f]]
    BY <1>1 DEF OpenFile
  <2>2. f \in File /\ disk[f] \in Content /\ Size[disk[f]] \in Nat
    BY <2>1, SizeFacts DEF TypeOK, Contents
  <2>3. got[w] = 0 /\ pc' = [pc EXCEPT ![w] = "event"] /\ UNCHANGED <<got, torn>>
    BY <1>1 DEF OpenFile, Set, WorkerInv, Held
  <2> QED
    BY <2>1, <2>2, <2>3 DEF WorkerInv, Held, TypeOK
<1>2. ASSUME Drop(w), NEW label \in {"idle", "quit"}, Set(w, label)
      PROVE  WorkerInv'
  BY <1>2, SizeFacts DEF Drop, Set, WorkerInv, Held, TypeOK
<1>3. CASE Visit(w)
  <2>1. CASE failure # None
    BY <1>2, <1>3, <2>1 DEF Visit
  <2>2. CASE failure = None
    <3>1. Size[seen[w]] \in Nat /\ got[w] \in Nat
      BY SizeFacts DEF TypeOK
    <3> QED
      BY <1>3, <2>2, <3>1 DEF Visit, Set, WorkerInv, Held, TypeOK
  <2> QED
    BY <2>1, <2>2
<1>4. CASE CountChunk(w)
  <2>1. Size[seen[w]] \in Nat /\ got[w] \in Nat
    BY SizeFacts DEF TypeOK
  <2> QED
    BY <1>4, <2>1 DEF CountChunk, Set, WorkerInv, Held, TypeOK
<1>5. CASE EndFile(w)
  <2>1. CASE w \in torn
    BY <1>2, <1>5, <2>1 DEF EndFile
  <2>2. CASE w \notin torn
    BY <1>5, <2>2 DEF EndFile, Set, WorkerInv, Held, TypeOK
  <2> QED
    BY <2>1, <2>2
<1>6. CASE Push(w)
  BY <1>2, <1>6 DEF Push
<1>7. CASE SetFailure(w)
  BY <1>2, <1>7 DEF SetFailure
<1>8. CASE AllocationFails(w)
  BY <1>8 DEF AllocationFails, Set, WorkerInv, Held, TypeOK
<1> QED
  BY <1>1, <1>3, <1>4, <1>5, <1>6, <1>7, <1>8 DEF Work

LEMMA IdleStep ==
  ASSUME TypeOK, IdleInv, NEW w \in Worker, Work(w) \/ AllocationFails(w)
  PROVE  IdleInv'
<1>1. UNCHANGED op
  BY DEF Work, OpenFile, Visit, CountChunk, EndFile, Push, SetFailure, AllocationFails
<1>2. op # "none"
  <2> SUFFICES ASSUME todo = {}, pc[w] \in {"idle", "quit"} PROVE FALSE
    BY DEF IdleInv, Held
  <2> QED
    BY DEF Work, OpenFile, Visit, CountChunk, EndFile, Push, SetFailure, AllocationFails
<1> QED
  BY <1>1, <1>2 DEF IdleInv

\* The world does not change what the workers hold.
LEMMA WorldStep ==
  ASSUME TypeOK, WorkerInv, IdleInv,
         Done \/ \E f \in File : FileIsGone(f) \/ Write(f)
  PROVE  WorkerInv' /\ IdleInv'
<1>1. CASE Done
  BY <1>1 DEF Done, vars, scan, worker, WorkerInv, IdleInv, Held
<1>2. ASSUME NEW f \in File, FileIsGone(f)
      PROVE  WorkerInv' /\ IdleInv'
  BY <1>2 DEF FileIsGone, worker, WorkerInv, IdleInv, Held
<1>3. ASSUME NEW f \in File, Write(f)
      PROVE  WorkerInv' /\ IdleInv'
  <2>1. \A w \in Worker : w \notin Held => (w \in torn' <=> w \in torn)
    BY <1>3, UpdateAssumption DEF Write, WorkerInv
  <2>2. UNCHANGED <<pc, file, seen, got, op, todo>>
    BY <1>3 DEF Write
  <2> QED
    BY <2>1, <2>2 DEF WorkerInv, IdleInv, Held
<1> QED
  BY <1>1, <1>2, <1>3

-----------------------------------------------------------------------------
(* Counters *)

LEMMA InFlightHas ==
  ASSUME NEW f, NEW b
  PROVE  <<f, b>> \in InFlight <=> /\ f \in File /\ b \in 1..MaxSize
                                   /\ \E w \in Held : file[w] = f /\ b <= got[w]
BY DEF InFlight, AllBytes

LEMMA CountedIsFinite ==
  ASSUME TypeOK
  PROVE  /\ Counted \subseteq AllBytes /\ IsFiniteSet(Counted) /\ Cardinality(Counted) \in Nat
         /\ (WorkerInv => /\ Listed \subseteq File /\ IsFiniteSet(Listed)
                          /\ Cardinality(Listed) \in Nat)
<1>1. Counted \subseteq AllBytes
  BY BytesAreFinite DEF Counted, InFlight
<1>2. WorkerInv => Listed \subseteq File
  BY DEF WorkerInv, Held, Listed, Pushing, Changed, Indexed
<1> QED
  BY <1>1, <1>2, BytesAreFinite, UpdateAssumption, FS_Subset, FS_CardinalityType

\* What a worker's step adds to the retained bytes and entries.
LEMMA WhatIsAdded ==
  ASSUME TypeOK, WorkerInv, NEW w \in Worker, Work(w) \/ AllocationFails(w)
  PROVE  /\ \/ Counted' \subseteq Counted
            \/ /\ CountChunk(w) /\ retainedBytes + 1 <= MaxContentBytes
               /\ Counted' \subseteq Counted \cup {<<file[w], got[w] + 1>>}
         /\ \/ Listed' \subseteq Listed
            \/ /\ EndFile(w)
               /\ op = "rebuild" => retainedEntries + 1 <= MaxEntries
               /\ w \notin torn
               /\ Listed' \subseteq Listed \cup {file[w]}
<1>1. CASE OpenFile(w)
  <2>1. PICK f \in todo : file' = [file EXCEPT ![w] = f]
    BY <1>1 DEF OpenFile
  <2>2. /\ got[w] = 0 /\ pc[w] = "idle" /\ pc' = [pc EXCEPT ![w] = "event"]
        /\ UNCHANGED <<got, collected>>
    BY <1>1 DEF OpenFile, Set, WorkerInv, Held, shared
  <2>3. \A b \in 1..MaxSize : ~(b <= got[w])
    BY <2>2
  <2>4. InFlight' \subseteq InFlight
    BY <2>1, <2>2, <2>3 DEF InFlight, AllBytes, Held, TypeOK
  <2>5. Pushing' = Pushing
    BY <2>1, <2>2 DEF Pushing, TypeOK
  <2> QED
    BY <2>2, <2>4, <2>5 DEF Counted, Listed, Changed
<1>2. ASSUME Drop(w), NEW label \in {"idle", "quit"}, Set(w, label)
      PROVE  InFlight' \subseteq InFlight /\ Pushing' \subseteq Pushing
  BY <1>2 DEF Drop, Set, InFlight, Pushing, Held, TypeOK
<1>3. ASSUME NEW label \in Label \ {"idle", "quit", "push"}, Set(w, label), w \in Held,
             UNCHANGED <<file, seen, got, torn, collected>>
      PROVE  Counted' = Counted /\ Listed' \subseteq Listed
  BY <1>3 DEF Set, Counted, InFlight, Listed, Pushing, Changed, Held, TypeOK
<1>4. CASE Visit(w)
  BY <1>2, <1>3, <1>4 DEF Visit, Counted, Listed, Changed, Held, Label, shared
<1>5. CASE CountChunk(w)
  <2>1. /\ UNCHANGED <<file, collected>> /\ w \in Held
        /\ got' \in {got, [got EXCEPT ![w] = @ + 1]}
        /\ pc' \in {[pc EXCEPT ![w] = "limit"], [pc EXCEPT ![w] = "event"]}
        /\ got' = got \/ retainedBytes + 1 <= MaxContentBytes
    BY <1>5, UpdateAssumption DEF CountChunk, Set, Held, TypeOK
  <2>2. Held' = Held /\ Listed' \subseteq Listed
    BY <1>5, <2>1 DEF Held, Listed, Pushing, Changed, TypeOK
  <2>3. CASE got' = got
    BY <2>1, <2>2, <2>3 DEF Counted, InFlight
  <2>4. CASE got' = [got EXCEPT ![w] = @ + 1]
    <3>1. ASSUME NEW f \in File, NEW b \in 1..MaxSize, <<f, b>> \in InFlight'
          PROVE  <<f, b>> \in InFlight \cup {<<file[w], got[w] + 1>>}
      <4>1. PICK u \in Held : file[u] = f /\ b <= got'[u]
        BY <2>1, <2>2, <3>1 DEF InFlight
      <4>2. CASE b <= got[u]
        BY <3>1, <4>1, <4>2, InFlightHas
      <4>3. CASE ~(b <= got[u])
        <5>1. u = w /\ got[w] \in Nat /\ b <= got[w] + 1 /\ b \in Nat
          BY <2>4, <4>1, <4>3 DEF TypeOK, Held
        <5>2. b = got[w] + 1
          BY <4>3, <5>1
        <5> QED
          BY <4>1, <5>1, <5>2
      <4> QED
        BY <4>2, <4>3
    <3>2. InFlight' \subseteq InFlight \cup {<<file[w], got[w] + 1>>}
      BY <3>1 DEF InFlight, AllBytes
    <3>3. got' # got
      BY <2>4 DEF TypeOK
    <3> QED
      BY <1>5, <2>1, <2>2, <3>2, <3>3 DEF Counted
  <2> QED
    BY <2>1, <2>3, <2>4
<1>6. CASE EndFile(w)
  <2>1. CASE w \in torn
    BY <1>2, <1>6, <2>1 DEF EndFile, Counted, Listed, Changed
  <2>2. CASE w \notin torn
    <3>1. PICK label \in {"limit", "push"} : Set(w, label)
      BY <1>6, <2>2 DEF EndFile
    <3>2. w \in Held /\ UNCHANGED <<file, seen, got, torn, collected>>
      BY <1>6, <2>2 DEF EndFile, Held
    <3>3. CASE label = "limit"
      BY <1>3, <3>1, <3>2, <3>3 DEF Label
    <3>4. CASE label = "push"
      <4>1. Counted' = Counted
        BY <3>1, <3>2, <3>4 DEF Set, Counted, InFlight, Held, TypeOK
      <4>2. Listed' \subseteq Listed \cup {file[w]}
        BY <3>1, <3>2, <3>4 DEF Set, Listed, Pushing, Changed, TypeOK
      <4>3. op = "rebuild" => retainedEntries + 1 <= MaxEntries
        <5>1. pc'[w] = "push"
          BY <3>1, <3>4 DEF Set, TypeOK
        <5> QED
          BY <1>6, <2>2, <5>1, UpdateAssumption DEF EndFile, Set, TypeOK
      <4> QED
        BY <1>6, <2>2, <4>1, <4>2, <4>3
    <3> QED
      BY <3>3, <3>4
  <2> QED
    BY <2>1, <2>2
<1>7. CASE Push(w)
  <2>1. /\ w \in Held /\ file[w] \in File /\ got[w] = Size[seen[w]] /\ pc[w] = "push"
        /\ collected' = [collected EXCEPT ![file[w]] = seen[w]]
        /\ Drop(w) /\ Set(w, "idle")
    BY <1>7 DEF Push, WorkerInv, Held
  <2>2. InFlight' \subseteq InFlight /\ Pushing' \subseteq Pushing
    BY <1>2, <2>1
  <2>3. ASSUME NEW f \in File, NEW b \in 1..MaxSize, <<f, b>> \in Bytes(collected', File)
        PROVE  <<f, b>> \in Counted
    <3> b <= Size[collected'[f]]
      BY <2>3, BytesHave
    <3> collected \in [File -> Content \cup {Absent}]
      BY DEF TypeOK, Contents
    <3>1. CASE f = file[w]
      <4>1. collected'[f] = seen[w]
        BY <2>1, <3>1
      <4>2. b <= got[w]
        BY <2>1, <4>1
      <4> QED
        <5>1. <<f, b>> \in InFlight
          BY <2>1, <2>3, <3>1, <4>2, InFlightHas
        <5> QED
          BY <5>1 DEF Counted
    <3>2. CASE f # file[w]
      <4>1. collected'[f] = collected[f]
        BY <2>1, <3>2
      <4> QED
        BY <4>1, BytesHave DEF Counted
    <3> QED
      BY <3>1, <3>2
  <2>4. Bytes(collected', File) \subseteq Counted
    <3>1. Bytes(collected', File) \subseteq AllBytes
      BY BytesAreFinite
    <3> QED
      BY <2>3, <3>1 DEF AllBytes
  <2>5. Changed' \subseteq Changed \cup {file[w]} /\ file[w] \in Pushing
    BY <2>1 DEF Changed, Indexed, TypeOK, Contents, Pushing
  <2> QED
    BY <2>2, <2>4, <2>5 DEF Counted, Listed
<1>8. CASE SetFailure(w)
  BY <1>2, <1>8 DEF SetFailure, Counted, Listed, Changed
<1>9. CASE AllocationFails(w)
  BY <1>3, <1>9 DEF AllocationFails, Held, Label, shared
<1> QED
  BY <1>1, <1>4, <1>5, <1>6, <1>7, <1>8, <1>9 DEF Work

\* Once a limit is reached, the scan fails, and a step that stays below the limits
\* has checked its own sum.
LEMMA LimitStays ==
  ASSUME TypeOK, NEW w \in Worker, Work(w) \/ AllocationFails(w)
  PROVE  /\ LimitReached => LimitReached'
         /\ \/ retainedBytes' = retainedBytes
            \/ /\ retainedBytes' = retainedBytes + 1
               /\ ~LimitReached' => retainedBytes + 1 <= MaxContentBytes
         /\ \/ retainedEntries' = retainedEntries
            \/ /\ retainedEntries' = retainedEntries + 1
               /\ ~LimitReached' => retainedEntries + 1 <= MaxEntries
<1>0. ASSUME NEW label \in Label, Set(w, label), pc[w] # "limit", failure' = failure
      PROVE  LimitReached => LimitReached'
  BY <1>0 DEF Set, LimitReached, TypeOK
<1>1. CASE OpenFile(w) \/ Visit(w) \/ Push(w) \/ AllocationFails(w)
  <2>1. LimitReached => LimitReached'
    BY <1>0, <1>1 DEF OpenFile, Visit, Push, AllocationFails, shared, Label
  <2>2. UNCHANGED <<retainedBytes, retainedEntries>>
    BY <1>1 DEF OpenFile, Visit, Push, AllocationFails, shared
  <2> QED
    BY <2>1, <2>2
<1>2. CASE CountChunk(w)
  <2>1. retainedBytes + 1 > MaxContentBytes => pc'[w] = "limit"
    BY <1>2 DEF CountChunk, Set, TypeOK
  <2>2. retainedBytes + 1 > MaxContentBytes \/ retainedBytes + 1 <= MaxContentBytes
    BY UpdateAssumption DEF TypeOK
  <2>3. LimitReached => LimitReached'
    BY <1>0, <1>2 DEF CountChunk, Label
  <2>4. pc'[w] = "limit" => LimitReached'
    BY DEF LimitReached
  <2>5. retainedBytes' = retainedBytes + 1 /\ UNCHANGED retainedEntries
    BY <1>2 DEF CountChunk
  <2> QED
    BY <2>1, <2>2, <2>3, <2>4, <2>5
<1>3. CASE EndFile(w)
  <2>1. retainedEntries' = retainedEntries
          \/ /\ retainedEntries' = retainedEntries + 1
             /\ retainedEntries + 1 > MaxEntries => pc'[w] = "limit"
    BY <1>3 DEF EndFile, Set, TypeOK
  <2>2. retainedEntries + 1 > MaxEntries \/ retainedEntries + 1 <= MaxEntries
    BY UpdateAssumption DEF TypeOK
  <2>3. LimitReached => LimitReached'
    BY <1>0, <1>3 DEF EndFile, Label
  <2>4. pc'[w] = "limit" => LimitReached'
    BY DEF LimitReached
  <2>5. UNCHANGED retainedBytes
    BY <1>3 DEF EndFile
  <2> QED
    BY <2>1, <2>2, <2>3, <2>4, <2>5
<1>4. CASE SetFailure(w)
  <2>1. failure' # None
    BY <1>4, UpdateAssumption DEF SetFailure
  <2> QED
    BY <1>4, <2>1 DEF SetFailure, LimitReached
<1> QED
  BY <1>1, <1>2, <1>3, <1>4 DEF Work

LEMMA CountStep ==
  ASSUME TypeOK, WorkerInv, CountInv, NEW w \in Worker, Work(w) \/ AllocationFails(w)
  PROVE  CountInv'
<1>1. UNCHANGED op
  BY DEF Work, OpenFile, Visit, CountChunk, EndFile, Push, SetFailure, AllocationFails
<1>2. Cardinality(Counted') <= retainedBytes'
  <2>1. CASE Counted' \subseteq Counted
    <3>1. Cardinality(Counted') \in Nat /\ Cardinality(Counted') <= Cardinality(Counted)
      BY <2>1, CountedIsFinite, PartAndRest
    <3> QED
      BY <3>1, CountedIsFinite, LimitStays DEF CountInv, TypeOK
  <2>2. CASE CountChunk(w) /\ Counted' \subseteq Counted \cup {<<file[w], got[w] + 1>>}
    <3>1. /\ Cardinality(Counted') \in Nat /\ Cardinality(Counted) \in Nat
          /\ Cardinality(Counted') <= Cardinality(Counted) + 1
      BY <2>2, CountedIsFinite, OneMore
    <3> QED
      BY <2>2, <3>1 DEF CountChunk, CountInv, TypeOK
  <2> QED
    BY <2>1, <2>2, WhatIsAdded
<1>3. op = "rebuild" => Cardinality(Listed') <= retainedEntries'
  <2> SUFFICES ASSUME op = "rebuild" PROVE Cardinality(Listed') <= retainedEntries'
    OBVIOUS
  <2>1. CASE Listed' \subseteq Listed
    <3>1. Cardinality(Listed') \in Nat /\ Cardinality(Listed') <= Cardinality(Listed)
      BY <2>1, CountedIsFinite, PartAndRest
    <3> QED
      BY <3>1, CountedIsFinite, LimitStays DEF CountInv, TypeOK
  <2>2. CASE EndFile(w) /\ w \notin torn /\ Listed' \subseteq Listed \cup {file[w]}
    <3>1. /\ Cardinality(Listed') \in Nat /\ Cardinality(Listed) \in Nat
          /\ Cardinality(Listed') <= Cardinality(Listed) + 1
      BY <2>2, CountedIsFinite, OneMore
    <3>2. retainedEntries' = retainedEntries + 1
      BY <2>2 DEF EndFile
    <3> QED
      BY <3>1, <3>2 DEF CountInv, TypeOK
  <2> QED
    BY <2>1, <2>2, WhatIsAdded
<1>4. ~LimitReached' => /\ retainedBytes' <= MaxContentBytes
                        /\ op = "rebuild" => retainedEntries' <= MaxEntries
  BY LimitStays DEF CountInv, TypeOK
<1> QED
  BY <1>1, <1>2, <1>3, <1>4, Zenon DEF CountInv

LEMMA CountBoundary ==
  ASSUME TypeOK, WorkerInv, ScanBoundary
  PROVE  CountInv'
<1>1. Counted' = {} /\ Listed' = {} /\ retainedBytes' = 0 /\ retainedEntries' = 0
  BY BoundaryHeld DEF Counted, Listed
<1>2. Cardinality(Counted') = 0 /\ Cardinality(Listed') = 0
  BY <1>1, FS_EmptySet
<1> QED
  BY <1>1, <1>2, UpdateAssumption DEF CountInv

LEMMA CountWorld ==
  ASSUME TypeOK, CountInv, Done \/ \E f \in File : FileIsGone(f) \/ Write(f)
  PROVE  CountInv'
<1>1. UNCHANGED <<pc, file, got, collected, retainedBytes, retainedEntries, failure, op>>
  BY DEF Done, vars, scan, worker, shared, FileIsGone, Write
<1>2. UNCHANGED <<Counted, Listed, LimitReached>>
  BY <1>1 DEF Counted, InFlight, Listed, Pushing, Changed, Held, LimitReached
<1> QED
  BY <1>1, <1>2 DEF CountInv

-----------------------------------------------------------------------------
(* Plans *)

LEMMA PlanStep ==
  ASSUME TypeOK, WorkerInv, PlanInv, NEW w \in Worker, Work(w) \/ AllocationFails(w)
  PROVE  PlanInv'
<1>1. UNCHANGED <<op, plan, missing>>
  BY DEF Work, OpenFile, Visit, CountChunk, EndFile, Push, SetFailure, AllocationFails
<1>2. todo' \cup Changed' \cup HeldFiles' \subseteq todo \cup Changed \cup HeldFiles
  <2>1. ASSUME NEW label \in Label, Set(w, label), UNCHANGED <<todo, collected>>,
               \/ Drop(w) /\ label \in {"idle", "quit"}
               \/ UNCHANGED file /\ w \in Held
        PROVE  todo' \cup Changed' \cup HeldFiles' \subseteq todo \cup Changed \cup HeldFiles
    BY <2>1 DEF Set, Drop, Changed, HeldFiles, Held, TypeOK
  <2>2. CASE OpenFile(w)
    <3>1. PICK f \in todo : /\ todo' = todo \ {f}
                            /\ file' = [file EXCEPT ![w] = f]
      BY <2>2 DEF OpenFile
    <3>2. pc' = [pc EXCEPT ![w] = "event"] /\ UNCHANGED collected
      BY <2>2 DEF OpenFile, Set, shared
    <3> QED
      BY <3>1, <3>2 DEF Changed, HeldFiles, Held, TypeOK
  <2>3. CASE Visit(w) \/ CountChunk(w) \/ EndFile(w) \/ SetFailure(w) \/ AllocationFails(w)
    BY <2>1, <2>3 DEF Visit, CountChunk, EndFile, SetFailure, AllocationFails, Label, Held,
                      shared
  <2>4. CASE Push(w)
    <3>1. /\ Drop(w) /\ pc' = [pc EXCEPT ![w] = "idle"] /\ w \in Held /\ file[w] \in File
          /\ collected' = [collected EXCEPT ![file[w]] = seen[w]] /\ UNCHANGED todo
      BY <2>4 DEF Push, Set, Held, WorkerInv
    <3>2. Changed' \subseteq Changed \cup {file[w]} /\ file[w] \in HeldFiles
      BY <3>1 DEF Changed, Indexed, TypeOK, Contents, HeldFiles
    <3>3. HeldFiles' \subseteq HeldFiles
      BY <3>1 DEF Drop, HeldFiles, Held, TypeOK
    <3> QED
      BY <3>1, <3>2, <3>3
  <2> QED
    BY <2>2, <2>3, <2>4 DEF Work
<1> QED
  BY <1>1, <1>2 DEF PlanInv

LEMMA PlanBoundary ==
  ASSUME TypeOK, WorkerInv, IdleInv,
         BeginUpdate \/ BeginRebuild \/ Finish \/ RescanRequired \/ ScanFails
  PROVE  PlanInv'
<1>1. HeldFiles' = {} /\ Changed' = {} /\ missing' = {}
  BY BoundaryStep, BoundaryHeld
<1>2. op' = "update" => todo' = plan'.changed
  BY DEF BeginUpdate, NewScan, BeginRebuild, Finish, Refuse, Apply, Replace, Return,
         RescanRequired, ScanFails
<1> QED
  BY <1>1, <1>2 DEF PlanInv

LEMMA PlanWorld ==
  ASSUME TypeOK, PlanInv, Done \/ \E f \in File : FileIsGone(f) \/ Write(f)
  PROVE  PlanInv'
<1>1. /\ UNCHANGED <<pc, file, collected, op, plan>>
      /\ todo' \cup missing' \subseteq todo \cup missing
  BY DEF Done, vars, scan, worker, shared, FileIsGone, Write
<1>2. UNCHANGED <<Changed, HeldFiles>>
  BY <1>1 DEF Changed, HeldFiles, Held
<1> QED
  BY <1>1, <1>2 DEF PlanInv

-----------------------------------------------------------------------------
(* Limits *)

\* What an update or a rebuild puts in place.
LEMMA NewIndex ==
  ASSUME IInv, Finish
  PROVE  \/ /\ result' = "error" /\ UNCHANGED <<entries, contentBytes>>
            /\ \/ Refuse
               \/ Apply /\ (NextLen > MaxEntries \/ NextContentBytes > MaxContentBytes)
         \/ /\ result' = "ok" /\ Apply /\ entries' = Replaced /\ report' = UpdateReport
            /\ Fits(Replaced) /\ contentBytes' = Total(Replaced, File)
         \/ /\ result' = "ok" /\ Replace /\ entries' = collected
            /\ Fits(collected) /\ contentBytes' = Total(collected, File)
<1>1. CASE Refuse
  BY <1>1 DEF Refuse, Return, index
<1>2. CASE Apply
  <2>1. CASE NextLen > MaxEntries \/ NextContentBytes > MaxContentBytes
    BY <1>2, <2>1 DEF Apply, Return, index
  <2>2. CASE ~(NextLen > MaxEntries \/ NextContentBytes > MaxContentBytes)
    <3>1. /\ entries' = Replaced /\ contentBytes' = NextContentBytes
          /\ report' = UpdateReport /\ result' = "ok"
      BY <1>2, <2>2 DEF Apply, Return
    <3>2. /\ Cardinality(Indexed(Replaced)) = NextLen
          /\ Total(Replaced, File) = NextContentBytes
      BY PlanTypes, ReplacedFacts DEF IInv, TypeOK, WithinLimits, NextContentBytes
    <3>3. Cardinality(Indexed(Replaced)) \in Nat /\ Total(Replaced, File) \in Nat
      BY IndexedIsFinite, BytesAreFinite
    <3>4. Fits(Replaced)
      BY <2>2, <3>2, <3>3, UpdateAssumption DEF Fits
    <3> QED
      BY <1>2, <3>1, <3>2, <3>4
  <2> QED
    BY <2>1, <2>2
<1>3. CASE Replace
  <2>1. /\ entries' = collected /\ contentBytes' = Total(collected, File) /\ result' = "ok"
    BY <1>3 DEF Replace, Return
  <2>2. op = "rebuild" /\ ~LimitReached
    BY <1>3 DEF Replace, ScanEnded, LimitReached
  <2>3. /\ Total(collected, File) \in Nat /\ Cardinality(Counted) \in Nat
        /\ Total(collected, File) <= Cardinality(Counted)
    BY CountedIsFinite, PartAndRest DEF IInv, Total, Counted
  <2>4. /\ Cardinality(Changed) \in Nat /\ Cardinality(Listed) \in Nat
        /\ Cardinality(Changed) <= Cardinality(Listed)
    BY CountedIsFinite, PartAndRest DEF IInv, Listed
  <2>5. Total(collected, File) <= MaxContentBytes
    BY <2>2, <2>3, UpdateAssumption DEF IInv, CountInv, TypeOK
  <2>6. Cardinality(Indexed(collected)) <= MaxEntries
    BY <2>2, <2>4, UpdateAssumption DEF IInv, CountInv, TypeOK, Changed
  <2> QED
    BY <1>3, <2>1, <2>5, <2>6 DEF Fits
<1> QED
  BY <1>1, <1>2, <1>3 DEF Finish

LEMMA IndexIsKept ==
  ASSUME Next
  PROVE  Finish \/ UNCHANGED <<entries, contentBytes>>
<1>1. CASE BeginUpdate \/ BeginRebuild
  BY <1>1 DEF BeginUpdate, BeginRebuild, Begin, index
<1>2. CASE \E f \in File : FileIsGone(f) \/ Write(f)
  BY <1>2 DEF FileIsGone, Write, index
<1>3. CASE \E w \in Worker : Work(w) \/ AllocationFails(w)
  BY <1>3 DEF Work, OpenFile, Visit, CountChunk, EndFile, Push, SetFailure, AllocationFails,
              index
<1>4. CASE RescanRequired \/ ScanFails \/ Done
  BY <1>4 DEF RescanRequired, ScanFails, Done, vars, index
<1> QED
  BY <1>1, <1>2, <1>3, <1>4 DEF Next

LEMMA LimitStep ==
  ASSUME IInv, Next
  PROVE  WithinLimits'
<1>1. CASE Finish
  BY <1>1, NewIndex DEF IInv, WithinLimits
<1>2. CASE UNCHANGED <<entries, contentBytes>>
  BY <1>2 DEF IInv, WithinLimits
<1> QED
  BY <1>1, <1>2, IndexIsKept

-----------------------------------------------------------------------------
(* The invariant holds *)

LEMMA InvInit ==
  ASSUME Init
  PROVE  IInv
<1>1. TypeOK
  BY TypeInit
<1>2. /\ Held = {} /\ HeldFiles = {} /\ Pushing = {} /\ InFlight = {}
  BY DEF Init, Held, HeldFiles, Pushing, InFlight
<1>3. WorkerInv /\ IdleInv /\ PlanInv
  BY <1>2, UpdateAssumption DEF Init, WorkerInv, IdleInv, PlanInv
<1>4. /\ Counted = {} /\ Listed = {} /\ Indexed(entries) = {} /\ Bytes(entries, File) = {}
  BY <1>2, NothingFacts DEF Init, Counted, Listed, Changed
<1>5. /\ Cardinality(Counted) = 0 /\ Cardinality(Listed) = 0
      /\ Cardinality(Indexed(entries)) = 0 /\ Total(entries, File) = 0
  BY <1>4, FS_EmptySet DEF Total
<1>6. CountInv /\ WithinLimits
  BY <1>5, UpdateAssumption DEF Init, CountInv, WithinLimits, Fits
<1> QED
  BY <1>1, <1>3, <1>6 DEF IInv

LEMMA InvStep ==
  ASSUME IInv, [Next]_vars
  PROVE  IInv'
<1>1. CASE Next
  <2>1. TypeOK' /\ WithinLimits'
    BY <1>1, TypeStep, LimitStep DEF IInv
  <2>2. WorkerInv' /\ IdleInv' /\ CountInv' /\ PlanInv'
    <3>1. CASE BeginUpdate \/ BeginRebuild \/ Finish \/ RescanRequired \/ ScanFails
      BY <3>1, BoundaryStep, BoundaryHeld, CountBoundary, PlanBoundary DEF IInv
    <3>2. CASE \E w \in Worker : Work(w) \/ AllocationFails(w)
      BY <3>2, WorkerStep, IdleStep, CountStep, PlanStep DEF IInv
    <3>3. CASE Done \/ \E f \in File : FileIsGone(f) \/ Write(f)
      BY <3>3, WorldStep, CountWorld, PlanWorld DEF IInv
    <3> QED
      BY <1>1, <3>1, <3>2, <3>3 DEF Next
  <2> QED
    BY <2>1, <2>2 DEF IInv
<1>2. CASE UNCHANGED vars
  BY <1>2 DEF vars, index, scan, worker, shared, outcome, bounds, IInv, TypeOK, WorkerInv,
              IdleInv, CountInv, PlanInv, WithinLimits, Held, HeldFiles, Pushing, InFlight,
              Counted, Listed, Changed, LimitReached
<1> QED
  BY <1>1, <1>2

\* The counters of the workers cover what they hold, and the index is within its
\* limits, at every step.
THEOREM UpdateInvariant == Spec => []IInv
<1>1. Init => IInv
  BY InvInit
<1>2. IInv /\ [Next]_vars => IInv'
  BY InvStep
<1> QED
  BY <1>1, <1>2, PTL DEF Spec

\* The variables keep their types: no count becomes negative.
THEOREM UpdateTypes == Spec => []TypeOK
<1>1. IInv => TypeOK
  BY DEF IInv
<1> QED
  BY <1>1, UpdateInvariant, PTL

\* Whatever the workers do at once, the index is within its limits
\* (IndexOptions::max_entries, max_content_bytes).
THEOREM LimitsAreKept == Spec => []WithinLimits
<1>1. IInv => WithinLimits
  BY DEF IInv
<1> QED
  BY <1>1, UpdateInvariant, PTL

-----------------------------------------------------------------------------
(* What an operation changes, and what it says of it *)

LEMMA OnlyFinishEnds ==
  ASSUME Next, NEW r, Ends(r)
  PROVE  Finish \/ (ScanFails /\ r = "error")
<1>1. ~(BeginUpdate \/ BeginRebuild)
  BY DEF Ends, BeginUpdate, BeginRebuild, Begin
<1>2. ~\E f \in File : FileIsGone(f) \/ Write(f)
  BY DEF Ends, FileIsGone, Write
<1>3. ~\E w \in Worker : Work(w) \/ AllocationFails(w)
  BY DEF Ends, Work, OpenFile, Visit, CountChunk, EndFile, Push, SetFailure, AllocationFails
<1>4. ~RescanRequired /\ ~Done
  BY DEF Ends, RescanRequired, Done
<1>5. ScanFails => r = "error"
  BY DEF Ends, ScanFails, Return
<1> QED
  BY <1>1, <1>2, <1>3, <1>4, <1>5 DEF Next

\* A refused operation changes nothing, and an update only what its plan names.
THEOREM ChangesArePlanned == Spec => OnlyPlannedChange
<1> DEFINE P == /\ Ends("error") => UNCHANGED index
                /\ \A f \in File : entries'[f] # entries[f] =>
                     \/ op = "rebuild" /\ Ends("ok")
                     \/ op = "update" /\ f \in plan.changed \cup plan.removed
<1>1. IInv /\ [Next]_vars => (P \/ UNCHANGED vars)
  <2> SUFFICES ASSUME IInv, Next PROVE P
    OBVIOUS
  <2>1. CASE UNCHANGED <<entries, contentBytes>>
    BY <2>1 DEF index
  <2>2. CASE Finish
    <3>1. CASE UNCHANGED <<entries, contentBytes>>
      BY <3>1 DEF index
    <3>2. CASE result' = "ok" /\ Apply /\ entries' = Replaced
      <4>1. op = "update" /\ Affected \subseteq plan.changed \cup plan.removed
        BY <3>2 DEF Apply, IInv, PlanInv, Affected
      <4>2. \A f \in File : f \notin Affected => Replaced[f] = entries[f]
        BY DEF Replaced, Affected
      <4> QED
        BY <3>2, <4>1, <4>2 DEF Ends
    <3>3. CASE result' = "ok" /\ Replace /\ entries' = collected
      <4>1. op = "rebuild" /\ Ends("ok")
        BY <3>3 DEF Replace, Return, Ends
      <4> QED
        BY <4>1, <3>3 DEF Ends
    <3> QED
      BY <2>2, <3>1, <3>2, <3>3, NewIndex
  <2> QED
    BY <2>1, <2>2, IndexIsKept
<1>2. P \/ UNCHANGED vars <=> [P]_vars
  OBVIOUS
<1> QED
  BY <1>1, <1>2, UpdateInvariant, PTL DEF Spec, OnlyPlannedChange

\* The counts of an update, worked out from the affected entries, are those of
\* the entries before and after.
LEMMA UpdateReportAgrees ==
  ASSUME IInv
  PROVE  LET old == Indexed(entries)
             new == Indexed(Replaced)
         IN UpdateReport =
              [added |-> Cardinality(new \ old),
               updated |-> Cardinality({f \in old \cap new : entries[f] # Replaced[f]}),
               removed |-> Cardinality(old \ new)]
<1> DEFINE old == Indexed(entries)
           new == Indexed(Replaced)
<1>1. new = (old \ OldEntries) \cup Changed
  BY PlanTypes, ReplacedFacts DEF IInv, TypeOK
<1>2. /\ OldEntries \subseteq old /\ Changed \subseteq Affected /\ old \subseteq File
      /\ Changed \subseteq File
  BY DEF OldEntries, Affected, Changed, Indexed
<1>3. OldEntries = Affected \cap old /\ Retained = Changed \cap OldEntries
  BY DEF OldEntries, Retained
<1>4. /\ IsFiniteSet(Changed) /\ IsFiniteSet(OldEntries)
  BY <1>2, IndexedIsFinite
<1>5. new \ old = Changed \ Retained /\ old \ new = OldEntries \ Retained
  BY <1>1, <1>2, <1>3
<1>6. {f \in old \cap new : entries[f] # Replaced[f]}
        = {f \in Retained : entries[f] # collected[f]}
  <2>1. \A f \in File : f \notin Affected => Replaced[f] = entries[f]
    BY DEF Replaced, Affected
  <2>2. \A f \in Changed : Replaced[f] = collected[f]
    BY <1>2 DEF Replaced
  <2>3. old \cap new \cap Affected = Retained /\ Retained \subseteq Changed
    BY <1>1, <1>2, <1>3
  <2> HIDE DEF old, new
  <2>4. ASSUME NEW f \in File
        PROVE  f \in old \cap new /\ entries[f] # Replaced[f]
                 <=> f \in Retained /\ entries[f] # collected[f]
    BY <2>1, <2>2, <2>3
  <2>5. Retained \subseteq File
    BY <1>2, <2>3
  <2> QED
    BY <1>2, <2>4, <2>5
<1>7. /\ Cardinality(Changed \ Retained) = Cardinality(Changed) - Cardinality(Retained)
      /\ Cardinality(OldEntries \ Retained)
           = Cardinality(OldEntries) - Cardinality(Retained)
  BY <1>3, <1>4, PartAndRest
<1> QED
  BY <1>5, <1>6, <1>7 DEF UpdateReport

\* An operation reports what it did.
THEOREM ReportsAgree == Spec => CountsAgree
<1> DEFINE P == Ends("ok") =>
                  LET old == Indexed(entries)
                      new == Indexed(entries')
                  IN report' =
                       [added |-> Cardinality(new \ old),
                        updated |-> Cardinality({f \in old \cap new : entries[f] # entries'[f]}),
                        removed |-> Cardinality(old \ new)]
<1>1. IInv /\ [Next]_vars => (P \/ UNCHANGED vars)
  <2> SUFFICES ASSUME IInv, Next, Ends("ok") PROVE P
    OBVIOUS
  <2>1. Finish /\ result' = "ok"
    BY OnlyFinishEnds DEF Ends
  <2>2. CASE Apply /\ entries' = Replaced /\ report' = UpdateReport
    BY <2>2, UpdateReportAgrees
  <2>3. CASE Replace /\ entries' = collected
    BY <2>3 DEF Replace, Changed
  <2> QED
    BY <2>1, <2>2, <2>3, NewIndex
<1>2. P \/ UNCHANGED vars <=> [P]_vars
  OBVIOUS
<1> QED
  BY <1>1, <1>2, UpdateInvariant, PTL DEF Spec, CountsAgree

-----------------------------------------------------------------------------
(* The outcome, when nothing interferes *)

\* The files the scan is to read.
Targets == IF op = "update" THEN plan.changed ELSE File

\* Every file of the scan is in one place: to be read, gone, with one worker, or
\* collected; and what is known of it is what it holds.
FilesInv ==
  undisturbed /\ op # "none" =>
    /\ torn = {}
    /\ failure # "memory" /\ \A w \in Worker : pc[w] # "memory"
    /\ \A w \in Held : seen[w] = disk[file[w]]
    /\ \A f \in Changed : collected[f] = disk[f]
    /\ \A f \in missing : disk[f] = Absent
    /\ todo \cap Changed = {} /\ todo \cap HeldFiles = {} /\ HeldFiles \cap Changed = {}
    /\ \A u, w \in Held : u # w => file[u] # file[w]
    /\ failure = None =>
         /\ \A w \in Worker : pc[w] # "quit"
         /\ Targets \subseteq todo \cup missing \cup Changed \cup HeldFiles

\* The counters are exact until a limit is reached, and that happens only when
\* the outcome does not fit.
FitInv ==
  undisturbed /\ op # "none" =>
    /\ LimitReached => ~Fits(Expected)
    /\ ~LimitReached => /\ retainedBytes = Cardinality(Counted)
                        /\ op = "rebuild" => retainedEntries = Cardinality(Listed)

DInv == IInv /\ FilesInv /\ FitInv

-----------------------------------------------------------------------------
(* Every file is in one place *)

LEMMA FilesBoundary ==
  ASSUME IInv, BeginUpdate \/ BeginRebuild \/ Finish \/ RescanRequired \/ ScanFails
  PROVE  FilesInv'
<1>1. /\ Held' = {} /\ HeldFiles' = {} /\ Changed' = {} /\ missing' = {} /\ failure' = None
      /\ \A w \in Worker : pc'[w] = "idle"
  BY BoundaryStep, BoundaryHeld DEF IInv, ScanBoundary, NewScan
<1>2. torn' = {}
  <2>1. Held = {} /\ torn' = torn
    BY BoundaryStep DEF IInv, ScanBoundary, NewScan
  <2> QED
    BY <2>1 DEF IInv, TypeOK, WorkerInv
<1>3. op' # "none" => todo' = Targets'
  BY DEF Targets, BeginUpdate, NewScan, BeginRebuild, Finish, Refuse, Apply, Replace, Return,
         RescanRequired, ScanFails
<1> QED
  BY <1>1, <1>2, <1>3, UpdateAssumption DEF FilesInv

LEMMA FilesWorld ==
  ASSUME IInv, FilesInv, Done \/ \E f \in File : FileIsGone(f) \/ Write(f)
  PROVE  FilesInv'
<1>1. CASE Done
  BY <1>1 DEF Done, vars, bounds, index, scan, worker, shared, FilesInv, Targets, Held,
              HeldFiles, Changed
<1>2. ASSUME NEW f \in File, FileIsGone(f)
      PROVE  FilesInv'
  <2>1. /\ UNCHANGED <<disk, op, plan, pc, file, seen, torn, collected, failure, undisturbed>>
        /\ todo' = todo \ {f} /\ missing' = missing \cup {f} /\ disk[f] = Absent
    BY <1>2 DEF FileIsGone, worker, shared
  <2>2. UNCHANGED <<Targets, Held, HeldFiles, Changed>>
    BY <2>1 DEF Targets, Held, HeldFiles, Changed
  <2> QED
    BY <2>1, <2>2 DEF FilesInv
<1>3. ASSUME NEW f \in File, Write(f)
      PROVE  FilesInv'
  BY <1>3 DEF Write, Fault, FilesInv
<1> QED
  BY <1>1, <1>2, <1>3

LEMMA SameOperation ==
  ASSUME NEW w \in Worker, Work(w)
  PROVE  UNCHANGED <<disk, entries, op, plan, missing, undisturbed, Targets, Expected>>
<1>1. UNCHANGED <<disk, entries, op, plan, missing, undisturbed>>
  BY DEF Work, OpenFile, Visit, CountChunk, EndFile, Push, SetFailure, index
<1> QED
  BY <1>1 DEF Targets, Expected

LEMMA FilesStep ==
  ASSUME IInv, FilesInv, NEW w \in Worker, Work(w)
  PROVE  FilesInv'
<1> SUFFICES ASSUME undisturbed, op # "none" PROVE FilesInv'
  BY SameOperation DEF FilesInv
<1> TypeOK /\ WorkerInv
  BY DEF IInv
<1> UNCHANGED <<disk, missing, Targets>>
  BY SameOperation
<1>1. CASE OpenFile(w)
  <2>1. PICK f \in todo : /\ todo' = todo \ {f}
                          /\ file' = [file EXCEPT ![w] = f]
                          /\ seen' = [seen EXCEPT ![w] = disk[f]]
    BY <1>1 DEF OpenFile
  <2>2. /\ pc[w] = "idle" /\ pc' = [pc EXCEPT ![w] = "event"]
        /\ UNCHANGED <<torn, collected, failure>>
    BY <1>1 DEF OpenFile, Set, shared
  <2>3. /\ w \notin Held /\ Held' = Held \cup {w} /\ HeldFiles' = HeldFiles \cup {f}
        /\ UNCHANGED Changed /\ f \notin HeldFiles /\ f \notin Changed
    BY <2>1, <2>2 DEF Held, HeldFiles, Changed, TypeOK, FilesInv
  <2>4. \A u \in Held : file'[u] = file[u] /\ seen'[u] = seen[u] /\ file[u] # f
    BY <2>1, <2>3 DEF HeldFiles, TypeOK, Held
  <2>5. file'[w] = f /\ seen'[w] = disk[f]
    BY <2>1 DEF TypeOK
  <2>6. \A u \in Held' : seen'[u] = disk'[file'[u]]
    BY <2>3, <2>4, <2>5 DEF FilesInv
  <2>7. \A u, v \in Held' : u # v => file'[u] # file'[v]
    BY <2>3, <2>4, <2>5 DEF FilesInv
  <2>8. \A u \in Worker : pc'[u] # "memory" /\ (failure = None => pc'[u] # "quit")
    BY <2>2 DEF FilesInv, TypeOK
  <2> QED
    BY <2>1, <2>2, <2>3, <2>6, <2>7, <2>8 DEF FilesInv
<1>2. ASSUME NEW label \in Label \ {"idle", "quit", "memory"}, Set(w, label), w \in Held,
             UNCHANGED <<todo, file, seen, torn, collected, failure>>
      PROVE  FilesInv'
  <2>1. UNCHANGED <<Held, HeldFiles, Changed>>
    BY <1>2 DEF Set, Held, HeldFiles, Changed, TypeOK
  <2>2. \A u \in Worker : pc'[u] # "memory" /\ (failure = None => pc'[u] # "quit")
    BY <1>2 DEF Set, FilesInv, TypeOK
  <2> QED
    BY <1>2, <2>1, <2>2 DEF FilesInv
<1>3. ASSUME Set(w, "quit"), Drop(w), UNCHANGED <<todo, collected>>,
             failure' # None, failure' # "memory"
      PROVE  FilesInv'
  <2>1. /\ Held' = Held \ {w} /\ HeldFiles' \subseteq HeldFiles /\ UNCHANGED Changed
        /\ \A u \in Held' : file'[u] = file[u] /\ seen'[u] = seen[u]
        /\ \A u \in Worker : pc'[u] # "memory"
        /\ torn' = {}
    BY <1>3 DEF Set, Drop, Held, HeldFiles, Changed, TypeOK, FilesInv
  <2> QED
    BY <1>3, <2>1 DEF FilesInv
<1>4. CASE Visit(w)
  <2>1. CASE failure # None
    BY <1>3, <1>4, <2>1 DEF Visit, shared, FilesInv
  <2>2. CASE failure = None
    <3>1. PICK label \in {"chunk", "end"} : Set(w, label)
      BY <1>4, <2>2 DEF Visit
    <3> QED
      BY <1>2, <1>4, <2>2, <3>1 DEF Visit, shared, Label, Held
  <2> QED
    BY <2>1, <2>2
<1>5. CASE CountChunk(w)
  BY <1>2, <1>5 DEF CountChunk, Label, Held
<1>6. CASE EndFile(w)
  <2>1. w \notin torn
    BY DEF FilesInv
  <2> QED
    BY <1>2, <1>6, <2>1 DEF EndFile, Label, Held
<1>7. CASE Push(w)
  <2>1. /\ w \in Held /\ file[w] \in File /\ seen[w] \in Content /\ seen[w] = disk[file[w]]
        /\ collected' = [collected EXCEPT ![file[w]] = seen[w]]
        /\ Drop(w) /\ Set(w, "idle") /\ UNCHANGED <<todo, failure>>
    BY <1>7 DEF Push, Held, WorkerInv, FilesInv
  <2>2. /\ Held' = Held \ {w} /\ torn' = {}
        /\ \A u \in Held' : file'[u] = file[u] /\ seen'[u] = seen[u]
        /\ \A u \in Worker : pc'[u] # "memory" /\ (failure = None => pc'[u] # "quit")
    BY <2>1 DEF Set, Drop, Held, TypeOK, FilesInv
  <2>3. HeldFiles' = HeldFiles \ {file[w]}
    BY <2>1, <2>2 DEF HeldFiles, FilesInv
  <2>4. /\ Changed' = Changed \cup {file[w]}
        /\ \A f \in Changed' : collected'[f] = disk[f]
    <3>1. \A f \in File : collected'[f] = IF f = file[w] THEN seen[w] ELSE collected[f]
      BY <2>1 DEF TypeOK, Contents
    <3>2. seen[w] # Absent
      BY <2>1, UpdateAssumption
    <3>3. Changed' = Changed \cup {file[w]}
      BY <2>1, <3>1, <3>2 DEF Changed, Indexed
    <3>4. Changed \subseteq File
      BY DEF Changed, Indexed
    <3> QED
      BY <2>1, <3>1, <3>3, <3>4 DEF FilesInv
  <2>5. file[w] \notin todo /\ file[w] \in HeldFiles
    BY <2>1 DEF FilesInv, HeldFiles
  <2> QED
    BY <2>1, <2>2, <2>3, <2>4, <2>5 DEF FilesInv
<1>8. CASE SetFailure(w)
  <2>1. pc[w] = "limit"
    BY <1>8 DEF SetFailure, FilesInv
  <2>2. failure' # None /\ failure' # "memory"
    BY <1>8, <2>1, UpdateAssumption DEF SetFailure, FilesInv
  <2> QED
    BY <1>3, <1>8, <2>2 DEF SetFailure
<1> QED
  BY <1>1, <1>4, <1>5, <1>6, <1>7, <1>8 DEF Work

-----------------------------------------------------------------------------
(* What the workers have is part of what the operation should give *)

LEMMA ExpectedFacts ==
  ASSUME IInv, op # "none"
  PROVE  /\ Changed \cup HeldFiles \subseteq Targets /\ Targets \subseteq File
         /\ \A f \in Targets : Expected[f] = disk[f]
<1>1. op \in {"update", "rebuild"} /\ plan.changed \subseteq File /\ plan.removed \subseteq File
  <2>1. op \in {"update", "rebuild"} /\ plan \in Plans
    BY DEF IInv, TypeOK
  <2> QED
    BY <2>1 DEF Plans
<1>2. Changed \cup HeldFiles \subseteq File
  BY DEF IInv, WorkerInv, Changed, Indexed, HeldFiles, Held
<1>3. CASE op = "update"
  BY <1>1, <1>3 DEF IInv, PlanInv, Targets, Expected
<1>4. CASE op = "rebuild"
  BY <1>2, <1>4 DEF Targets, Expected
<1> QED
  BY <1>1, <1>3, <1>4

LEMMA CountedAreExpected ==
  ASSUME IInv, FilesInv, undisturbed, op # "none"
  PROVE  Counted \subseteq Bytes(Expected, File) /\ Listed \subseteq Indexed(Expected)
<1>0. TypeOK /\ WorkerInv
  BY DEF IInv
<1>1. ASSUME NEW f \in File, NEW b \in 1..MaxSize, <<f, b>> \in Counted
      PROVE  <<f, b>> \in Bytes(Expected, File)
  <2>1. CASE <<f, b>> \in Bytes(collected, File)
    <3>1. b <= Size[collected[f]]
      BY <2>1, BytesHave
    <3>2. f \in Changed
      BY <1>0, <1>1, <3>1, UpdateAssumption DEF Changed, Indexed, TypeOK, Contents
    <3>3. collected[f] = disk[f] /\ Expected[f] = disk[f]
      BY <3>2, ExpectedFacts DEF FilesInv
    <3> QED
      BY <1>1, <3>1, <3>3, BytesHave
  <2>2. CASE <<f, b>> \in InFlight
    <3>1. PICK w \in Held : file[w] = f /\ b <= got[w]
      BY <2>2, InFlightHas
    <3>2. w \in Worker /\ f \in HeldFiles
      BY <3>1 DEF Held, HeldFiles
    <3>3. seen[w] = disk[f] /\ Expected[f] = disk[f]
      BY <3>1, <3>2, ExpectedFacts DEF FilesInv
    <3>4. got[w] \in Nat /\ got[w] <= Size[seen[w]] /\ Size[seen[w]] \in Nat
      BY <1>0, <3>2, SizeFacts DEF WorkerInv, TypeOK
    <3> QED
      BY <1>1, <3>1, <3>3, <3>4, BytesHave
  <2> QED
    BY <1>1, <2>1, <2>2 DEF Counted
<1>2. Counted \subseteq AllBytes
  BY <1>0, CountedIsFinite
<1>3. ASSUME NEW f \in Changed
      PROVE  f \in Indexed(Expected)
  <2>1. f \in File /\ collected[f] # Absent
    BY <1>3 DEF Changed, Indexed
  <2>2. collected[f] = disk[f] /\ Expected[f] = disk[f]
    BY <1>3, ExpectedFacts DEF FilesInv
  <2> QED
    BY <2>1, <2>2 DEF Indexed
<1>4. ASSUME NEW w \in Held
      PROVE  file[w] \in Indexed(Expected)
  <2>1. file[w] \in File /\ seen[w] \in Content /\ file[w] \in HeldFiles
    BY <1>0, <1>4 DEF WorkerInv, Held, HeldFiles
  <2>2. seen[w] = disk[file[w]] /\ Expected[file[w]] = disk[file[w]]
    BY <1>4, <2>1, ExpectedFacts DEF FilesInv
  <2> QED
    BY <2>1, <2>2, UpdateAssumption DEF Indexed
<1>5. Listed \subseteq Indexed(Expected)
  BY <1>3, <1>4 DEF Listed, Pushing, Held
<1> QED
  BY <1>1, <1>2, <1>5 DEF AllBytes

\* The byte a worker counts next, and the file it lists next, are not counted yet.
LEMMA NextIsNew ==
  ASSUME IInv, FilesInv, undisturbed, op # "none", NEW w \in Worker
  PROVE  /\ pc[w] = "chunk" =>
              /\ <<file[w], got[w] + 1>> \in Bytes(Expected, File)
              /\ <<file[w], got[w] + 1>> \notin Counted
         /\ pc[w] = "end" => file[w] \in Indexed(Expected) /\ file[w] \notin Listed
<1>0. TypeOK /\ WorkerInv
  BY DEF IInv
<1> SUFFICES ASSUME w \in Held
             PROVE  /\ pc[w] = "chunk" =>
                         /\ <<file[w], got[w] + 1>> \in Bytes(Expected, File)
                         /\ <<file[w], got[w] + 1>> \notin Counted
                    /\ pc[w] = "end" => file[w] \in Indexed(Expected) /\ file[w] \notin Listed
  BY DEF Held
<1>1. /\ file[w] \in File /\ file[w] \in HeldFiles /\ seen[w] \in Content
      /\ got[w] \in Nat /\ Size[seen[w]] \in 0..MaxSize /\ MaxSize \in Nat
  BY <1>0, UpdateAssumption, SizeFacts DEF WorkerInv, HeldFiles, TypeOK
<1>2. Expected[file[w]] = seen[w]
  BY <1>1, ExpectedFacts DEF FilesInv
<1>3. file[w] \notin Changed
  BY <1>1 DEF FilesInv
<1>4. \A u \in Held : file[u] = file[w] => u = w
  BY DEF FilesInv
<1>5. ASSUME pc[w] = "chunk"
      PROVE  /\ <<file[w], got[w] + 1>> \in Bytes(Expected, File)
             /\ <<file[w], got[w] + 1>> \notin Counted
  <2>1. got[w] + 1 \in 1..MaxSize /\ got[w] + 1 <= Size[seen[w]]
    BY <1>0, <1>1, <1>5 DEF WorkerInv
  <2>2. <<file[w], got[w] + 1>> \in Bytes(Expected, File)
    BY <1>1, <1>2, <2>1, BytesHave
  <2>3. <<file[w], got[w] + 1>> \notin InFlight
    <3> SUFFICES ASSUME <<file[w], got[w] + 1>> \in InFlight PROVE FALSE
      OBVIOUS
    <3>1. PICK u \in Held : file[u] = file[w] /\ got[w] + 1 <= got[u]
      BY InFlightHas
    <3> QED
      BY <1>1, <1>4, <3>1
  <2>4. <<file[w], got[w] + 1>> \notin Bytes(collected, File)
    <3>1. collected[file[w]] = Absent
      BY <1>1, <1>3 DEF Changed, Indexed
    <3> QED
      BY <1>1, <3>1, SizeFacts, BytesHave
  <2> QED
    BY <2>2, <2>3, <2>4 DEF Counted
<1>6. ASSUME pc[w] = "end"
      PROVE  file[w] \in Indexed(Expected) /\ file[w] \notin Listed
  <2>1. file[w] \in Indexed(Expected)
    BY <1>1, <1>2, UpdateAssumption DEF Indexed
  <2>2. file[w] \notin Pushing
    <3> SUFFICES ASSUME NEW u \in Worker, pc[u] = "push", file[u] = file[w] PROVE FALSE
      BY DEF Pushing
    <3> QED
      BY <1>4, <1>6 DEF Held
  <2> QED
    BY <1>3, <2>1, <2>2 DEF Listed
<1> QED
  BY <1>5, <1>6

-----------------------------------------------------------------------------
(* The counters are exact *)

\* A set with one element more.
LEMMA ExactlyOneMore ==
  ASSUME NEW S, IsFiniteSet(S), NEW x, x \notin S,
         NEW T, IsFiniteSet(T), S \subseteq T, x \in T
  PROVE  /\ Cardinality(S \cup {x}) = Cardinality(S) + 1
         /\ Cardinality(S) \in Nat /\ Cardinality(T) \in Nat
         /\ Cardinality(S) + 1 <= Cardinality(T)
<1>1. IsFiniteSet(S \cup {x}) /\ Cardinality(S \cup {x}) = Cardinality(S) + 1
  BY FS_AddElement
<1>2. S \cup {x} \subseteq T
  OBVIOUS
<1>3. Cardinality(S \cup {x}) <= Cardinality(T)
  BY <1>1, <1>2, FS_Subset
<1> QED
  BY <1>1, <1>3, FS_CardinalityType

\* A worker that finds that a limit is passed is right.
LEMMA LimitIsRight ==
  ASSUME IInv, FilesInv, FitInv, undisturbed, op # "none", NEW w \in Worker, Work(w),
         ~LimitReached, LimitReached'
  PROVE  ~Fits(Expected)
<1>0. TypeOK /\ WorkerInv
  BY DEF IInv
<1>1. failure = None /\ \A u \in Worker : pc[u] # "limit" /\ pc[u] # "memory" /\ pc[u] # "quit"
  BY DEF LimitReached, FilesInv
<1>2. /\ IsFiniteSet(Counted) /\ IsFiniteSet(Listed)
      /\ IsFiniteSet(Bytes(Expected, File)) /\ IsFiniteSet(Indexed(Expected))
      /\ Counted \subseteq Bytes(Expected, File) /\ Listed \subseteq Indexed(Expected)
  BY <1>0, CountedIsFinite, BytesAreFinite, IndexedIsFinite, CountedAreExpected
<1>3. \/ CountChunk(w) /\ retainedBytes + 1 > MaxContentBytes
      \/ EndFile(w) /\ op = "rebuild" /\ retainedEntries + 1 > MaxEntries
  <2>1. ASSUME UNCHANGED failure, NEW label \in Label \ {"limit"}, Set(w, label)
        PROVE  FALSE
    BY <1>0, <1>1, <2>1 DEF LimitReached, Set, TypeOK
  <2>2. CASE OpenFile(w) \/ Visit(w) \/ Push(w)
    BY <1>1, <2>1, <2>2 DEF OpenFile, Visit, Push, shared, Label
  <2>3. CASE CountChunk(w)
    BY <2>1, <2>3 DEF CountChunk, Label
  <2>4. CASE EndFile(w)
    BY <2>1, <2>4 DEF EndFile, Label
  <2>5. CASE SetFailure(w)
    BY <1>1, <2>5 DEF SetFailure
  <2> QED
    BY <2>2, <2>3, <2>4, <2>5 DEF Work
<1>4. CASE CountChunk(w) /\ retainedBytes + 1 > MaxContentBytes
  <2>1. retainedBytes = Cardinality(Counted)
    BY DEF FitInv
  <2> DEFINE next == <<file[w], got[w] + 1>>
  <2>2. next \in Bytes(Expected, File) /\ next \notin Counted
    BY <1>4, NextIsNew DEF CountChunk
  <2> HIDE DEF next
  <2>3. Cardinality(Counted) + 1 <= Total(Expected, File) /\ Total(Expected, File) \in Nat
    BY <1>2, <2>2, ExactlyOneMore DEF Total
  <2> QED
    BY <1>2, <1>4, <2>1, <2>3, UpdateAssumption, FS_CardinalityType DEF Fits
<1>5. CASE EndFile(w) /\ op = "rebuild" /\ retainedEntries + 1 > MaxEntries
  <2>1. retainedEntries = Cardinality(Listed)
    BY <1>5 DEF FitInv
  <2>2. file[w] \in Indexed(Expected) /\ file[w] \notin Listed
    BY <1>5, NextIsNew DEF EndFile
  <2>3. /\ Cardinality(Listed) + 1 <= Cardinality(Indexed(Expected))
        /\ Cardinality(Indexed(Expected)) \in Nat
    BY <1>2, <2>2, ExactlyOneMore
  <2> QED
    BY <1>2, <1>5, <2>1, <2>3, UpdateAssumption, FS_CardinalityType DEF Fits
<1> QED
  BY <1>3, <1>4, <1>5

\* What has been counted is not lost while no limit is reached.
LEMMA NothingIsForgotten ==
  ASSUME IInv, FilesInv, undisturbed, op # "none", NEW w \in Worker, Work(w),
         ~LimitReached, ~LimitReached'
  PROVE  /\ Counted \subseteq Counted' /\ Listed \subseteq Listed'
         /\ CountChunk(w) => <<file[w], got[w] + 1>> \in Counted'
         /\ EndFile(w) => file[w] \in Listed'
<1>0. TypeOK /\ WorkerInv
  BY DEF IInv
<1>1. failure = None /\ w \notin torn /\ \A u \in Worker : pc[u] # "limit" /\ pc[u] # "memory"
  BY DEF LimitReached, FilesInv
<1>2. CASE OpenFile(w)
  <2>1. PICK f \in todo : file' = [file EXCEPT ![w] = f]
    BY <1>2 DEF OpenFile
  <2>2. /\ pc[w] = "idle" /\ pc' = [pc EXCEPT ![w] = "event"]
        /\ UNCHANGED <<got, collected>>
    BY <1>2 DEF OpenFile, Set, shared
  <2>3. InFlight \subseteq InFlight' /\ Pushing \subseteq Pushing'
    BY <1>0, <2>1, <2>2 DEF InFlight, Pushing, Held, TypeOK
  <2> QED
    BY <1>2, <2>2, <2>3 DEF Counted, Listed, Changed, CountChunk, EndFile
<1>3. CASE Visit(w)
  <2>1. PICK label \in {"chunk", "end"} : Set(w, label)
    BY <1>1, <1>3 DEF Visit
  <2>2. UNCHANGED <<file, got, collected>> /\ pc[w] = "event"
    BY <1>1, <1>3 DEF Visit, shared
  <2>3. InFlight \subseteq InFlight' /\ Pushing \subseteq Pushing'
    BY <1>0, <2>1, <2>2 DEF Set, InFlight, Pushing, Held, TypeOK
  <2> QED
    BY <1>3, <2>2, <2>3 DEF Counted, Listed, Changed, CountChunk, EndFile
<1>4. CASE CountChunk(w)
  <2>1. pc[w] = "chunk" /\ pc' = [pc EXCEPT ![w] = "event"] /\ UNCHANGED <<file, collected>>
        /\ got' = [got EXCEPT ![w] = @ + 1]
    <3>1. pc'[w] # "limit"
      BY DEF LimitReached
    <3> QED
      BY <1>0, <1>4, <3>1 DEF CountChunk, Set, TypeOK
  <2>2. Held' = Held /\ Pushing \subseteq Pushing' /\ w \in Held
    BY <1>0, <2>1 DEF Held, Pushing, TypeOK
  <2>3. \A u \in Worker : got[u] \in Nat /\ got[u] <= got'[u]
    BY <1>0, <2>1 DEF TypeOK
  <2>4. InFlight \subseteq InFlight'
    BY <2>1, <2>2, <2>3 DEF InFlight, AllBytes, Held
  <2>5. <<file[w], got[w] + 1>> \in InFlight'
    <3>1. <<file[w], got[w] + 1>> \in AllBytes
      BY <2>1, NextIsNew, BytesAreFinite
    <3>2. got'[w] = got[w] + 1 /\ file'[w] = file[w] /\ w \in Held' /\ got[w] + 1 \in Nat
      BY <1>0, <2>1, <2>2 DEF TypeOK
    <3> QED
      BY <3>1, <3>2 DEF InFlight
  <2> QED
    BY <1>4, <2>1, <2>2, <2>4, <2>5 DEF Counted, Listed, Changed, EndFile
<1>5. CASE EndFile(w)
  <2>1. pc[w] = "end" /\ pc' = [pc EXCEPT ![w] = "push"] /\ UNCHANGED <<file, got, collected>>
    <3>1. pc'[w] # "limit"
      BY DEF LimitReached
    <3> QED
      BY <1>0, <1>1, <1>5, <3>1 DEF EndFile, Set, TypeOK
  <2>2. /\ InFlight \subseteq InFlight' /\ Pushing \subseteq Pushing'
        /\ file[w] \in Pushing'
    BY <1>0, <2>1 DEF InFlight, Pushing, Held, TypeOK
  <2> QED
    BY <2>1, <2>2 DEF Counted, Listed, Changed, CountChunk
<1>6. CASE Push(w)
  <2>1. /\ pc[w] = "push" /\ w \in Held /\ file[w] \in File /\ seen[w] \in Content
        /\ got[w] = Size[seen[w]]
        /\ collected' = [collected EXCEPT ![file[w]] = seen[w]]
        /\ pc' = [pc EXCEPT ![w] = "idle"]
        /\ file' = [file EXCEPT ![w] = Absent] /\ got' = [got EXCEPT ![w] = 0]
    BY <1>0, <1>6 DEF Push, WorkerInv, Held, Drop, Set
  <2>2. \A f \in File : collected'[f] = IF f = file[w] THEN seen[w] ELSE collected[f]
    BY <1>0, <2>1 DEF TypeOK, Contents
  <2>3. file[w] \notin Changed
    BY <2>1 DEF FilesInv, HeldFiles
  <2>4. Changed \subseteq Changed' /\ file[w] \in Changed'
    BY <2>1, <2>2, <2>3, UpdateAssumption DEF Changed, Indexed
  <2>5. Pushing \subseteq Pushing' \cup {file[w]}
    BY <1>0, <2>1 DEF Pushing, TypeOK
  <2>6. Bytes(collected, File) \subseteq Bytes(collected', File)
    <3>1. ASSUME NEW f \in File, NEW b \in 1..MaxSize, <<f, b>> \in Bytes(collected, File)
          PROVE  <<f, b>> \in Bytes(collected', File)
      <4>1. b <= Size[collected[f]]
        BY <3>1, BytesHave
      <4>2. f \in Changed
        BY <1>0, <3>1, <4>1, UpdateAssumption DEF Changed, Indexed, TypeOK, Contents
      <4>3. collected'[f] = collected[f]
        BY <2>2, <2>3, <4>2
      <4> QED
        BY <3>1, <4>1, <4>3, BytesHave
    <3>2. Bytes(collected, File) \subseteq AllBytes
      BY BytesAreFinite
    <3> QED
      BY <3>1, <3>2 DEF AllBytes
  <2>7. InFlight \subseteq InFlight' \cup Bytes(collected', File)
    <3>1. ASSUME NEW f \in File, NEW b \in 1..MaxSize, <<f, b>> \in InFlight
          PROVE  <<f, b>> \in InFlight' \cup Bytes(collected', File)
      <4>1. PICK u \in Held : file[u] = f /\ b <= got[u]
        BY <3>1, InFlightHas
      <4>2. CASE u = w
        <5>1. collected'[f] = seen[w] /\ b <= Size[seen[w]]
          BY <2>1, <2>2, <4>1, <4>2
        <5> QED
          BY <3>1, <5>1, BytesHave
      <4>3. CASE u # w
        <5>1. u \in Held' /\ file'[u] = f /\ got'[u] = got[u]
          BY <1>0, <2>1, <4>1, <4>3 DEF Held, TypeOK
        <5> QED
          BY <3>1, <4>1, <5>1 DEF InFlight, AllBytes
      <4> QED
        BY <4>2, <4>3
    <3> QED
      BY <3>1 DEF InFlight, AllBytes
  <2> QED
    BY <2>1, <2>4, <2>5, <2>6, <2>7 DEF Counted, Listed, CountChunk, EndFile
<1>7. CASE SetFailure(w)
  BY <1>1, <1>7 DEF SetFailure
<1> QED
  BY <1>2, <1>3, <1>4, <1>5, <1>6, <1>7 DEF Work

LEMMA CountersStayExact ==
  ASSUME IInv, FilesInv, FitInv, undisturbed, op # "none", NEW w \in Worker, Work(w),
         ~LimitReached, ~LimitReached'
  PROVE  /\ retainedBytes' = Cardinality(Counted')
         /\ op = "rebuild" => retainedEntries' = Cardinality(Listed')
<1>0. TypeOK /\ WorkerInv
  BY DEF IInv
<1>1. /\ IsFiniteSet(Counted) /\ IsFiniteSet(Listed) /\ retainedBytes = Cardinality(Counted)
      /\ op = "rebuild" => retainedEntries = Cardinality(Listed)
  BY <1>0, CountedIsFinite DEF FitInv
<1>2. retainedBytes' = Cardinality(Counted')
  <2> DEFINE next == <<file[w], got[w] + 1>>
  <2>1. CASE CountChunk(w)
    <3>1. next \notin Counted
      BY <2>1, NextIsNew DEF CountChunk
    <3>2. next \in Counted' /\ Counted \subseteq Counted'
      BY <2>1, NothingIsForgotten
    <3>3. Counted' \subseteq Counted \cup {next}
      BY <1>0, WhatIsAdded
    <3> HIDE DEF next
    <3>4. Counted' = Counted \cup {next}
      BY <3>2, <3>3
    <3>5. Cardinality(Counted') = Cardinality(Counted) + 1
      BY <1>1, <3>1, <3>4, FS_AddElement
    <3> QED
      BY <1>1, <2>1, <3>5 DEF CountChunk
  <2>2. CASE ~CountChunk(w)
    <3>1. Counted' = Counted
      BY <1>0, <2>2, WhatIsAdded, NothingIsForgotten
    <3>2. retainedBytes' = retainedBytes
      BY <2>2 DEF Work, OpenFile, Visit, EndFile, Push, SetFailure, shared
    <3> QED
      BY <1>1, <3>1, <3>2
  <2> QED
    BY <2>1, <2>2
<1>3. ASSUME op = "rebuild"
      PROVE  retainedEntries' = Cardinality(Listed')
  <2>1. CASE EndFile(w)
    <3>1. file[w] \notin Listed
      BY <2>1, NextIsNew DEF EndFile
    <3>2. file[w] \in Listed' /\ Listed \subseteq Listed'
      BY <2>1, NothingIsForgotten
    <3>3. Listed' \subseteq Listed \cup {file[w]}
      BY <1>0, WhatIsAdded
    <3>4. Listed' = Listed \cup {file[w]}
      BY <3>2, <3>3
    <3>5. Cardinality(Listed') = Cardinality(Listed) + 1
      BY <1>1, <3>1, <3>4, FS_AddElement
    <3>6. retainedEntries' = retainedEntries + 1
      BY <1>3, <2>1 DEF EndFile, FilesInv
    <3> QED
      BY <1>1, <1>3, <3>5, <3>6
  <2>2. CASE ~EndFile(w)
    <3>1. Listed' = Listed
      BY <1>0, <2>2, WhatIsAdded, NothingIsForgotten
    <3>2. retainedEntries' = retainedEntries
      BY <2>2 DEF Work, OpenFile, Visit, CountChunk, Push, SetFailure, shared
    <3> QED
      BY <1>1, <1>3, <3>1, <3>2
  <2> QED
    BY <2>1, <2>2
<1> QED
  BY <1>2, <1>3

LEMMA FitStep ==
  ASSUME IInv, FilesInv, FitInv, NEW w \in Worker, Work(w)
  PROVE  FitInv'
<1> SUFFICES ASSUME undisturbed, op # "none"
             PROVE  /\ LimitReached' => ~Fits(Expected)
                    /\ ~LimitReached' => /\ retainedBytes' = Cardinality(Counted')
                                         /\ op = "rebuild" =>
                                              retainedEntries' = Cardinality(Listed')
  <2>1. UNCHANGED <<op, undisturbed, Expected>>
    BY SameOperation
  <2>2. Fits(Expected)' <=> Fits(Expected)
    BY <2>1 DEF Fits, Total, Bytes, Indexed
  <2> QED
    BY <2>1, <2>2 DEF FitInv
<1>1. LimitReached => LimitReached'
  BY LimitStays DEF IInv
<1>2. CASE LimitReached
  BY <1>1, <1>2 DEF FitInv
<1>3. CASE ~LimitReached
  BY <1>3, LimitIsRight, CountersStayExact
<1> QED
  BY <1>2, <1>3

LEMMA FitBoundary ==
  ASSUME IInv, BeginUpdate \/ BeginRebuild \/ Finish \/ RescanRequired \/ ScanFails
  PROVE  FitInv'
<1>1. /\ ~LimitReached' /\ Counted' = {} /\ Listed' = {}
      /\ retainedBytes' = 0 /\ retainedEntries' = 0
  BY BoundaryStep, BoundaryHeld DEF IInv, Counted, Listed
<1>2. Cardinality(Counted') = 0 /\ Cardinality(Listed') = 0
  BY <1>1, FS_EmptySet
<1> QED
  BY <1>1, <1>2 DEF FitInv

LEMMA FitWorld ==
  ASSUME FitInv, Done \/ \E f \in File : FileIsGone(f) \/ Write(f)
  PROVE  FitInv'
<1>1. CASE \E f \in File : Write(f)
  BY <1>1 DEF Write, Fault, FitInv
<1>2. CASE Done \/ \E f \in File : FileIsGone(f)
  <2>1. UNCHANGED <<disk, entries, op, plan, pc, file, got, collected, retainedBytes,
                    retainedEntries, failure, undisturbed>>
    BY <1>2 DEF Done, vars, index, scan, worker, shared, FileIsGone
  <2>2. UNCHANGED <<Counted, Listed, LimitReached, Expected>>
    BY <2>1 DEF Counted, InFlight, Listed, Pushing, Changed, Held, LimitReached, Expected
  <2>3. Fits(Expected)' <=> Fits(Expected)
    BY <2>2 DEF Fits, Total, Bytes, Indexed
  <2> QED
    BY <2>1, <2>2, <2>3 DEF FitInv
<1> QED
  BY <1>1, <1>2

-----------------------------------------------------------------------------
(* The outcome *)

LEMMA DInvStep ==
  ASSUME DInv, [Next]_vars
  PROVE  DInv'
<1>1. IInv'
  BY InvStep DEF DInv
<1>2. CASE Next
  <2>1. FilesInv' /\ FitInv'
    <3>1. CASE BeginUpdate \/ BeginRebuild \/ Finish \/ RescanRequired \/ ScanFails
      BY <3>1, FilesBoundary, FitBoundary DEF DInv
    <3>2. CASE \E w \in Worker : Work(w)
      BY <3>2, FilesStep, FitStep DEF DInv
    <3>3. CASE Done \/ \E f \in File : FileIsGone(f) \/ Write(f)
      BY <3>3, FilesWorld, FitWorld DEF DInv
    <3>4. CASE \E w \in Worker : AllocationFails(w)
      BY <3>4 DEF AllocationFails, Fault, FilesInv, FitInv
    <3> QED
      BY <1>2, <3>1, <3>2, <3>3, <3>4 DEF Next
  <2> QED
    BY <1>1, <2>1 DEF DInv
<1>3. CASE UNCHANGED vars
  <2>1. UNCHANGED <<disk, entries, op, plan, todo, missing, pc, file, seen, got, torn, collected,
                    retainedBytes, retainedEntries, failure, undisturbed>>
    BY <1>3 DEF vars, index, scan, worker, shared
  <2>2. UNCHANGED <<Counted, Listed, LimitReached, Expected, Targets, Held, HeldFiles, Changed>>
    BY <2>1 DEF Counted, InFlight, Listed, Pushing, Changed, Held, HeldFiles, LimitReached,
                Expected, Targets
  <2>3. Fits(Expected)' <=> Fits(Expected)
    BY <2>2 DEF Fits, Total, Bytes, Indexed
  <2> QED
    BY <1>1, <2>1, <2>2, <2>3 DEF DInv, FilesInv, FitInv
<1> QED
  BY <1>2, <1>3

\* When the scan of an undisturbed operation is over and no worker failed, every
\* file has been read or is gone.
LEMMA AllIsCollected ==
  ASSUME IInv, FilesInv, undisturbed, ScanEnded, failure = None
  PROVE  /\ op = "rebuild" => collected = Expected
         /\ op = "update" => Replaced = Expected
<1>0. /\ disk \in Contents /\ entries \in Contents /\ collected \in Contents
      /\ op # "none" /\ todo = {} /\ HeldFiles = {}
  BY DEF IInv, TypeOK, ScanEnded, FilesInv, HeldFiles, Held
<1>1. Targets \subseteq missing \cup Changed
  BY <1>0 DEF FilesInv
<1>2. /\ \A f \in Changed : collected[f] = disk[f]
      /\ \A f \in missing : disk[f] = Absent
  BY <1>0 DEF FilesInv
<1>3. \A f \in File : f \notin Changed => collected[f] = Absent
  BY DEF Changed, Indexed
<1>4. CASE op = "rebuild"
  <2>1. \A f \in File : collected[f] = disk[f]
    BY <1>1, <1>2, <1>3, <1>4 DEF Targets
  <2> QED
    BY <1>0, <1>4, <2>1 DEF Expected, Contents
<1>5. CASE op = "update"
  <2>1. missing \cup Changed = plan.changed
    BY <1>1, <1>5 DEF Targets, IInv, PlanInv
  <2>2. Affected = plan.changed \cup plan.removed
    BY <2>1 DEF Affected
  <2>3. ASSUME NEW f \in File
        PROVE  Replaced[f] = IF f \in plan.changed THEN disk[f]
                             ELSE IF f \in plan.removed THEN Absent ELSE entries[f]
    <3>1. CASE f \in Changed
      BY <1>2, <2>1, <3>1 DEF Replaced
    <3>2. CASE f \notin Changed /\ f \in missing
      BY <1>2, <2>1, <2>2, <3>2 DEF Replaced
    <3>3. CASE f \notin Changed \cup missing
      BY <2>1, <2>2, <3>3 DEF Replaced
    <3> QED
      BY <3>1, <3>2, <3>3
  <2> QED
    BY <1>5, <2>3 DEF Replaced, Expected
<1> QED
  BY <1>4, <1>5

\* When no file is written and nothing fails while it runs, an operation is
\* accepted exactly if the index it should give is within the limits, and gives
\* that index: the order in which the workers count and finish does not show.
THEOREM OutcomeIsThatOfFiles == Spec => ResultIsDetermined
<1> DEFINE P == undisturbed' =>
                  /\ Ends("ok") => Fits(Expected) /\ entries' = Expected
                  /\ Ends("error") => ~Fits(Expected)
<1>1. Init => DInv
  BY InvInit, UpdateAssumption DEF DInv, Init, FilesInv, FitInv
<1>2. DInv /\ [Next]_vars => DInv'
  BY DInvStep
<1>3. DInv /\ [Next]_vars => (P \/ UNCHANGED vars)
  <2> SUFFICES ASSUME DInv, Next, undisturbed', NEW r \in {"ok", "error"}, Ends(r)
               PROVE  /\ r = "ok" => Fits(Expected) /\ entries' = Expected
                      /\ r = "error" => ~Fits(Expected)
    OBVIOUS
  <2>1. Finish
    BY OnlyFinishEnds DEF ScanFails, Fault
  <2>2. /\ IInv /\ FilesInv /\ FitInv /\ op # "none" /\ result' = r /\ undisturbed
    BY <2>1 DEF DInv, Ends, Finish, Refuse, Apply, Replace, EndScan
  <2>3. CASE Refuse
    <3>1. LimitReached /\ result' = "error"
      BY <2>3 DEF Refuse, LimitReached, Return
    <3> QED
      BY <2>2, <3>1 DEF FitInv
  <2>4. CASE Apply
    <3>1. Replaced = Expected
      BY <2>2, <2>4, AllIsCollected DEF Apply
    <3>2. CASE result' = "ok" /\ entries' = Replaced /\ Fits(Replaced)
      BY <2>2, <3>1, <3>2
    <3>3. CASE result' = "error" /\ (NextLen > MaxEntries \/ NextContentBytes > MaxContentBytes)
      <4>1. /\ Cardinality(Indexed(Replaced)) = NextLen
            /\ Total(Replaced, File) = NextContentBytes
        BY <2>2, PlanTypes, ReplacedFacts DEF IInv, TypeOK, WithinLimits, NextContentBytes
      <4>2. Cardinality(Indexed(Replaced)) \in Nat /\ Total(Replaced, File) \in Nat
        BY IndexedIsFinite, BytesAreFinite
      <4>3. ~Fits(Replaced)
        BY <3>3, <4>1, <4>2, UpdateAssumption DEF Fits
      <4> QED
        BY <2>2, <3>1, <3>3, <4>3
    <3>4. ~Refuse /\ ~Replace
      BY <2>4 DEF Apply, Refuse, Replace
    <3> QED
      BY <2>1, <2>2, <3>2, <3>3, <3>4, NewIndex
  <2>5. CASE Replace
    <3>1. collected = Expected
      BY <2>2, <2>5, AllIsCollected DEF Replace
    <3>2. ~Refuse /\ ~Apply
      BY <2>5 DEF Apply, Refuse, Replace
    <3>3. result' = "ok" /\ entries' = collected /\ Fits(collected)
      BY <2>1, <2>2, <3>2, NewIndex
    <3> QED
      BY <2>2, <3>1, <3>3
  <2> QED
    BY <2>1, <2>3, <2>4, <2>5 DEF Finish
<1>4. P \/ UNCHANGED vars <=> [P]_vars
  OBVIOUS
<1> QED
  BY <1>1, <1>2, <1>3, <1>4, PTL DEF Spec, ResultIsDetermined

=============================================================================
