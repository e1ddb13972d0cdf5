---------------------------- MODULE SearchProofs ----------------------------
(***************************************************************************)
(* For all sources, matches, limits and numbers of workers: the collector  *)
(* keeps within its limits, and its heaps hold the smallest of what the    *)
(* workers hand over, in whatever order they do.  So a search that ran to  *)
(* its end reports what a sequential one would, and a quiet one reports    *)
(* one match.                                                              *)
(***************************************************************************)
EXTENDS Search, FiniteSetTheorems, TLAPS

-----------------------------------------------------------------------------
(* Heaps *)

\* A finite set of numbers that is not empty has a largest element: the sets of
\* the larger ones have a least one, and that is empty.
LEMMA LargestExists ==
  ASSUME NEW heap \in SUBSET Nat, IsFiniteSet(heap), heap # {}
  PROVE  /\ Max(heap) \in heap
         /\ \A y \in heap : y <= Max(heap)
<1> DEFINE Larger(x) == {y \in heap : y > x}
           sets == {Larger(x) : x \in heap}
<1>1. sets \subseteq FiniteSubsetsOf(heap) /\ sets # {}
  <2>1. \A x \in heap : Larger(x) \in SUBSET heap
    OBVIOUS
  <2>2. \A x \in heap : IsFiniteSet(Larger(x))
    BY <2>1, FS_Subset
  <2> QED
    BY <2>1, <2>2 DEF FiniteSubsetsOf
<1>2. PICK least \in sets : \A s \in sets : <<s, least>> \notin StrictSubsetOrdering(heap)
  BY <1>1, FS_StrictSubsetOrderingWellFounded, WFMin, Zenon
<1>3. PICK x \in heap : least = Larger(x)
  BY <1>2
<1>4. \A y \in heap : y <= x
  <2> SUFFICES ASSUME NEW y \in heap, y > x PROVE FALSE
    OBVIOUS
  <2>1. Larger(y) \subseteq Larger(x)
    <3>1. \A z \in heap : z > y => z > x
      <4>1. \A z \in heap : z \in Nat
        OBVIOUS
      <4> QED
        BY <4>1
    <3> QED
      BY <3>1
  <2>2. y \in Larger(x) /\ y \notin Larger(y)
    OBVIOUS
  <2>3. <<Larger(y), Larger(x)>> \in StrictSubsetOrdering(heap)
    BY <2>1, <2>2 DEF StrictSubsetOrdering
  <2> QED
    BY <2>3, <1>2, <1>3
<1> QED
  BY <1>4 DEF Max

\* A step of a heap keeps its limit.
LEMMA KeepIsBounded ==
  ASSUME NEW heap \in SUBSET Nat, IsFiniteSet(heap), NEW limit \in Nat, NEW x \in Nat,
         Cardinality(heap) <= limit
  PROVE  /\ Keep(heap, limit, x) \subseteq heap \cup {x}
         /\ Cardinality(Keep(heap, limit, x)) <= limit
<1>1. Cardinality(heap) \in Nat
  BY FS_CardinalityType
<1>2. CASE Cardinality(heap) < limit
  <2>1. Cardinality(heap \cup {x}) \in {Cardinality(heap), Cardinality(heap) + 1}
    BY FS_AddElement
  <2>2. Keep(heap, limit, x) = heap \cup {x}
    BY <1>2 DEF Keep
  <2>3. Cardinality(heap \cup {x}) <= limit
    BY <1>1, <1>2, <2>1
  <2> QED
    BY <2>2, <2>3
<1>3. CASE ~(Cardinality(heap) < limit) /\ limit > 0 /\ x < Max(heap)
  <2>1. heap # {}
    BY <1>1, <1>3, FS_EmptySet
  <2>2. Max(heap) \in heap
    BY <2>1, LargestExists
  <2>3. /\ IsFiniteSet(heap \ {Max(heap)})
        /\ Cardinality(heap \ {Max(heap)}) = Cardinality(heap) - 1
    BY <2>2, FS_RemoveElement
  <2>4. Cardinality((heap \ {Max(heap)}) \cup {x}) <= limit
    <3>1. Cardinality((heap \ {Max(heap)}) \cup {x}) \in {Cardinality(heap) - 1, Cardinality(heap)}
      <4> HIDE DEF Max
      <4> DEFINE rest == heap \ {Max(heap)}
      <4>1. IsFiniteSet(rest) /\ Cardinality(rest) = Cardinality(heap) - 1
        BY <2>3
      <4> HIDE DEF rest
      <4>2. Cardinality(rest \cup {x})
              = IF x \in rest THEN Cardinality(rest) ELSE Cardinality(rest) + 1
        BY <4>1, FS_AddElement
      <4>3. Cardinality(rest \cup {x}) \in {Cardinality(heap) - 1, Cardinality(heap)}
        BY <1>1, <4>1, <4>2
      <4> QED
        BY <4>3 DEF rest
    <3> QED
      BY <1>1, <3>1
  <2> QED
    BY <1>3, <2>4 DEF Keep
<1>4. CASE ~(Cardinality(heap) < limit) /\ ~(limit > 0 /\ x < Max(heap))
  BY <1>4 DEF Keep
<1> QED
  BY <1>2, <1>3, <1>4

\* A heap that holds the smallest of what it was offered still does after it is
\* offered something new.
LEMMA KeepIsSmallest ==
  ASSUME NEW offered \in SUBSET Nat, IsFiniteSet(offered), NEW heap, NEW limit \in Nat,
         NEW x \in Nat, x \notin offered, IsSmallest(heap, limit, offered)
  PROVE  IsSmallest(Keep(heap, limit, x), limit, offered \cup {x})
<1>1. heap \in SUBSET Nat /\ IsFiniteSet(heap) /\ x \notin heap
  BY FS_Subset DEF IsSmallest
<1>2. Cardinality(heap) \in Nat /\ Cardinality(heap) <= limit
  BY <1>1, FS_CardinalityType DEF IsSmallest
<1>3. Cardinality(Keep(heap, limit, x)) <= limit
  BY <1>1, <1>2, KeepIsBounded
<1>4. CASE Cardinality(heap) < limit
  <2>1. heap = offered
    BY <1>2, <1>4 DEF IsSmallest
  <2>2. Keep(heap, limit, x) = offered \cup {x}
    BY <1>4, <2>1 DEF Keep
  <2> QED
    BY <1>3, <2>2 DEF IsSmallest
<1>5. CASE Cardinality(heap) = limit /\ limit > 0
  <2>1. heap # {}
    BY <1>5, FS_EmptySet
  <2>2. Max(heap) \in heap /\ \A y \in heap : y <= Max(heap)
    BY <1>1, <2>1, LargestExists
  <2>3. Max(heap) \in Nat
    BY <1>1, <2>2
  <2>4. CASE x < Max(heap)
    <3> DEFINE rest == heap \ {Max(heap)}
    <3>1. Keep(heap, limit, x) = rest \cup {x}
      BY <1>2, <1>5, <2>4 DEF Keep
    <3>2. IsFiniteSet(rest) /\ Cardinality(rest) = limit - 1
      BY <1>1, <1>5, <2>2, FS_RemoveElement
    <3>3. Cardinality(rest \cup {x}) = limit
      <4>1. x \notin rest
        BY <1>1
      <4> HIDE DEF rest
      <4>2. Cardinality(rest \cup {x}) = Cardinality(rest) + 1
        BY <3>2, <4>1, FS_AddElement
      <4> QED
        BY <3>2, <4>2
    <3>4. \A a \in rest \cup {x}, b \in (offered \cup {x}) \ (rest \cup {x}) : a < b
      <4> SUFFICES ASSUME NEW a \in rest \cup {x},
                          NEW b \in (offered \cup {x}) \ (rest \cup {x})
                   PROVE  a < b
        OBVIOUS
      <4>1. a \in Nat /\ b \in Nat /\ (a = x \/ (a \in heap /\ a < Max(heap)))
        BY <1>1, <2>2, <2>3
      <4>2. b = Max(heap) \/ b \in offered \ heap
        OBVIOUS
      <4>3. Max(heap) <= b
        BY <2>2, <2>3, <4>1, <4>2 DEF IsSmallest
      <4> QED
        BY <2>3, <2>4, <4>1, <4>3
    <3>5. rest \cup {x} \subseteq offered \cup {x}
      BY DEF IsSmallest
    <3> HIDE DEF rest
    <3> QED
      BY <3>1, <3>3, <3>4, <3>5 DEF IsSmallest
  <2>5. CASE ~(x < Max(heap))
    <3>1. Keep(heap, limit, x) = heap
      BY <1>2, <1>5, <2>5 DEF Keep
    <3>2. \A a \in heap : a < x
      BY <1>1, <2>2, <2>3, <2>5
    <3> QED
      BY <1>1, <1>5, <3>1, <3>2 DEF IsSmallest
  <2> QED
    BY <2>4, <2>5
<1>6. CASE limit = 0
  <2>1. heap = {}
    BY <1>1, <1>2, <1>6, FS_EmptySet
  <2>2. Keep(heap, limit, x) = {}
    BY <1>2, <1>6, <2>1 DEF Keep
  <2> QED
    BY <1>3, <1>6, <2>2, FS_EmptySet DEF IsSmallest
<1> QED
  BY <1>2, <1>4, <1>5, <1>6

-----------------------------------------------------------------------------
(* Types *)

USE DEF collectorVars, matchVars, fileVars, warningVars, quietVars, callVars, workerVars, vars

\* What an invariant of the collector may use of its limits.
LEMMA Limits ==
  ASSUME CollectorTypeOK
  PROVE  /\ options.limit \in Nat /\ options.warningLimit \in Nat /\ options.evidenceLimit \in Nat
         /\ IsFiniteSet(matches) /\ IsFiniteSet(files)
         /\ IsFiniteSet(fileEvidence) /\ IsFiniteSet(warnings)
         /\ matches \in SUBSET Nat /\ files \in SUBSET Nat
         /\ fileEvidence \in SUBSET Nat /\ warnings \in SUBSET Nat
<1>1. options \in Options
  BY DEF CollectorTypeOK
<1>2. options.limit \in Nat /\ options.warningLimit \in Nat /\ options.evidenceLimit \in Nat
  BY <1>1, CollectorAssumption
<1>3. /\ matches \in SUBSET Match /\ files \in SUBSET Source
      /\ fileEvidence \in SUBSET Source /\ warnings \in SUBSET Source
  BY DEF CollectorTypeOK
<1>4. /\ IsFiniteSet(matches) /\ IsFiniteSet(files)
      /\ IsFiniteSet(fileEvidence) /\ IsFiniteSet(warnings)
  BY <1>3, CollectorAssumption, FS_Subset
<1> QED
  BY <1>2, <1>3, <1>4, CollectorAssumption

\* The worker's source is one of its file's.
LEMMA CurrentIsSource ==
  ASSUME TypeOK, NEW w \in Worker, Active(w), Remains(w)
  PROVE  /\ file[w] \in File /\ at[w] \in 1..Len(Members[file[w]])
         /\ Members[file[w]] \in Seq(Source)
         /\ Current(w) \in Source
<1>1. file[w] \in File /\ at[w] \in 1..(Len(Members[file[w]]) + 1)
  BY DEF TypeOK
<1>2. Members[file[w]] \in Seq(Source)
  <2>1. Members \in [File -> Seq(Source)]
    BY SearchAssumption
  <2> QED
    BY <1>1, <2>1
<1>3. at[w] \in 1..Len(Members[file[w]])
  BY <1>1, <1>2 DEF Remains
<1>4. Members[file[w]][at[w]] \in Source
  BY <1>2, <1>3
<1> QED
  BY <1>1, <1>2, <1>3, <1>4 DEF Current

LEMMA RetainMatchTypes ==
  ASSUME CollectorTypeOK, NEW m \in Match, RetainMatch(m),
         UNCHANGED <<options, fileVars, filesWithMatches, warningVars, quietVars, fatal>>
  PROVE  CollectorTypeOK'
<1>1. m \in Nat
  BY CollectorAssumption
<1>2. /\ Keep(matches, options.limit, m) \subseteq matches \cup {m}
      /\ Cardinality(Keep(matches, options.limit, m)) <= options.limit
  BY <1>1, Limits, KeepIsBounded DEF CollectorTypeOK
<1>3. matches' \subseteq Match /\ Cardinality(matches') <= options'.limit
  BY <1>2 DEF RetainMatch, CollectorTypeOK
<1>4. truncated' \in BOOLEAN
  BY DEF RetainMatch, CollectorTypeOK
<1>5. given' \in [matches : SUBSET Match, sources : SUBSET Source, warnings : SUBSET Source]
  BY DEF RetainMatch, CollectorTypeOK
<1> QED
  BY <1>3, <1>4, <1>5 DEF CollectorTypeOK

LEMMA WarnTypes ==
  ASSUME CollectorTypeOK, NEW s \in Source, Warn(s),
         UNCHANGED <<options, matchVars, fileVars, filesWithMatches, quietVars, fatal>>
  PROVE  CollectorTypeOK'
<1>1. s \in Nat
  BY CollectorAssumption
<1>2. /\ Keep(warnings, options.warningLimit, s) \subseteq warnings \cup {s}
      /\ Cardinality(Keep(warnings, options.warningLimit, s)) <= options.warningLimit
  BY <1>1, Limits, KeepIsBounded DEF CollectorTypeOK
<1>3. warnings' \subseteq Source /\ Cardinality(warnings') <= options'.warningLimit
  BY <1>2 DEF Warn, CollectorTypeOK
<1>4. warningsDropped' \in Nat
  BY DEF Warn, CollectorTypeOK
<1>5. given' \in [matches : SUBSET Match, sources : SUBSET Source, warnings : SUBSET Source]
  BY DEF Warn, CollectorTypeOK
<1> QED
  BY <1>3, <1>4, <1>5 DEF CollectorTypeOK

LEMMA FinishFileTypes ==
  ASSUME CollectorTypeOK, NEW s \in Source, FinishFile(s),
         UNCHANGED <<options, matches, warningVars, quietVars, fatal>>
  PROVE  CollectorTypeOK'
<1>1. s \in Nat
  BY CollectorAssumption
<1>2. /\ Keep(files, options.limit, s) \subseteq files \cup {s}
      /\ Cardinality(Keep(files, options.limit, s)) <= options.limit
      /\ Keep(fileEvidence, options.evidenceLimit, s) \subseteq fileEvidence \cup {s}
      /\ Cardinality(Keep(fileEvidence, options.evidenceLimit, s)) <= options.evidenceLimit
  BY <1>1, Limits, KeepIsBounded DEF CollectorTypeOK
<1>3. files' \subseteq Source /\ Cardinality(files') <= options'.limit
  BY <1>2 DEF FinishFile, CollectorTypeOK
<1>4. fileEvidence' \subseteq Source /\ Cardinality(fileEvidence') <= options'.evidenceLimit
  BY <1>2 DEF FinishFile, CollectorTypeOK
<1>5. truncated' \in BOOLEAN /\ fileEvidenceTruncated' \in BOOLEAN
  BY DEF FinishFile, CollectorTypeOK
<1>6. counted' \in [Match -> Nat] /\ filesWithMatches' \in Nat
  BY DEF FinishFile, CountFile, CollectorTypeOK
<1>7. visited' \in [Source -> Nat]
  BY DEF FinishFile, CollectorTypeOK
<1>8. given' \in [matches : SUBSET Match, sources : SUBSET Source, warnings : SUBSET Source]
  BY DEF FinishFile, CollectorTypeOK
<1> QED
  BY <1>3, <1>4, <1>5, <1>6, <1>7, <1>8 DEF CollectorTypeOK

\* The workers' part of TypeOK.
WorkersTypeOK ==
  /\ pc \in [Worker -> Step]
  /\ file \in [Worker -> File \cup {0}]
  /\ at \in [Worker -> Nat]
  /\ left \in [Worker -> SUBSET Match]
  /\ found \in [Worker -> Match \cup {0}]
  /\ \A w \in Worker :
       /\ Active(w) => file[w] \in File /\ at[w] \in 1..(Len(Members[file[w]]) + 1)
       /\ Searching(w) => Remains(w)

\* The step of w leads it to p, with file f at position a, and so on.
Moves(w, p, f, a, l, m) ==
  /\ pc' = [pc EXCEPT ![w] = p] /\ file' = [file EXCEPT ![w] = f]
  /\ at' = [at EXCEPT ![w] = a] /\ left' = [left EXCEPT ![w] = l]
  /\ found' = [found EXCEPT ![w] = m]

MayBeAt(p, f, a) ==
  /\ p \in {"file", "source", "storeLines", "storeSpans"} =>
       f \in File /\ a \in 1..(Len(Members[f]) + 1)
  /\ p \in {"source", "storeLines", "storeSpans"} => a <= Len(Members[f])

\* A worker that does not move keeps its types.
LEMMA WorkerMoves ==
  ASSUME WorkersTypeOK, NEW w \in Worker, NEW p \in Step, NEW f \in File \cup {0},
         NEW a \in Nat, NEW l \in SUBSET Match, NEW m \in Match \cup {0},
         Moves(w, p, f, a, l, m), MayBeAt(p, f, a)
  PROVE  WorkersTypeOK'
<1> USE DEF Moves, MayBeAt
<1>1. /\ pc' \in [Worker -> Step] /\ file' \in [Worker -> File \cup {0}]
      /\ at' \in [Worker -> Nat] /\ left' \in [Worker -> SUBSET Match]
      /\ found' \in [Worker -> Match \cup {0}]
  BY DEF WorkersTypeOK
<1>2. ASSUME NEW v \in Worker
      PROVE  /\ Active(v)' => file'[v] \in File /\ at'[v] \in 1..(Len(Members[file'[v]]) + 1)
             /\ Searching(v)' => Remains(v)'
  <2>1. CASE v = w
    <3>1. pc'[v] = p /\ file'[v] = f /\ at'[v] = a
      BY <2>1 DEF WorkersTypeOK
    <3> QED
      BY <3>1 DEF Active, Searching, Remains
  <2>2. CASE v # w
    <3>1. pc'[v] = pc[v] /\ file'[v] = file[v] /\ at'[v] = at[v]
      BY <2>2 DEF WorkersTypeOK
    <3> QED
      BY <3>1 DEF WorkersTypeOK, Active, Searching, Remains
  <2> QED
    BY <2>1, <2>2
<1> QED
  BY <1>1, <1>2 DEF WorkersTypeOK

LEMMA Unmoved ==
  ASSUME NEW S, NEW T, NEW g \in [S -> T], NEW x \in S
  PROVE  g = [g EXCEPT ![x] = g[x]]
OBVIOUS

\* The functions of the workers, each as if w had set its value anew.
LEMMA WorkersAre ==
  ASSUME WorkersTypeOK, NEW w \in Worker
  PROVE  /\ pc[w] \in Step /\ pc = [pc EXCEPT ![w] = pc[w]]
         /\ file[w] \in File \cup {0} /\ file = [file EXCEPT ![w] = file[w]]
         /\ at[w] \in Nat /\ at = [at EXCEPT ![w] = at[w]]
         /\ left[w] \in SUBSET Match /\ left = [left EXCEPT ![w] = left[w]]
         /\ found[w] \in Match \cup {0} /\ found = [found EXCEPT ![w] = found[w]]
BY Unmoved DEF WorkersTypeOK

LEMMA TypeParts ==
  TypeOK <=> /\ CollectorTypeOK /\ WorkersTypeOK
             /\ kind \in Kinds /\ taken \subseteq File /\ completed \in Nat
             /\ outcome \in {"none", "complete", "stopped", "error", "panicked"}
BY DEF TypeOK, WorkersTypeOK

LEMMA LoopTypes ==
  ASSUME TypeOK, NEW w \in Worker,
         CheckQuit(w) \/ TakeFile(w) \/ NoFileLeft(w) \/ EndFile(w) \/ Abandon(w)
           \/ VisitorPanics(w)
  PROVE  TypeOK'
<1> USE DEF Goto, Step
<1>1. WorkersTypeOK
  BY TypeParts
<1>2. CASE CheckQuit(w) \/ NoFileLeft(w) \/ Abandon(w) \/ VisitorPanics(w)
  <2>1. PICK p \in {"done", "take", "panicked"} : pc' = [pc EXCEPT ![w] = p]
    BY <1>2 DEF CheckQuit, NoFileLeft, Abandon, VisitorPanics
  <2>2. UNCHANGED <<collectorVars, callVars, file, at, left, found>>
    BY <1>2 DEF CheckQuit, NoFileLeft, Abandon, VisitorPanics
  <2>3. Moves(w, p, file[w], at[w], left[w], found[w])
    BY <1>1, <2>1, <2>2, WorkersAre DEF Moves
  <2>5. MayBeAt(p, file[w], at[w]) /\ p \in Step
    BY DEF MayBeAt
  <2>6. WorkersTypeOK'
    BY <1>1, <2>3, <2>5, WorkersAre, WorkerMoves
  <2>4. CollectorTypeOK'
    BY <2>2, TypeParts DEF CollectorTypeOK
  <2> QED
    BY <2>2, <2>4, <2>6 DEF TypeOK, WorkersTypeOK
<1>3. CASE TakeFile(w)
  <2>1. PICK f \in File \ taken : taken' = taken \cup {f} /\ file' = [file EXCEPT ![w] = f]
    BY <1>3 DEF TakeFile
  <2>2. /\ pc' = [pc EXCEPT ![w] = "file"] /\ at' = [at EXCEPT ![w] = 1]
        /\ UNCHANGED <<collectorVars, kind, completed, outcome, left, found>>
    BY <1>3 DEF TakeFile
  <2>3. Members[f] \in Seq(Source) /\ f \in File
    BY SearchAssumption
  <2>6. MayBeAt("file", f, 1)
    BY <2>3 DEF MayBeAt
  <2>7. Moves(w, "file", f, 1, left[w], found[w])
    BY <1>1, <2>1, <2>2, WorkersAre DEF Moves
  <2>4. WorkersTypeOK'
    BY <1>1, <2>3, <2>6, <2>7, WorkersAre, WorkerMoves
  <2>5. CollectorTypeOK' /\ taken' \subseteq File
    BY <2>1, <2>2, TypeParts DEF CollectorTypeOK
  <2> QED
    BY <2>2, <2>4, <2>5 DEF TypeOK, WorkersTypeOK
<1>4. CASE EndFile(w)
  <2>1. /\ pc' = [pc EXCEPT ![w] = "check"] /\ file' = [file EXCEPT ![w] = 0]
        /\ UNCHANGED <<collectorVars, kind, taken, outcome, at, left, found>>
    BY <1>4 DEF EndFile
  <2>4. Moves(w, "check", 0, at[w], left[w], found[w])
    BY <1>1, <2>1, WorkersAre DEF Moves
  <2>2. WorkersTypeOK'
    BY <1>1, <2>4, WorkersAre, WorkerMoves DEF MayBeAt
  <2>3. CollectorTypeOK' /\ completed' \in Nat
    BY <1>4, <2>1, TypeParts DEF CollectorTypeOK, EndFile
  <2> QED
    BY <2>1, <2>2, <2>3 DEF TypeOK, WorkersTypeOK
<1> QED
  BY <1>2, <1>3, <1>4

\* What TypeOK says of a worker that has a file.
LEMMA AtSource ==
  ASSUME TypeOK, NEW w \in Worker, Active(w)
  PROVE  /\ MayBeAt("file", file[w], at[w])
         /\ Remains(w) => /\ MayBeAt("source", file[w], at[w])
                          /\ MayBeAt("storeLines", file[w], at[w])
                          /\ MayBeAt("storeSpans", file[w], at[w])
                          /\ MayBeAt("file", file[w], at[w] + 1)
         /\ MayBeAt("file", file[w], Len(Members[file[w]]) + 1)
         /\ Len(Members[file[w]]) + 1 \in Nat
<1>1. file[w] \in File /\ at[w] \in 1..(Len(Members[file[w]]) + 1)
  BY DEF TypeOK
<1>2. Members[file[w]] \in Seq(Source)
  <2>1. Members \in [File -> Seq(Source)]
    BY SearchAssumption
  <2> QED
    BY <1>1, <2>1
<1> QED
  BY <1>1, <1>2 DEF MayBeAt, Remains

LEMMA SourceTypes ==
  ASSUME TypeOK, NEW w \in Worker,
         \/ OpenSource(w) \/ SkipSource(w) \/ FindNul(w) \/ FailSource(w) \/ FindMatch(w)
         \/ FindQuietly(w) \/ StoreQuietLines(w) \/ StoreQuietSpans(w) \/ FinishSource(w)
  PROVE  TypeOK'
<1> USE DEF Goto, Step
<1>1. WorkersTypeOK /\ CollectorTypeOK
  BY TypeParts
<1>2. Active(w) /\ Remains(w)
  BY DEF OpenSource, SkipSource, FindNul, FailSource, FindMatch, FindQuietly, StoreQuietLines,
         StoreQuietSpans, FinishSource, Active, Searching, TypeOK
<1>3. Current(w) \in Source
  BY <1>2, CurrentIsSource
<1>4. UNCHANGED callVars
  BY DEF OpenSource, SkipSource, FindNul, FailSource, FindMatch, FindQuietly, StoreQuietLines,
         StoreQuietSpans, FinishSource
<1> SUFFICES CollectorTypeOK' /\ WorkersTypeOK'
  BY <1>4 DEF TypeOK, WorkersTypeOK
<1>5. CASE OpenSource(w)
  <2>1. Moves(w, "source", file[w], at[w], MatchesOf(Current(w)), found[w])
    BY <1>1, <1>5, WorkersAre DEF OpenSource, Moves
  <2>2. WorkersTypeOK'
    BY <1>1, <1>2, <2>1, WorkersAre, WorkerMoves, AtSource DEF MatchesOf
  <2>3. CollectorTypeOK'
    BY <1>1, <1>5 DEF OpenSource, CollectorTypeOK
  <2> QED
    BY <2>2, <2>3
<1>6. CASE SkipSource(w) \/ FindNul(w)
  <2>1. Moves(w, "file", file[w], at[w] + 1, left[w], found[w])
    BY <1>1, <1>6, WorkersAre DEF SkipSource, FindNul, NextSource, Moves
  <2>2. WorkersTypeOK'
    <3>1. at[w] + 1 \in Nat
      BY <1>1, WorkersAre
    <3> QED
      BY <1>1, <1>2, <2>1, <3>1, WorkersAre, WorkerMoves, AtSource
  <2>3. CollectorTypeOK'
    BY <1>1, <1>3, <1>6, WarnTypes DEF SkipSource, FindNul
  <2> QED
    BY <2>2, <2>3
<1>7. CASE FailSource(w)
  <2>1. pc[w] = "file"
    BY <1>7 DEF FailSource
  <2>2. Moves(w, "file", file[w], Len(Members[file[w]]) + 1, left[w], found[w])
    BY <1>1, <1>7, <2>1, WorkersAre DEF FailSource, Moves
  <2>3. WorkersTypeOK'
    BY <1>1, <1>2, <2>2, WorkersAre, WorkerMoves, AtSource
  <2>6. UNCHANGED <<options, matchVars, fileVars, filesWithMatches, quietVars>>
    BY <1>7 DEF FailSource
  <2>4. CASE options.policy = "Abort"
    <3>1. fatal' \in Source \cup {0} /\ UNCHANGED <<warningVars, given>>
      BY <1>1, <1>3, <1>7, <2>4 DEF FailSource, Fail, CollectorTypeOK
    <3> QED
      BY <1>1, <2>3, <2>6, <3>1 DEF CollectorTypeOK
  <2>5. CASE options.policy # "Abort"
    <3>1. Warn(Current(w)) /\ UNCHANGED fatal
      BY <1>7, <2>5 DEF FailSource
    <3> QED
      BY <1>1, <1>3, <2>3, <2>6, <3>1, WarnTypes
  <2> QED
    BY <2>4, <2>5
<1>8. CASE FindMatch(w)
  <2>1. PICK m \in left[w] :
          /\ left' = [left EXCEPT ![w] = @ \ {m}]
          /\ IF options.result = "Matches" THEN RetainMatch(m) ELSE UNCHANGED <<matchVars, given>>
    BY <1>8 DEF FindMatch
  <2>2. m \in Match /\ left[w] \ {m} \in SUBSET Match
    BY <1>1, <2>1, WorkersAre
  <2>3. pc[w] = "source" /\ UNCHANGED <<pc, file, at, found>>
    BY <1>8 DEF FindMatch
  <2>4. Moves(w, "source", file[w], at[w], left[w] \ {m}, found[w])
    BY <1>1, <2>1, <2>3, WorkersAre DEF Moves
  <2>5. WorkersTypeOK'
    BY <1>1, <1>2, <2>2, <2>4, WorkersAre, WorkerMoves, AtSource
  <2>8. UNCHANGED <<options, fileVars, filesWithMatches, warningVars, quietVars, fatal>>
    BY <1>8 DEF FindMatch
  <2>6. CASE options.result = "Matches"
    <3>1. RetainMatch(m)
      BY <2>1, <2>6
    <3> QED
      BY <1>1, <2>2, <2>5, <2>8, <3>1, RetainMatchTypes
  <2>7. CASE options.result # "Matches"
    <3>1. UNCHANGED <<matchVars, given>>
      BY <2>1, <2>7
    <3> QED
      BY <1>1, <2>5, <2>8, <3>1 DEF CollectorTypeOK
  <2> QED
    BY <2>6, <2>7
<1>9. CASE FindQuietly(w)
  <2>1. PICK m \in left[w] :
          /\ left' = [left EXCEPT ![w] = IF options.mode = "Lines" THEN @ \ {m} ELSE {}]
          /\ \/ QuietMatch /\ found' = [found EXCEPT ![w] = m] /\ Goto(w, "storeLines")
             \/ quietFound /\ UNCHANGED <<quietFound, found, pc>>
    BY <1>9 DEF FindQuietly
  <2> DEFINE l == IF options.mode = "Lines" THEN left[w] \ {m} ELSE {}
  <2>2. m \in Match /\ l \in SUBSET Match /\ pc[w] = "source"
    BY <1>1, <1>9, <2>1, WorkersAre DEF FindQuietly
  <2>3. PICK p \in {"source", "storeLines"}, n \in Match \cup {0} :
          Moves(w, p, file[w], at[w], l, n)
    <3>1. UNCHANGED <<file, at>>
      BY <1>9 DEF FindQuietly
    <3>2. left' = [left EXCEPT ![w] = l]
      BY <2>1
    <3>3. CASE QuietMatch /\ found' = [found EXCEPT ![w] = m] /\ Goto(w, "storeLines")
      BY <1>1, <2>2, <3>1, <3>2, <3>3, WorkersAre DEF Moves
    <3>4. CASE quietFound /\ UNCHANGED <<quietFound, found, pc>>
      <4>1. Moves(w, "source", file[w], at[w], l, found[w])
        BY <1>1, <2>2, <3>1, <3>2, <3>4, WorkersAre DEF Moves
      <4> QED
        BY <1>1, <4>1, WorkersAre
    <3> QED
      BY <2>1, <3>3, <3>4
  <2> HIDE DEF l
  <2>4. MayBeAt(p, file[w], at[w])
    BY <1>2, AtSource
  <2>5. WorkersTypeOK'
    BY <1>1, <2>2, <2>3, <2>4, WorkersAre, WorkerMoves
  <2>6. quietFound' \in BOOLEAN
    BY <1>1, <2>1 DEF QuietMatch, CollectorTypeOK
  <2>7. CollectorTypeOK'
    BY <1>1, <1>9, <2>6 DEF FindQuietly, CollectorTypeOK
  <2> QED
    BY <2>5, <2>7
<1>10. CASE StoreQuietLines(w)
  <2>1. Moves(w, "storeSpans", file[w], at[w], left[w], found[w])
    BY <1>1, <1>10, WorkersAre DEF StoreQuietLines, Moves
  <2>2. WorkersTypeOK'
    BY <1>1, <1>2, <2>1, WorkersAre, WorkerMoves, AtSource
  <2>3. CollectorTypeOK'
    BY <1>1, <1>10, WorkersAre DEF StoreQuietLines, CollectorTypeOK
  <2> QED
    BY <2>2, <2>3
<1>11. CASE StoreQuietSpans(w)
  <2>1. Moves(w, "source", file[w], at[w], left[w], found[w])
    BY <1>1, <1>11, WorkersAre DEF StoreQuietSpans, Moves
  <2>2. WorkersTypeOK'
    BY <1>1, <1>2, <2>1, WorkersAre, WorkerMoves, AtSource
  <2>3. CollectorTypeOK'
    BY <1>1, <1>11, WorkersAre DEF StoreQuietSpans, CollectorTypeOK
  <2> QED
    BY <2>2, <2>3
<1>12. CASE FinishSource(w)
  <2>1. Moves(w, "file", file[w], at[w] + 1, left[w], found[w])
    BY <1>1, <1>12, WorkersAre DEF FinishSource, NextSource, Moves
  <2>2. at[w] + 1 \in Nat
    BY <1>1, WorkersAre
  <2>3. WorkersTypeOK'
    BY ZenonT(40), <1>1, <1>2, <2>1, <2>2, WorkersAre, WorkerMoves, AtSource
  <2>6. UNCHANGED <<options, matches, warningVars, quietVars, fatal>>
    BY <1>12 DEF FinishSource
  <2>4. CASE Summarises
    <3>1. FinishFile(Current(w))
      BY <1>12, <2>4 DEF FinishSource
    <3> QED
      BY <1>1, <1>3, <2>3, <2>6, <3>1, FinishFileTypes
  <2>5. CASE ~Summarises
    <3>1. UNCHANGED <<fileVars, truncated, filesWithMatches, given>>
      BY <1>12, <2>5 DEF FinishSource
    <3> QED
      BY <1>1, <2>3, <2>6, <3>1 DEF CollectorTypeOK
  <2> QED
    BY <2>4, <2>5
<1> QED
  BY <1>5, <1>6, <1>7, <1>8, <1>9, <1>10, <1>11, <1>12

\* A search begins with empty heaps and idle workers.
LEMMA InitTypes == Init => TypeOK
<1> SUFFICES ASSUME Init PROVE TypeOK
  OBVIOUS
<1>1. options \in Options
  BY DEF Init, InitCollector
<1>2. options.limit \in Nat /\ options.warningLimit \in Nat /\ options.evidenceLimit \in Nat
  BY <1>1, CollectorAssumption
<1>3. CollectorTypeOK
  <2>1. Cardinality({}) = 0
    BY FS_EmptySet
  <2>2. InitCollector
    BY DEF Init
  <2>3. /\ matches = {} /\ files = {} /\ fileEvidence = {} /\ warnings = {}
        /\ counted \in [Match -> Nat] /\ visited \in [Source -> Nat]
        /\ given \in [matches : SUBSET Match, sources : SUBSET Source, warnings : SUBSET Source]
    BY <2>2 DEF InitCollector
  <2>4. /\ truncated = FALSE /\ fileEvidenceTruncated = FALSE /\ warningsDropped = 0
        /\ filesWithMatches = 0 /\ quietFound = FALSE /\ quietLines = 0 /\ quietSpans = 0
        /\ fatal = 0
    BY <2>2 DEF InitCollector
  <2>5. /\ Cardinality(matches) <= options.limit /\ Cardinality(files) <= options.limit
        /\ Cardinality(fileEvidence) <= options.evidenceLimit
        /\ Cardinality(warnings) <= options.warningLimit
    BY <1>2, <2>1, <2>3
  <2>6. matches \subseteq Match /\ files \subseteq Source /\ fileEvidence \subseteq Source
        /\ warnings \subseteq Source
    BY <2>3
  <2> QED
    BY <1>1, <2>3, <2>4, <2>5, <2>6 DEF CollectorTypeOK
<1> QED
  BY <1>3 DEF Init, TypeOK, Step, Active, Searching

LEMMA NextTypes == TypeOK /\ [Next]_vars => TypeOK'
<1> SUFFICES ASSUME TypeOK, [Next]_vars PROVE TypeOK'
  OBVIOUS
<1>1. ASSUME NEW w \in Worker, Work(w) PROVE TypeOK'
  BY <1>1, LoopTypes, SourceTypes DEF Work
<1>2. CASE Finish
  BY <1>2 DEF Finish, TypeOK, CollectorTypeOK, Active, Searching, Remains
<1>3. CASE Terminated \/ UNCHANGED vars
  BY <1>3 DEF Terminated, TypeOK, CollectorTypeOK, Active, Searching, Remains
<1> QED
  BY <1>1, <1>2, <1>3 DEF Next

\* The collector stays within its limits, and every worker at a source.
THEOREM SearchTypes == Spec => []TypeOK
BY InitTypes, NextTypes, PTL DEF Spec

-----------------------------------------------------------------------------
(* Nothing is handed over twice *)

\* Nothing of s has been handed over.
Fresh(s) == /\ s \notin given.sources \cup given.warnings
            /\ \A m \in given.matches : SourceOf[m] # s

\* What the worker has yet to hand over of its file.
Mine(w) ==
  /\ Active(w) => \A i \in 1..Len(Members[file[w]]) :
       i > at[w] \/ (i = at[w] /\ pc[w] = "file") => Fresh(Members[file[w]][i])
  /\ Searching(w) => /\ Current(w) \notin given.sources \cup given.warnings
                     /\ left[w] \subseteq MatchesOf(Current(w))
                     /\ left[w] \cap given.matches = {}

\* Every file has one worker, and it goes through the sources one by one.
HandedOnce ==
  /\ \A w \in Worker : Active(w) => file[w] \in taken
  /\ \A v, w \in Worker : Active(v) /\ Active(w) /\ v # w => file[v] # file[w]
  /\ \A f \in File \ taken : \A i \in 1..Len(Members[f]) : Fresh(Members[f][i])
  /\ \A w \in Worker : Mine(w)

\* A source is in one place of one file.
LEMMA Separate ==
  ASSUME NEW f \in File, NEW g \in File, NEW i \in 1..Len(Members[f]),
         NEW j \in 1..Len(Members[g]), Members[f][i] = Members[g][j]
  PROVE  f = g /\ i = j
BY SearchAssumption

\* The step hands over nothing but matches, the summary or a warning of c.
Gives(c) ==
  /\ given'.sources \subseteq given.sources \cup {c}
  /\ given'.warnings \subseteq given.warnings \cup {c}
  /\ given'.matches \subseteq given.matches \cup MatchesOf(c)

LEMMA OthersStayFresh ==
  ASSUME NEW c, Gives(c), NEW s, s # c, Fresh(s)
  PROVE  Fresh(s)'
BY DEF Gives, Fresh, MatchesOf

\* Only what w itself promises is to be shown of a step that hands over
\* something of its source.
LEMMA OthersKeepTheirs ==
  ASSUME TypeOK, HandedOnce, NEW w \in Worker, Active(w), Remains(w),
         Gives(Current(w)), UNCHANGED <<taken, file>>,
         \A v \in Worker \ {w} : pc'[v] = pc[v] /\ at'[v] = at[v] /\ left'[v] = left[v],
         Mine(w)'
  PROVE  HandedOnce'
<1>1. file[w] \in File /\ file[w] \in taken /\ at[w] \in 1..Len(Members[file[w]])
  BY CurrentIsSource DEF HandedOnce
<1>2. \A v \in Worker : Active(v)' => Active(v)
  BY DEF Active, Searching
<1>3. \A v \in Worker : Active(v)' => file'[v] \in taken'
  BY <1>2 DEF HandedOnce
<1>4. \A u, v \in Worker : Active(u)' /\ Active(v)' /\ u # v => file'[u] # file'[v]
  BY <1>2 DEF HandedOnce
<1>5. ASSUME NEW f \in File, f # file[w], NEW i \in 1..Len(Members[f]), Fresh(Members[f][i])
      PROVE  Fresh(Members[f][i])'
  <2>1. Members[f][i] # Current(w)
    BY <1>1, <1>5, Separate DEF Current
  <2> QED
    BY <1>5, <2>1, OthersStayFresh
<1>6. \A f \in File \ taken' : \A i \in 1..Len(Members[f]) : Fresh(Members[f][i])'
  BY <1>1, <1>5 DEF HandedOnce
<1>7. ASSUME NEW v \in Worker, v # w PROVE Mine(v)'
  <2>1. /\ pc'[v] = pc[v] /\ at'[v] = at[v] /\ left'[v] = left[v] /\ file'[v] = file[v]
        /\ Mine(v)
    BY <1>7 DEF HandedOnce
  <2>2. Active(v)' = Active(v) /\ Searching(v)' = Searching(v) /\ Current(v)' = Current(v)
    BY <2>1 DEF Active, Searching, Current
  <2>3. CASE ~Active(v)
    BY <2>2, <2>3 DEF Mine, Active
  <2>4. CASE Active(v)
    <3>1. file[v] \in File /\ file[v] # file[w]
      BY <1>7, <2>4 DEF HandedOnce, TypeOK
    <3>2. ASSUME NEW i \in 1..Len(Members[file[v]]),
                 i > at[v] \/ (i = at[v] /\ pc[v] = "file")
          PROVE  Fresh(Members[file[v]][i])'
      BY <1>5, <2>1, <2>4, <3>1, <3>2 DEF Mine
    <3>3. ASSUME Searching(v)
          PROVE  /\ Current(v) \notin given'.sources \cup given'.warnings
                 /\ left[v] \subseteq MatchesOf(Current(v))
                 /\ left[v] \cap given'.matches = {}
      <4>1. Remains(v) /\ at[v] \in 1..Len(Members[file[v]])
        BY <2>4, <3>3, CurrentIsSource DEF TypeOK
      <4>2. Current(v) # Current(w)
        BY <1>1, <3>1, <4>1, Separate DEF Current
      <4> QED
        BY <2>1, <3>3, <4>2 DEF Mine, Gives, MatchesOf
    <3> QED
      BY <2>1, <2>2, <3>2, <3>3 DEF Mine
  <2> QED
    BY <2>3, <2>4
<1>8. \A v \in Worker : Mine(v)'
  BY <1>7
<1> QED
  BY <1>3, <1>4, <1>6, <1>8 DEF HandedOnce

LEMMA LoopHandsOnce ==
  ASSUME TypeOK, HandedOnce, NEW w \in Worker,
         CheckQuit(w) \/ TakeFile(w) \/ NoFileLeft(w) \/ EndFile(w) \/ Abandon(w)
           \/ VisitorPanics(w)
  PROVE  HandedOnce'
<1> USE DEF Goto
<1>0. /\ pc \in [Worker -> Step] /\ file \in [Worker -> File \cup {0}] /\ at \in [Worker -> Nat]
  BY DEF TypeOK
<1>1. given' = given /\ left' = left
  BY DEF CheckQuit, TakeFile, NoFileLeft, EndFile, Abandon, VisitorPanics
<1>2. \A s : Fresh(s)' = Fresh(s)
  BY <1>1 DEF Fresh
<1>3. CASE ~TakeFile(w)
  <2>1. PICK p \in {"done", "take", "panicked", "check"} : pc' = [pc EXCEPT ![w] = p]
    BY <1>3 DEF CheckQuit, NoFileLeft, EndFile, Abandon, VisitorPanics
  <2>2. UNCHANGED <<taken, at>> /\ \A v \in Worker \ {w} : file'[v] = file[v]
    BY <1>0, <1>3 DEF CheckQuit, NoFileLeft, EndFile, Abandon, VisitorPanics
  <2>3. ~Active(w)' /\ ~Searching(w)'
    BY <1>0, <2>1 DEF Active, Searching
  <2>4. ASSUME NEW v \in Worker, v # w
        PROVE  /\ Active(v)' = Active(v) /\ Searching(v)' = Searching(v)
               /\ file'[v] = file[v] /\ at'[v] = at[v] /\ pc'[v] = pc[v]
               /\ Mine(v)'
    <3>1. pc'[v] = pc[v] /\ file'[v] = file[v] /\ at'[v] = at[v]
      BY <1>0, <2>1, <2>2, <2>4
    <3>2. Active(v)' = Active(v) /\ Searching(v)' = Searching(v) /\ Current(v)' = Current(v)
      BY <3>1 DEF Active, Searching, Current
    <3>3. Mine(v)
      BY DEF HandedOnce
    <3> QED
      BY <1>1, <1>2, <3>1, <3>2, <3>3 DEF Mine
  <2>5. Mine(w)'
    BY <2>3 DEF Mine
  <2>6. \A v \in Worker : Active(v)' => file'[v] \in taken'
    BY <2>2, <2>3, <2>4 DEF HandedOnce
  <2>7. \A u, v \in Worker : Active(u)' /\ Active(v)' /\ u # v => file'[u] # file'[v]
    BY <2>3, <2>4 DEF HandedOnce
  <2>8. \A f \in File \ taken' : \A i \in 1..Len(Members[f]) : Fresh(Members[f][i])'
    BY <1>2, <2>2 DEF HandedOnce
  <2>9. \A v \in Worker : Mine(v)'
    BY <2>4, <2>5
  <2> QED
    BY <2>6, <2>7, <2>8, <2>9 DEF HandedOnce
<1>4. CASE TakeFile(w)
  <2>1. PICK f \in File \ taken : taken' = taken \cup {f} /\ file' = [file EXCEPT ![w] = f]
    BY <1>4 DEF TakeFile
  <2>2. pc' = [pc EXCEPT ![w] = "file"] /\ at' = [at EXCEPT ![w] = 1]
    BY <1>4 DEF TakeFile
  <2>3. pc'[w] = "file" /\ file'[w] = f /\ at'[w] = 1
    BY <1>0, <2>1, <2>2
  <2>4. ASSUME NEW v \in Worker, v # w
        PROVE  /\ Active(v)' = Active(v) /\ file'[v] = file[v]
               /\ Mine(v)'
    <3>1. pc'[v] = pc[v] /\ file'[v] = file[v] /\ at'[v] = at[v]
      BY <1>0, <2>1, <2>2, <2>4
    <3>2. Active(v)' = Active(v) /\ Searching(v)' = Searching(v) /\ Current(v)' = Current(v)
      BY <3>1 DEF Active, Searching, Current
    <3>3. Mine(v)
      BY DEF HandedOnce
    <3> QED
      BY <1>1, <1>2, <3>1, <3>2, <3>3 DEF Mine
  <2>5. \A i \in 1..Len(Members[f]) : Fresh(Members[f][i])'
    BY <1>2, <2>1 DEF HandedOnce
  <2>6. Mine(w)'
    BY <2>3, <2>5 DEF Mine, Searching
  <2>7. \A v \in Worker : Active(v)' => file'[v] \in taken'
    BY <2>1, <2>3, <2>4 DEF HandedOnce
  <2>8. \A v \in Worker : Active(v) => file[v] # f
    BY <2>1 DEF HandedOnce
  <2>9. \A u, v \in Worker : Active(u)' /\ Active(v)' /\ u # v => file'[u] # file'[v]
    BY <2>3, <2>4, <2>8 DEF HandedOnce
  <2>10. \A g \in File \ taken' : \A i \in 1..Len(Members[g]) : Fresh(Members[g][i])'
    BY <1>2, <2>1 DEF HandedOnce
  <2>11. \A v \in Worker : Mine(v)'
    BY <2>4, <2>6
  <2> QED
    BY <2>7, <2>9, <2>10, <2>11 DEF HandedOnce
<1> QED
  BY <1>3, <1>4

\* A worker that goes on to a later source promises less.
LEMMA GoesOn ==
  ASSUME TypeOK, HandedOnce, NEW w \in Worker, Active(w), Remains(w), Gives(Current(w)),
         UNCHANGED file, pc'[w] = "file", NEW a \in Nat, a > at[w], at'[w] = a
  PROVE  Mine(w)'
<1>1. file[w] \in File /\ at[w] \in 1..Len(Members[file[w]])
  BY CurrentIsSource
<1>2. ASSUME NEW i \in 1..Len(Members[file[w]]), i >= a
      PROVE  Fresh(Members[file[w]][i])'
  <2>1. i > at[w]
    BY <1>1, <1>2
  <2>2. Fresh(Members[file[w]][i])
    BY <2>1 DEF HandedOnce, Mine
  <2>3. Members[file[w]][i] # Current(w)
    BY <1>1, <2>1, Separate DEF Current
  <2> QED
    BY <2>2, <2>3, OthersStayFresh
<1>3. (\A i \in 1..Len(Members[file[w]]) :
         i > at[w] \/ (i = at[w] /\ pc[w] = "file") => Fresh(Members[file[w]][i]))'
  BY <1>1, <1>2
<1> QED
  BY <1>3 DEF Mine, Searching

LEMMA SourceHandsOnce ==
  ASSUME TypeOK, HandedOnce, NEW w \in Worker,
         \/ OpenSource(w) \/ SkipSource(w) \/ FindNul(w) \/ FailSource(w) \/ FindMatch(w)
         \/ FindQuietly(w) \/ StoreQuietLines(w) \/ StoreQuietSpans(w) \/ FinishSource(w)
  PROVE  HandedOnce'
<1> USE DEF Goto
<1>0. /\ pc \in [Worker -> Step] /\ file \in [Worker -> File \cup {0}] /\ at \in [Worker -> Nat]
      /\ left \in [Worker -> SUBSET Match]
      /\ given \in [matches : SUBSET Match, sources : SUBSET Source, warnings : SUBSET Source]
  BY DEF TypeOK, CollectorTypeOK
<1>1. Active(w) /\ Remains(w)
  BY DEF OpenSource, SkipSource, FindNul, FailSource, FindMatch, FindQuietly, StoreQuietLines,
         StoreQuietSpans, FinishSource, Active, Searching, TypeOK
<1>2. file[w] \in File /\ at[w] \in 1..Len(Members[file[w]]) /\ Current(w) \in Source
  BY <1>1, CurrentIsSource
<1>3. UNCHANGED <<taken, file>>
  BY DEF OpenSource, SkipSource, FindNul, FailSource, FindMatch, FindQuietly, StoreQuietLines,
         StoreQuietSpans, FinishSource
<1>4. Mine(w)
  BY DEF HandedOnce
<1> SUFFICES /\ Gives(Current(w))
             /\ \A v \in Worker \ {w} : pc'[v] = pc[v] /\ at'[v] = at[v] /\ left'[v] = left[v]
             /\ Mine(w)'
  BY <1>1, <1>3, OthersKeepTheirs
<1>5. CASE OpenSource(w)
  <2>1. /\ pc[w] = "file" /\ pc' = [pc EXCEPT ![w] = "source"] /\ at' = at /\ given' = given
        /\ left' = [left EXCEPT ![w] = MatchesOf(Current(w))]
    BY <1>5 DEF OpenSource
  <2>2. Gives(Current(w)) /\ \A s : Fresh(s)' = Fresh(s)
    BY <2>1 DEF Gives, Fresh
  <2>3. Fresh(Current(w))
    BY <1>1, <1>2, <1>4, <2>1 DEF Mine, Current
  <2>4. /\ pc'[w] = "source" /\ left'[w] = MatchesOf(Current(w)) /\ Current(w)' = Current(w)
        /\ at'[w] = at[w] /\ file'[w] = file[w]
    BY <1>0, <1>3, <2>1 DEF Current
  <2>5. Mine(w)'
    BY <1>1, <1>4, <2>1, <2>2, <2>3, <2>4 DEF Mine, Fresh, MatchesOf
  <2> QED
    BY <1>0, <2>1, <2>2, <2>5
<1>6. CASE SkipSource(w) \/ FindNul(w)
  <2>1. /\ Warn(Current(w)) /\ pc' = [pc EXCEPT ![w] = "file"]
        /\ at' = [at EXCEPT ![w] = at[w] + 1] /\ left' = left
    BY <1>6 DEF SkipSource, FindNul, NextSource
  <2>2. Gives(Current(w))
    BY <1>0, <2>1 DEF Warn, Gives
  <2>3. pc'[w] = "file" /\ at'[w] = at[w] + 1 /\ at[w] + 1 \in Nat /\ at[w] + 1 > at[w]
    BY <1>0, <2>1
  <2>4. Mine(w)'
    BY <1>1, <1>3, <2>2, <2>3, GoesOn
  <2> QED
    BY <1>0, <2>1, <2>2, <2>4
<1>7. CASE FailSource(w)
  <2> DEFINE a == Len(Members[file[w]]) + 1
  <2>1. pc[w] = "file" /\ pc' = pc /\ at' = [at EXCEPT ![w] = a] /\ left' = left
    BY <1>7 DEF FailSource
  <2>2. Gives(Current(w))
    BY <1>0, <1>7 DEF FailSource, Warn, Gives
  <2>3. a \in Nat /\ a > at[w]
    BY <1>1, <1>2, CurrentIsSource
  <2>4. pc'[w] = "file" /\ at'[w] = a
    BY <1>0, <2>1
  <2> HIDE DEF a
  <2>5. Mine(w)'
    BY <1>1, <1>3, <2>2, <2>3, <2>4, GoesOn
  <2> QED
    BY <1>0, <2>1, <2>2, <2>5
<1>8. CASE FindMatch(w)
  <2>1. PICK m \in left[w] :
          /\ left' = [left EXCEPT ![w] = @ \ {m}]
          /\ IF options.result = "Matches" THEN RetainMatch(m) ELSE UNCHANGED <<matchVars, given>>
    BY <1>8 DEF FindMatch
  <2>2. pc[w] = "source" /\ UNCHANGED <<pc, file, at>>
    BY <1>8 DEF FindMatch
  <2>3. left'[w] = left[w] \ {m}
    BY <1>0, <2>1
  <2>4. Searching(w) /\ Searching(w)'
    BY <2>2 DEF Searching
  <2>5. /\ Current(w) \notin given.sources \cup given.warnings
        /\ left[w] \subseteq MatchesOf(Current(w)) /\ left[w] \cap given.matches = {}
    BY <1>4, <2>4 DEF Mine
  <2>6. given' = given \/ given' = [given EXCEPT !.matches = @ \cup {m}]
    BY <2>1 DEF RetainMatch
  <2>7. /\ given'.sources = given.sources /\ given'.warnings = given.warnings
        /\ given'.matches \subseteq given.matches \cup {m}
    BY <1>0, <2>6
  <2>8. Gives(Current(w))
    BY <2>1, <2>5, <2>7 DEF Gives
  <2>9. Current(w)' = Current(w)
    BY <2>2 DEF Current
  <2>10. ASSUME NEW i \in 1..Len(Members[file[w]]), i > at[w]
         PROVE  Fresh(Members[file[w]][i])'
    <3>1. Fresh(Members[file[w]][i])
      BY <1>1, <1>4, <2>10 DEF Mine
    <3>2. Members[file[w]][i] # Current(w)
      BY <1>2, <2>10, Separate DEF Current
    <3>3. file'[w] = file[w]
      BY <2>2
    <3> QED
      BY <2>8, <3>1, <3>2, <3>3, OthersStayFresh
  <2>11. Mine(w)'
    BY <2>2, <2>3, <2>5, <2>7, <2>9, <2>10 DEF Mine, MatchesOf
  <2> QED
    BY <1>0, <2>1, <2>2, <2>8, <2>11
<1>9. CASE FindQuietly(w) \/ StoreQuietLines(w) \/ StoreQuietSpans(w)
  <2>1. /\ given' = given /\ at' = at
        /\ \E p \in {"source", "storeLines", "storeSpans"} : pc' = [pc EXCEPT ![w] = p]
    <3>1. CASE FindQuietly(w)
      <4>1. pc = [pc EXCEPT ![w] = "source"]
        BY <1>0, <3>1 DEF FindQuietly
      <4> QED
        BY <3>1, <4>1 DEF FindQuietly
    <3>2. CASE StoreQuietLines(w) \/ StoreQuietSpans(w)
      BY <3>2 DEF StoreQuietLines, StoreQuietSpans
    <3> QED
      BY <1>9, <3>1, <3>2
  <2>2. left'[w] \subseteq left[w] /\ \A v \in Worker \ {w} : left'[v] = left[v]
    BY <1>0, <1>9 DEF FindQuietly, StoreQuietLines, StoreQuietSpans
  <2>3. Searching(w) /\ Searching(w)' /\ Current(w)' = Current(w) /\ pc'[w] # "file"
    BY <1>0, <1>3, <1>9, <2>1 DEF FindQuietly, StoreQuietLines, StoreQuietSpans, Searching, Current
  <2>4. Gives(Current(w)) /\ \A s : Fresh(s)' = Fresh(s)
    BY <2>1 DEF Gives, Fresh
  <2>5. Mine(w)'
    BY <1>1, <1>3, <1>4, <2>1, <2>2, <2>3, <2>4 DEF Mine
  <2> QED
    BY <1>0, <2>1, <2>2, <2>4, <2>5
<1>10. CASE FinishSource(w)
  <2>1. /\ pc' = [pc EXCEPT ![w] = "file"]
        /\ at' = [at EXCEPT ![w] = at[w] + 1] /\ left' = left
    BY <1>10 DEF FinishSource, NextSource
  <2>2. given' = given \/ given' = [given EXCEPT !.sources = @ \cup {Current(w)}]
    BY <1>10 DEF FinishSource, FinishFile
  <2>3. Gives(Current(w))
    BY <1>0, <2>2 DEF Gives
  <2>4. pc'[w] = "file" /\ at'[w] = at[w] + 1 /\ at[w] + 1 \in Nat /\ at[w] + 1 > at[w]
    BY <1>0, <2>1
  <2>5. Mine(w)'
    BY <1>1, <1>3, <2>3, <2>4, GoesOn
  <2> QED
    BY <1>0, <2>1, <2>3, <2>5
<1> QED
  BY <1>5, <1>6, <1>7, <1>8, <1>9, <1>10

LEMMA NextHandsOnce == TypeOK /\ HandedOnce /\ [Next]_vars => HandedOnce'
<1> SUFFICES ASSUME TypeOK, HandedOnce, [Next]_vars PROVE HandedOnce'
  OBVIOUS
<1>1. ASSUME NEW w \in Worker, Work(w) PROVE HandedOnce'
  BY <1>1, LoopHandsOnce, SourceHandsOnce DEF Work
<1>2. CASE UNCHANGED <<pc, file, at, left, taken, given>>
  BY <1>2 DEF HandedOnce, Mine, Fresh, Active, Searching, Current
<1>3. CASE Finish \/ Terminated \/ UNCHANGED vars
  BY <1>2, <1>3 DEF Finish, Terminated
<1> QED
  BY <1>1, <1>3 DEF Next

LEMMA InitHandsOnce == Init => HandedOnce
BY DEF Init, InitCollector, HandedOnce, Mine, Fresh, Active, Searching

-----------------------------------------------------------------------------
(* The heaps *)

LEMMA InitSmallest == Init => HeapsKeepSmallest
<1> SUFFICES ASSUME Init PROVE HeapsKeepSmallest
  OBVIOUS
<1>1. \A n \in Nat : IsSmallest({}, n, {})
  BY FS_EmptySet DEF IsSmallest
<1>2. options.limit \in Nat /\ options.warningLimit \in Nat /\ options.evidenceLimit \in Nat
  BY InitTypes, Limits DEF TypeOK
<1>3. /\ matches = {} /\ files = {} /\ fileEvidence = {} /\ warnings = {}
      /\ given.matches = {} /\ given.sources = {} /\ given.warnings = {}
  BY DEF Init, InitCollector
<1>4. {s \in given.sources : Lists(s)} = {} /\ {s \in given.sources : RetainsEvidence(s)} = {}
  BY <1>3
<1> QED
  BY <1>1, <1>2, <1>3, <1>4 DEF HeapsKeepSmallest

\* What the heaps were offered are finite sets of numbers.
LEMMA Offers ==
  ASSUME CollectorTypeOK
  PROVE  /\ given.matches \in SUBSET Nat /\ IsFiniteSet(given.matches)
         /\ given.sources \in SUBSET Nat /\ IsFiniteSet(given.sources)
         /\ given.warnings \in SUBSET Nat /\ IsFiniteSet(given.warnings)
         /\ IsFiniteSet({s \in given.sources : Lists(s)})
         /\ IsFiniteSet({s \in given.sources : RetainsEvidence(s)})
<1>1. /\ given.matches \in SUBSET Match
      /\ given.sources \in SUBSET Source /\ given.warnings \in SUBSET Source
  BY DEF CollectorTypeOK
<1>2. /\ {s \in given.sources : Lists(s)} \in SUBSET Source
      /\ {s \in given.sources : RetainsEvidence(s)} \in SUBSET Source
  BY <1>1
<1>3. IsFiniteSet(Match) /\ IsFiniteSet(Source) /\ Match \in SUBSET Nat /\ Source \in SUBSET Nat
  BY CollectorAssumption
<1>4. \A S \in SUBSET Match : IsFiniteSet(S)
  BY <1>3, FS_Subset
<1>5. \A S \in SUBSET Source : IsFiniteSet(S)
  BY <1>3, FS_Subset
<1> QED
  BY <1>1, <1>2, <1>3, <1>4, <1>5

LEMMA RetainMatchKeeps ==
  ASSUME CollectorTypeOK, HeapsKeepSmallest, NEW m \in Match \ given.matches, RetainMatch(m),
         UNCHANGED <<options, fileVars, warningVars>>
  PROVE  HeapsKeepSmallest'
<1>1. m \in Nat
  BY CollectorAssumption
<1>2. IsSmallest(Keep(matches, options.limit, m), options.limit, given.matches \cup {m})
  BY <1>1, Limits, Offers, KeepIsSmallest DEF HeapsKeepSmallest
<1>3. /\ given'.matches = given.matches \cup {m}
      /\ given'.sources = given.sources /\ given'.warnings = given.warnings
  BY DEF RetainMatch, CollectorTypeOK
<1>4. \A s : Lists(s)' = Lists(s) /\ RetainsEvidence(s)' = RetainsEvidence(s)
  BY DEF Lists, Counts, RetainsEvidence
<1>5. IsSmallest(matches', options'.limit, given'.matches)
  BY <1>2, <1>3 DEF RetainMatch
<1>6. /\ IsSmallest(files, options.limit, {s \in given.sources : Lists(s)})'
      /\ IsSmallest(fileEvidence, options.evidenceLimit,
                    {s \in given.sources : RetainsEvidence(s)})'
      /\ IsSmallest(warnings, options.warningLimit, given.warnings)'
  BY <1>3, <1>4 DEF HeapsKeepSmallest, IsSmallest
<1> QED
  BY <1>5, <1>6 DEF HeapsKeepSmallest

LEMMA WarnKeeps ==
  ASSUME CollectorTypeOK, HeapsKeepSmallest, NEW c \in Source \ given.warnings, Warn(c),
         UNCHANGED <<options, matchVars, fileVars>>
  PROVE  HeapsKeepSmallest'
<1>1. c \in Nat
  BY CollectorAssumption
<1>2. IsSmallest(Keep(warnings, options.warningLimit, c), options.warningLimit,
                 given.warnings \cup {c})
  BY <1>1, Limits, Offers, KeepIsSmallest DEF HeapsKeepSmallest
<1>3. /\ given'.warnings = given.warnings \cup {c}
      /\ given'.sources = given.sources /\ given'.matches = given.matches
  BY DEF Warn, CollectorTypeOK
<1>4. \A s : Lists(s)' = Lists(s) /\ RetainsEvidence(s)' = RetainsEvidence(s)
  BY DEF Lists, Counts, RetainsEvidence
<1>5. IsSmallest(warnings', options'.warningLimit, given'.warnings)
  BY <1>2, <1>3 DEF Warn
<1>6. /\ IsSmallest(files, options.limit, {s \in given.sources : Lists(s)})'
      /\ IsSmallest(fileEvidence, options.evidenceLimit,
                    {s \in given.sources : RetainsEvidence(s)})'
      /\ IsSmallest(matches, options.limit, given.matches)'
  BY <1>3, <1>4 DEF HeapsKeepSmallest, IsSmallest
<1> QED
  BY <1>5, <1>6 DEF HeapsKeepSmallest

LEMMA FinishFileKeeps ==
  ASSUME CollectorTypeOK, HeapsKeepSmallest, NEW c \in Source \ given.sources, FinishFile(c),
         UNCHANGED <<options, matches, warningVars>>
  PROVE  HeapsKeepSmallest'
<1> DEFINE listed == {s \in given.sources : Lists(s)}
           shown == {s \in given.sources : RetainsEvidence(s)}
<1>1. /\ c \in Nat /\ c \notin listed /\ c \notin shown
      /\ listed \in SUBSET Nat /\ shown \in SUBSET Nat
      /\ IsFiniteSet(listed) /\ IsFiniteSet(shown)
  BY CollectorAssumption, Offers
<1>2. /\ IsSmallest(files, options.limit, listed)
      /\ IsSmallest(fileEvidence, options.evidenceLimit, shown)
      /\ IsSmallest(matches, options.limit, given.matches)
      /\ IsSmallest(warnings, options.warningLimit, given.warnings)
  BY DEF HeapsKeepSmallest
<1>3. /\ given'.sources = given.sources \cup {c}
      /\ given'.warnings = given.warnings /\ given'.matches = given.matches
  BY DEF FinishFile, CollectorTypeOK
<1>4. \A s : Lists(s)' = Lists(s) /\ RetainsEvidence(s)' = RetainsEvidence(s)
  BY DEF Lists, Counts, RetainsEvidence
<1>5. /\ listed' = IF Lists(c) THEN listed \cup {c} ELSE listed
      /\ shown' = IF RetainsEvidence(c) THEN shown \cup {c} ELSE shown
  BY <1>3, <1>4
<1>6. /\ files' = IF Lists(c) THEN Keep(files, options.limit, c) ELSE files
      /\ fileEvidence' = IF RetainsEvidence(c) THEN Keep(fileEvidence, options.evidenceLimit, c)
                         ELSE fileEvidence
  BY DEF FinishFile
<1> HIDE DEF listed, shown
<1>7. IsSmallest(files', options.limit, listed')
  <2>1. IsSmallest(Keep(files, options.limit, c), options.limit, listed \cup {c})
    BY <1>1, <1>2, Limits, KeepIsSmallest
  <2> QED
    BY <1>2, <1>5, <1>6, <2>1
<1>8. IsSmallest(fileEvidence', options.evidenceLimit, shown')
  <2>1. IsSmallest(Keep(fileEvidence, options.evidenceLimit, c), options.evidenceLimit,
                   shown \cup {c})
    BY <1>1, <1>2, Limits, KeepIsSmallest
  <2> QED
    BY <1>2, <1>5, <1>6, <2>1
<1>9. /\ IsSmallest(matches', options'.limit, given'.matches)
      /\ IsSmallest(warnings', options'.warningLimit, given'.warnings)
  BY <1>2, <1>3
<1> QED
  BY <1>7, <1>8, <1>9 DEF HeapsKeepSmallest, listed, shown

LEMMA NextSmallest ==
  TypeOK /\ HandedOnce /\ HeapsKeepSmallest /\ [Next]_vars => HeapsKeepSmallest'
<1> SUFFICES ASSUME TypeOK, HandedOnce, HeapsKeepSmallest, [Next]_vars
             PROVE  HeapsKeepSmallest'
  OBVIOUS
<1>1. CollectorTypeOK
  BY DEF TypeOK
<1>2. CASE UNCHANGED <<options, matches, files, fileEvidence, warnings, given>>
  BY <1>2 DEF HeapsKeepSmallest, IsSmallest, Lists, Counts, RetainsEvidence
<1>3. ASSUME NEW w \in Worker, SkipSource(w) \/ FindNul(w) \/ FailSource(w)
      PROVE  HeapsKeepSmallest'
  <2>1. Active(w) /\ Remains(w)
    BY <1>3 DEF SkipSource, FindNul, FailSource, Active, Searching, TypeOK
  <2>2. /\ Current(w) \in Source /\ at[w] \in 1..Len(Members[file[w]])
    BY <2>1, CurrentIsSource
  <2>3. Current(w) \notin given.warnings
    <3>1. CASE pc[w] = "file"
      BY <2>1, <2>2, <3>1 DEF HandedOnce, Mine, Fresh, Current
    <3>2. CASE Searching(w)
      BY <3>2 DEF HandedOnce, Mine
    <3> QED
      BY <2>1, <3>1, <3>2 DEF Active
  <2>4. CASE Warn(Current(w))
    <3>1. UNCHANGED <<options, matchVars, fileVars>>
      BY <1>3 DEF SkipSource, FindNul, FailSource
    <3> QED
      BY <1>1, <2>2, <2>3, <2>4, <3>1, WarnKeeps
  <2>5. CASE ~Warn(Current(w))
    BY <1>2, <1>3, <2>5 DEF SkipSource, FindNul, FailSource
  <2> QED
    BY <2>4, <2>5
<1>4. ASSUME NEW w \in Worker, FindMatch(w) PROVE HeapsKeepSmallest'
  <2>1. PICK m \in left[w] :
          IF options.result = "Matches" THEN RetainMatch(m) ELSE UNCHANGED <<matchVars, given>>
    BY <1>4 DEF FindMatch
  <2>2. Searching(w)
    BY <1>4 DEF FindMatch, Searching
  <2>3. m \in Match \ given.matches
    BY <2>1, <2>2 DEF HandedOnce, Mine, TypeOK
  <2>4. UNCHANGED <<options, fileVars, warningVars>>
    BY <1>4 DEF FindMatch
  <2>5. CASE options.result = "Matches"
    <3>1. RetainMatch(m)
      BY <2>1, <2>5
    <3> QED
      BY <1>1, <2>3, <2>4, <3>1, RetainMatchKeeps
  <2>6. CASE options.result # "Matches"
    BY <1>2, <2>1, <2>4, <2>6
  <2> QED
    BY <2>5, <2>6
<1>5. ASSUME NEW w \in Worker, FinishSource(w) PROVE HeapsKeepSmallest'
  <2>1. Searching(w) /\ Active(w) /\ Remains(w)
    BY <1>5 DEF FinishSource, Active, Searching, TypeOK
  <2>2. Current(w) \in Source \ given.sources
    BY <2>1, CurrentIsSource DEF HandedOnce, Mine
  <2>3. UNCHANGED <<options, matches, warningVars>>
    BY <1>5 DEF FinishSource
  <2>4. CASE Summarises
    <3>1. FinishFile(Current(w))
      BY <1>5, <2>4 DEF FinishSource
    <3> QED
      BY <1>1, <2>2, <2>3, <3>1, FinishFileKeeps
  <2>5. CASE ~Summarises
    BY <1>2, <1>5, <2>3, <2>5 DEF FinishSource
  <2> QED
    BY <2>4, <2>5
<1>6. ASSUME NEW w \in Worker,
             \/ CheckQuit(w) \/ TakeFile(w) \/ NoFileLeft(w) \/ EndFile(w) \/ Abandon(w)
             \/ OpenSource(w) \/ FindQuietly(w) \/ StoreQuietLines(w) \/ StoreQuietSpans(w)
             \/ VisitorPanics(w)
      PROVE  HeapsKeepSmallest'
  <2>1. UNCHANGED <<options, matches, files, fileEvidence, warnings, given>>
    BY <1>6 DEF CheckQuit, TakeFile, NoFileLeft, EndFile, Abandon, OpenSource, FindQuietly,
                StoreQuietLines, StoreQuietSpans, VisitorPanics
  <2> QED
    BY <1>2, <2>1
<1>7. CASE Finish \/ Terminated \/ UNCHANGED vars
  BY <1>2, <1>7 DEF Finish, Terminated
<1> QED
  BY <1>3, <1>4, <1>5, <1>6, <1>7 DEF Next, Work

\* Whatever the number of workers and the order of their steps, what is retained
\* are the smallest of the matches, files, evidence and warnings handed over.
THEOREM RetainedAreSmallest == Spec => []HeapsKeepSmallest
<1>1. Init => TypeOK /\ HandedOnce /\ HeapsKeepSmallest
  BY InitTypes, InitHandsOnce, InitSmallest
<1>2. TypeOK /\ HandedOnce /\ HeapsKeepSmallest /\ [Next]_vars
        => (TypeOK /\ HandedOnce /\ HeapsKeepSmallest)'
  BY NextTypes, NextHandsOnce, NextSmallest
<1> QED
  BY <1>1, <1>2, PTL DEF Spec

-----------------------------------------------------------------------------
(* Who has what: the invariant of a whole search *)

Quiet == options.result = "Quiet"

\* The position of the file is reached: no source before it is in error.
Reaches(f, i) == \A k \in 1..(i - 1) : kind[Members[f][k]] # "error"

\* A file is one worker's until its end.  A worker ends when it is told to, or
\* when there is nothing left to take.
Held ==
  \A w \in Worker :
    /\ file[w] # 0 => file[w] \in taken
    /\ \A v \in Worker \ {w} : file[v] # 0 => file[v] # file[w]
    /\ pc[w] \in {"check", "take"} => file[w] = 0
    /\ pc[w] = "done" => ShouldQuit \/ (file[w] = 0 /\ File \subseteq taken)

Opened(w) == \/ kind[Current(w)] = "text"
             \/ kind[Current(w)] = "lateNul" /\ Chunked(file[w])

\* A worker is at a source it may be at, and has handed over all the matches
\* but those left; in a quiet search without a match they are all left.
OnTrack(w) ==
  /\ Active(w) /\ Remains(w) => Reaches(file[w], at[w])
  /\ Searching(w) =>
       /\ Opened(w)
       /\ options.result = "Matches" => MatchesOf(Current(w)) \ left[w] \subseteq given.matches
       /\ Quiet /\ ~quietFound => left[w] = MatchesOf(Current(w))

Tracked == \A w \in Worker : OnTrack(w)

\* Nothing is handed over that a sequential search would not, but for early
\* matches of a source that is skipped after all.
Sound ==
  /\ given.sources \subseteq Texts /\ given.warnings \subseteq Refused
  /\ given.matches \subseteq Hits(Texts \cup Cut)
  /\ given.matches # {} => options.result = "Matches"
  /\ options.policy = "Abort" => \A s \in given.warnings : kind[s] # "error"
  /\ options.result = "Matches" => Hits(given.sources) \subseteq given.matches

Settled(s) == IF Quiet THEN s \in Texts => MatchesOf(s) = {}
                       ELSE s \in given.sources \cup given.warnings

\* Unless the search is stopped, no reached source is left out of the files
\* taken, but for those their workers have yet to come to.
Passed(f, i) == \A w \in Worker : file[w] = f => i < at[w]
Complete ==
  ~ShouldQuit =>
    \A f \in taken : \A i \in 1..Len(Members[f]) :
      Reaches(f, i) /\ Passed(f, i) => Settled(Members[f][i])

\* The totals are those of what was handed over.
Totals ==
  /\ truncated <=> \/ matches # given.matches
                   \/ files # {s \in given.sources : Lists(s)}
  /\ fileEvidenceTruncated <=> fileEvidence # {s \in given.sources : RetainsEvidence(s)}
  /\ warningsDropped = Cardinality(given.warnings \ warnings)
  /\ ~Quiet =>
       /\ counted = [m \in Match |-> IF m \in Hits(given.sources) THEN 1 ELSE 0]
       /\ filesWithMatches = Cardinality({s \in given.sources : MatchesOf(s) # {}})
  /\ visited = [s \in Source |-> IF options.visitor /\ s \in given.sources THEN 1 ELSE 0]

HeldFiles == {file[w] : w \in Worker}
CountsFiles == options.backend = "index" => completed = Cardinality(taken \ HeldFiles)

\* One worker stores the match it won with; when it has, the parts agree.
Storing(w) == pc[w] \in {"storeLines", "storeSpans"}
OneWins ==
  /\ \A w \in Worker :
       /\ Storing(w) => /\ Quiet /\ quietFound /\ found[w] \in Hits(Texts \cup Cut)
                        /\ \A v \in Worker \ {w} : ~Storing(v)
       /\ pc[w] = "storeSpans" => quietLines = found[w]
  /\ Quiet => IF quietFound
                THEN (\A w \in Worker : ~Storing(w)) =>
                       /\ quietLines = quietSpans /\ quietLines \in Hits(Texts \cup Cut)
                       /\ filesWithMatches = 1
                ELSE filesWithMatches = 0

\* What the caller gets once all workers have ended.
Ended ==
  outcome # "none" =>
    /\ \A w \in Worker : pc[w] \in {"done", "panicked"}
    /\ outcome = IF \E w \in Worker : pc[w] = "panicked" THEN "panicked"
                 ELSE IF fatal # 0 THEN "error"
                 ELSE IF ShouldQuit THEN "stopped"
                 ELSE "complete"

-----------------------------------------------------------------------------
(* What a step leaves alone *)

\* The other workers stand, and a step of a worker has it neither ended before
\* nor changes what the call was made with.
Stands(v) == /\ pc'[v] = pc[v] /\ file'[v] = file[v] /\ at'[v] = at[v]
             /\ left'[v] = left[v] /\ found'[v] = found[v]

LEMMA OneMoves ==
  ASSUME TypeOK, NEW w \in Worker, Work(w)
  PROVE  /\ \A v \in Worker \ {w} : Stands(v)
         /\ options' = options /\ kind' = kind /\ outcome' = outcome
         /\ pc[w] \notin {"done", "panicked"}
<1> USE DEF Goto, NextSource, Stands
<1>0. /\ pc \in [Worker -> Step] /\ file \in [Worker -> File \cup {0}] /\ at \in [Worker -> Nat]
      /\ left \in [Worker -> SUBSET Match] /\ found \in [Worker -> Match \cup {0}]
  BY DEF TypeOK
<1>1. CASE CheckQuit(w) \/ NoFileLeft(w) \/ Abandon(w) \/ VisitorPanics(w)
  BY <1>0, <1>1 DEF CheckQuit, NoFileLeft, Abandon, VisitorPanics
<1>2. CASE TakeFile(w) \/ EndFile(w) \/ OpenSource(w)
  BY <1>0, <1>2 DEF TakeFile, EndFile, OpenSource
<1>3. CASE SkipSource(w) \/ FindNul(w) \/ FailSource(w)
  BY <1>0, <1>3 DEF SkipSource, FindNul, FailSource
<1>4. CASE FindMatch(w) \/ FindQuietly(w)
  BY <1>0, <1>4 DEF FindMatch, FindQuietly
<1>5. CASE StoreQuietLines(w) \/ StoreQuietSpans(w) \/ FinishSource(w)
  BY <1>0, <1>5 DEF StoreQuietLines, StoreQuietSpans, FinishSource
<1> QED
  BY <1>1, <1>2, <1>3, <1>4, <1>5 DEF Work

\* Once told to stop, a search stays so.
LEMMA QuitsForGood ==
  ASSUME TypeOK, NEW w \in Worker, Work(w)
  PROVE  /\ fatal # 0 => fatal' # 0
         /\ quietFound => quietFound'
         /\ ShouldQuit => ShouldQuit'
<1>1. fatal' = fatal \/ (FailSource(w) /\ Fail(Current(w)))
  BY DEF Work, CheckQuit, TakeFile, NoFileLeft, EndFile, Abandon, OpenSource, SkipSource, FindNul,
         FailSource, FindMatch, FindQuietly, StoreQuietLines, StoreQuietSpans, FinishSource,
         VisitorPanics
<1>2. quietFound' = quietFound \/ QuietMatch
  BY DEF Work, CheckQuit, TakeFile, NoFileLeft, EndFile, Abandon, OpenSource, SkipSource, FindNul,
         FailSource, FindMatch, FindQuietly, StoreQuietLines, StoreQuietSpans, FinishSource,
         VisitorPanics
<1>3. options' = options
  BY OneMoves
<1> QED
  BY <1>1, <1>2, <1>3 DEF Fail, QuietMatch, ShouldQuit

\* What the sources are does not change.
LEMMA SameSources ==
  ASSUME options' = options, kind' = kind
  PROVE  /\ Reached' = Reached /\ Texts' = Texts /\ Refused' = Refused /\ Cut' = Cut
         /\ Quiet' = Quiet /\ Summarises' = Summarises
         /\ \A f, i : Reaches(f, i)' = Reaches(f, i)
         /\ \A f : Chunked(f)' = Chunked(f)
         /\ \A s : Lists(s)' = Lists(s) /\ RetainsEvidence(s)' = RetainsEvidence(s)
<1>1. Reached' = Reached
  BY DEF Reached
<1>2. \A f : Chunked(f)' = Chunked(f)
  BY DEF Chunked
<1>3. Cut' = Cut
  BY <1>2 DEF Cut
<1>4. \A f, i : Reaches(f, i)' = Reaches(f, i)
  BY DEF Reaches
<1> QED
  BY <1>1, <1>2, <1>3, <1>4 DEF Texts, Refused, Quiet, Summarises, Lists, Counts, RetainsEvidence

\* A reached source is text or refused.
LEMMA ReachedIs ==
  ASSUME NEW f \in File, NEW i \in 1..Len(Members[f]), Reaches(f, i)
  PROVE  Members[f][i] \in Reached
BY DEF Reached, Reaches

LEMMA ReachedFrom ==
  ASSUME NEW s \in Reached
  PROVE  \E f \in File : \E i \in 1..Len(Members[f]) : Members[f][i] = s /\ Reaches(f, i)
BY DEF Reached, Reaches

-----------------------------------------------------------------------------
(* The workers *)

LEMMA InitHeld == Init => Held
BY DEF Init, Held

LEMMA NextHeld ==
  ASSUME TypeOK, Held, NEW w \in Worker, Work(w)
  PROVE  Held'
<1> USE DEF Goto
<1>0. /\ pc \in [Worker -> Step] /\ file \in [Worker -> File \cup {0}]
      /\ 0 \notin File /\ taken \subseteq File
  BY SearchAssumption DEF TypeOK
<1>1. \A v \in Worker \ {w} : Stands(v)
  BY OneMoves
<1>2. ShouldQuit => ShouldQuit'
  BY QuitsForGood
<1>3. CASE TakeFile(w)
  <2>1. PICK f \in File \ taken : taken' = taken \cup {f} /\ file' = [file EXCEPT ![w] = f]
    BY <1>3 DEF TakeFile
  <2>2. file'[w] = f /\ pc'[w] = "file"
    BY <1>0, <1>3, <2>1 DEF TakeFile
  <2>3. \A v \in Worker \ {w} : file'[v] # f
    BY <1>0, <1>1, <2>1 DEF Held, Stands
  <2> QED
    BY <1>1, <1>2, <2>1, <2>2, <2>3 DEF Held, Stands
<1>4. CASE EndFile(w)
  <2>1. file'[w] = 0 /\ pc'[w] = "check" /\ taken' = taken
    BY <1>0, <1>4 DEF EndFile
  <2> QED
    BY <1>1, <1>2, <2>1 DEF Held, Stands
<1>5. CASE ~TakeFile(w) /\ ~EndFile(w)
  <2>1. taken' = taken /\ file' = file
    BY <1>5 DEF Work, CheckQuit, NoFileLeft, Abandon, OpenSource, SkipSource, FindNul,
         FailSource, FindMatch, FindQuietly, StoreQuietLines, StoreQuietSpans, FinishSource,
         VisitorPanics
  <2>2. /\ pc'[w] \in {"check", "take"} => file[w] = 0
        /\ pc'[w] = "done" => ShouldQuit' \/ (file[w] = 0 /\ File \subseteq taken)
    <3>1. CASE CheckQuit(w) \/ NoFileLeft(w)
      BY <1>0, <1>2, <3>1 DEF CheckQuit, NoFileLeft, Held
    <3>2. CASE Abandon(w) \/ VisitorPanics(w)
      BY <1>0, <1>2, <3>2 DEF Abandon, VisitorPanics
    <3>3. CASE \/ OpenSource(w) \/ SkipSource(w) \/ FindNul(w) \/ FailSource(w) \/ FindMatch(w)
               \/ FindQuietly(w) \/ StoreQuietLines(w) \/ StoreQuietSpans(w) \/ FinishSource(w)
      BY <1>0, <3>3 DEF OpenSource, SkipSource, FindNul, FailSource, FindMatch, FindQuietly,
                        StoreQuietLines, StoreQuietSpans, FinishSource, NextSource
    <3> QED
      BY <1>5, <3>1, <3>2, <3>3 DEF Work
  <2> QED
    BY <1>1, <1>2, <2>1, <2>2 DEF Held, Stands
<1> QED
  BY <1>3, <1>4, <1>5

LEMMA InitTracked == Init => Tracked
BY DEF Init, Tracked, OnTrack, Active, Searching

\* What has been handed over stays.
LEMMA GivenGrows ==
  ASSUME TypeOK, NEW w \in Worker, Work(w)
  PROVE  /\ given.matches \subseteq given'.matches
         /\ given.sources \subseteq given'.sources /\ given.warnings \subseteq given'.warnings
<1>1. given \in [matches : SUBSET Match, sources : SUBSET Source, warnings : SUBSET Source]
  BY DEF TypeOK, CollectorTypeOK
<1>2. CASE \/ CheckQuit(w) \/ TakeFile(w) \/ NoFileLeft(w) \/ EndFile(w) \/ Abandon(w)
           \/ OpenSource(w) \/ FindQuietly(w) \/ StoreQuietLines(w) \/ StoreQuietSpans(w)
           \/ VisitorPanics(w)
  BY <1>2 DEF CheckQuit, TakeFile, NoFileLeft, EndFile, Abandon, OpenSource, FindQuietly,
              StoreQuietLines, StoreQuietSpans, VisitorPanics
<1>3. CASE SkipSource(w) \/ FindNul(w) \/ FailSource(w)
  BY <1>1, <1>3 DEF SkipSource, FindNul, FailSource, Warn
<1>4. CASE FindMatch(w)
  BY <1>1, <1>4 DEF FindMatch, RetainMatch
<1>5. CASE FinishSource(w)
  BY <1>1, <1>5 DEF FinishSource, FinishFile
<1> QED
  BY <1>2, <1>3, <1>4, <1>5 DEF Work

\* The next position is reached when the source at this one is not in error.
LEMMA ReachesNext ==
  ASSUME TypeOK, NEW w \in Worker, Active(w), Remains(w), Reaches(file[w], at[w]),
         kind[Current(w)] # "error"
  PROVE  Reaches(file[w], at[w] + 1)
<1>1. at[w] \in 1..Len(Members[file[w]]) /\ Members[file[w]] \in Seq(Source)
  BY CurrentIsSource
<1> QED
  BY <1>1 DEF Reaches, Current

LEMMA NextTracked ==
  ASSUME TypeOK, Tracked, NEW w \in Worker, Work(w)
  PROVE  Tracked'
<1> USE DEF Goto
<1>0. /\ pc \in [Worker -> Step] /\ file \in [Worker -> File \cup {0}] /\ at \in [Worker -> Nat]
      /\ left \in [Worker -> SUBSET Match]
      /\ given \in [matches : SUBSET Match, sources : SUBSET Source, warnings : SUBSET Source]
  BY DEF TypeOK, CollectorTypeOK
<1>1. /\ \A v \in Worker \ {w} : Stands(v)
      /\ options' = options /\ kind' = kind
  BY OneMoves
<1>2. /\ \A f, i : Reaches(f, i)' = Reaches(f, i)
      /\ \A f : Chunked(f)' = Chunked(f)
      /\ Quiet' = Quiet
  BY <1>1, SameSources
<1>3. given.matches \subseteq given'.matches /\ (quietFound => quietFound')
  BY GivenGrows, QuitsForGood
<1>4. ASSUME NEW v \in Worker, OnTrack(v), UNCHANGED <<file, at>>,
             Active(v)' => Active(v), Searching(v)' => Searching(v), left'[v] = left[v]
      PROVE  OnTrack(v)'
  <2>1. /\ Current(v)' = Current(v) /\ Remains(v)' = Remains(v) /\ Opened(v)' = Opened(v)
    BY <1>1, <1>2, <1>4 DEF Current, Remains, Opened
  <2> QED
    BY <1>1, <1>2, <1>3, <1>4, <2>1 DEF OnTrack, MatchesOf
<1>5. ASSUME NEW v \in Worker \ {w} PROVE OnTrack(v)'
  <2>1. /\ Current(v)' = Current(v) /\ Remains(v)' = Remains(v) /\ Opened(v)' = Opened(v)
        /\ Active(v)' = Active(v) /\ Searching(v)' = Searching(v)
        /\ file'[v] = file[v] /\ at'[v] = at[v] /\ left'[v] = left[v]
    BY <1>1, <1>2, <1>5 DEF Current, Remains, Opened, Active, Searching, Stands
  <2>2. OnTrack(v)
    BY DEF Tracked
  <2> QED
    BY <1>1, <1>2, <1>3, <2>1, <2>2 DEF OnTrack, MatchesOf
<1>6. OnTrack(w)
  BY DEF Tracked
<1> SUFFICES OnTrack(w)'
  BY <1>5 DEF Tracked
<1>7. CASE CheckQuit(w) \/ NoFileLeft(w) \/ EndFile(w) \/ Abandon(w) \/ VisitorPanics(w)
  <2>1. pc'[w] \in {"done", "take", "check", "panicked"}
    BY <1>0, <1>7 DEF CheckQuit, NoFileLeft, EndFile, Abandon, VisitorPanics
  <2> QED
    BY <2>1 DEF OnTrack, Active, Searching
<1>8. CASE TakeFile(w)
  <2>1. pc'[w] = "file" /\ at'[w] = 1
    BY <1>0, <1>8 DEF TakeFile
  <2> QED
    BY <2>1 DEF OnTrack, Searching, Reaches
<1>9. CASE OpenSource(w)
  <2>1. /\ pc'[w] = "source" /\ left'[w] = MatchesOf(Current(w)) /\ UNCHANGED <<file, at>>
        /\ Active(w) /\ Remains(w) /\ Opened(w)
    BY <1>0, <1>9 DEF OpenSource, Active, Opened
  <2>2. /\ Current(w)' = Current(w) /\ Remains(w)' = Remains(w) /\ Opened(w)' = Opened(w)
    BY <1>1, <1>2, <2>1 DEF Current, Remains, Opened
  <2> QED
    BY <1>1, <1>2, <1>6, <2>1, <2>2 DEF OnTrack, MatchesOf
<1>10. CASE SkipSource(w) \/ FindNul(w) \/ FinishSource(w)
  <2>1. /\ pc'[w] = "file" /\ file' = file /\ at'[w] = at[w] + 1
        /\ Active(w) /\ Remains(w) /\ kind[Current(w)] # "error"
    BY <1>0, <1>10 DEF SkipSource, FindNul, FinishSource, NextSource, Active, Searching, TypeOK
  <2>2. Reaches(file[w], at[w] + 1)
    BY <1>6, <2>1, ReachesNext DEF OnTrack
  <2> QED
    BY <1>2, <2>1, <2>2 DEF OnTrack, Searching
<1>11. CASE FailSource(w)
  <2>1. /\ pc'[w] = "file" /\ file' = file /\ at'[w] = Len(Members[file[w]]) + 1
        /\ Active(w) /\ Remains(w)
    BY <1>0, <1>11 DEF FailSource, Active
  <2>2. Members[file[w]] \in Seq(Source)
    BY <2>1, CurrentIsSource
  <2> QED
    BY <2>1, <2>2 DEF OnTrack, Searching, Remains
<1>12. CASE FindMatch(w)
  <2>1. PICK m \in left[w] :
          /\ left' = [left EXCEPT ![w] = @ \ {m}]
          /\ IF options.result = "Matches" THEN RetainMatch(m) ELSE UNCHANGED <<matchVars, given>>
    BY <1>12 DEF FindMatch
  <2>2. pc[w] = "source" /\ pc' = pc /\ UNCHANGED <<file, at>> /\ ~Quiet
    BY <1>12 DEF FindMatch, Quiet
  <2>3. left'[w] = left[w] \ {m}
    BY <1>0, <2>1
  <2>4. options.result = "Matches" => given'.matches = given.matches \cup {m}
    BY <1>0, <2>1 DEF RetainMatch
  <2>5. /\ Current(w)' = Current(w) /\ Remains(w)' = Remains(w) /\ Opened(w)' = Opened(w)
        /\ Active(w)' = Active(w) /\ Searching(w)' = Searching(w)
    BY <1>1, <1>2, <2>2 DEF Current, Remains, Opened, Active, Searching
  <2> QED
    BY <1>1, <1>2, <1>6, <2>2, <2>3, <2>4, <2>5 DEF OnTrack, MatchesOf
<1>13. CASE FindQuietly(w)
  <2>1. /\ pc[w] = "source" /\ pc'[w] \in {"source", "storeLines"} /\ UNCHANGED <<file, at>>
        /\ Quiet /\ quietFound'
    BY <1>0, <1>13 DEF FindQuietly, QuietMatch, Quiet
  <2>2. /\ Current(w)' = Current(w) /\ Remains(w)' = Remains(w) /\ Opened(w)' = Opened(w)
        /\ Searching(w) /\ Active(w)
    BY <1>1, <1>2, <2>1 DEF Current, Remains, Opened, Active, Searching
  <2>3. options'.result # "Matches"
    BY <1>1, <2>1 DEF Quiet
  <2> QED
    BY <1>2, <1>6, <2>1, <2>2, <2>3 DEF OnTrack
<1>14. CASE StoreQuietLines(w) \/ StoreQuietSpans(w)
  <2>1. /\ Searching(w) /\ Active(w) /\ UNCHANGED <<file, at, left>>
    BY <1>14 DEF StoreQuietLines, StoreQuietSpans, Searching, Active
  <2> QED
    BY <1>4, <1>6, <2>1
<1> QED
  BY <1>7, <1>8, <1>9, <1>10, <1>11, <1>12, <1>13, <1>14 DEF Work

-----------------------------------------------------------------------------
(* What is handed over *)

\* A worker's source is reached; one it searches is text, or to be cut short.
LEMMA CurrentIs ==
  ASSUME TypeOK, Tracked, NEW w \in Worker, Active(w), Remains(w)
  PROVE  /\ Current(w) \in Reached
         /\ kind[Current(w)] = "text" => Current(w) \in Texts
         /\ kind[Current(w)] # "text" => Current(w) \in Refused
         /\ Searching(w) => Current(w) \in Texts \cup Cut
<1>1. /\ file[w] \in File /\ at[w] \in 1..Len(Members[file[w]])
      /\ Members[file[w]] \in Seq(Source)
  BY CurrentIsSource
<1>2. OnTrack(w)
  BY DEF Tracked
<1>3. Current(w) \in Reached
  BY <1>1, <1>2, ReachedIs DEF OnTrack, Current
<1>4. ASSUME kind[Current(w)] = "lateNul", Chunked(file[w])
      PROVE  Current(w) \in Cut
  <2>1. Current(w) = Members[file[w]][1]
    BY <1>1, <1>4 DEF Chunked, Current
  <2> QED
    BY <1>1, <1>4, <2>1 DEF Cut
<1> QED
  BY <1>2, <1>3, <1>4 DEF OnTrack, Opened, Texts, Refused

\* What a step of a worker hands over.
LEMMA WhatIsGiven ==
  ASSUME TypeOK, HandedOnce, NEW w \in Worker, Work(w)
  PROVE  \/ /\ UNCHANGED <<given, matchVars, fileVars, warningVars>>
            /\ filesWithMatches' = filesWithMatches \/ pc[w] = "storeSpans"
         \/ /\ Active(w) /\ Remains(w) /\ Warn(Current(w)) /\ kind[Current(w)] # "text"
            /\ options.policy = "Abort" => kind[Current(w)] # "error"
            /\ UNCHANGED <<matchVars, fileVars, filesWithMatches>>
            /\ given'.warnings = given.warnings \cup {Current(w)}
            /\ given'.matches = given.matches /\ given'.sources = given.sources
            /\ Current(w) \in Source \ given.warnings
         \/ /\ Searching(w) /\ Remains(w) /\ options.result = "Matches"
            /\ \E m \in left[w] : /\ RetainMatch(m) /\ m \in MatchesOf(Current(w)) \ given.matches
                                  /\ given'.matches = given.matches \cup {m}
            /\ UNCHANGED <<fileVars, filesWithMatches, warningVars>>
            /\ given'.warnings = given.warnings /\ given'.sources = given.sources
         \/ /\ Searching(w) /\ Remains(w) /\ FinishFile(Current(w))
            /\ kind[Current(w)] = "text" /\ left[w] = {}
            /\ UNCHANGED <<matches, warningVars>>
            /\ given'.sources = given.sources \cup {Current(w)}
            /\ given'.matches = given.matches /\ given'.warnings = given.warnings
            /\ Current(w) \in Source \ given.sources
<1>0. /\ given \in [matches : SUBSET Match, sources : SUBSET Source, warnings : SUBSET Source]
      /\ left \in [Worker -> SUBSET Match] /\ Mine(w)
  BY DEF TypeOK, CollectorTypeOK, HandedOnce
<1>1. CASE \/ CheckQuit(w) \/ TakeFile(w) \/ NoFileLeft(w) \/ EndFile(w) \/ Abandon(w)
           \/ OpenSource(w) \/ FindQuietly(w) \/ StoreQuietLines(w) \/ StoreQuietSpans(w)
           \/ VisitorPanics(w) \/ (FailSource(w) /\ options.policy = "Abort")
           \/ (FindMatch(w) /\ options.result # "Matches")
           \/ (FinishSource(w) /\ ~Summarises)
  BY <1>1 DEF CheckQuit, TakeFile, NoFileLeft, EndFile, Abandon, OpenSource, FindQuietly,
              StoreQuietLines, StoreQuietSpans, VisitorPanics, FailSource, FindMatch, FinishSource
<1>2. CASE SkipSource(w) \/ FindNul(w) \/ (FailSource(w) /\ options.policy # "Abort")
  <2>1. /\ Warn(Current(w)) /\ kind[Current(w)] # "text"
        /\ options.policy = "Abort" => kind[Current(w)] # "error"
        /\ UNCHANGED <<matchVars, fileVars, filesWithMatches>>
    BY <1>2 DEF SkipSource, FindNul, FailSource
  <2>2. Active(w) /\ Remains(w)
    BY <1>2 DEF SkipSource, FindNul, FailSource, Active, Searching, TypeOK
  <2>3. Current(w) \in Source /\ at[w] \in 1..Len(Members[file[w]])
    BY <2>2, CurrentIsSource
  <2>4. /\ given'.warnings = given.warnings \cup {Current(w)}
        /\ given'.matches = given.matches /\ given'.sources = given.sources
    BY <1>0, <2>1 DEF Warn
  <2>5. Current(w) \notin given.warnings
    BY <1>0, <2>2, <2>3 DEF Mine, Fresh, Current, Active
  <2> QED
    BY <2>1, <2>2, <2>3, <2>4, <2>5
<1>3. CASE FindMatch(w) /\ options.result = "Matches"
  <2>1. PICK m \in left[w] : RetainMatch(m)
    BY <1>3 DEF FindMatch
  <2>2. Searching(w) /\ Remains(w) /\ UNCHANGED <<fileVars, filesWithMatches, warningVars>>
    BY <1>3 DEF FindMatch, Searching, TypeOK
  <2>3. /\ given'.matches = given.matches \cup {m}
        /\ given'.warnings = given.warnings /\ given'.sources = given.sources
    BY <1>0, <2>1 DEF RetainMatch
  <2>4. m \in MatchesOf(Current(w)) \ given.matches
    BY <1>0, <2>1, <2>2 DEF Mine
  <2> QED
    BY <1>3, <2>1, <2>2, <2>3, <2>4
<1>4. CASE FinishSource(w) /\ Summarises
  <2>1. /\ FinishFile(Current(w)) /\ kind[Current(w)] = "text" /\ left[w] = {}
        /\ UNCHANGED <<matches, warningVars>>
    BY <1>4 DEF FinishSource
  <2>2. Searching(w) /\ Active(w) /\ Remains(w)
    BY <1>4 DEF FinishSource, Searching, Active, TypeOK
  <2>3. Current(w) \in Source \ given.sources
    BY <1>0, <2>2, CurrentIsSource DEF Mine
  <2>4. /\ given'.sources = given.sources \cup {Current(w)}
        /\ given'.matches = given.matches /\ given'.warnings = given.warnings
    BY <1>0, <2>1 DEF FinishFile
  <2> QED
    BY <2>1, <2>2, <2>3, <2>4
<1> QED
  BY <1>1, <1>2, <1>3, <1>4 DEF Work

LEMMA InitSound == Init => Sound
BY DEF Init, InitCollector, Sound, Hits

LEMMA NextSound ==
  ASSUME TypeOK, HandedOnce, Tracked, Sound, NEW w \in Worker, Work(w)
  PROVE  Sound'
<1>1. options' = options /\ kind' = kind
  BY OneMoves
<1>2. Texts' = Texts /\ Refused' = Refused /\ Cut' = Cut
  BY <1>1, SameSources
<1>3. CASE given' = given
  BY <1>1, <1>2, <1>3 DEF Sound, Hits
<1>4. CASE /\ Active(w) /\ Remains(w) /\ kind[Current(w)] # "text"
           /\ options.policy = "Abort" => kind[Current(w)] # "error"
           /\ given'.warnings = given.warnings \cup {Current(w)}
           /\ given'.matches = given.matches /\ given'.sources = given.sources
  <2>1. Current(w) \in Refused
    BY <1>4, CurrentIs
  <2> QED
    BY <1>1, <1>2, <1>4, <2>1 DEF Sound, Hits
<1>5. ASSUME Searching(w), Remains(w), options.result = "Matches",
             NEW m \in MatchesOf(Current(w)), given'.matches = given.matches \cup {m},
             given'.warnings = given.warnings, given'.sources = given.sources
      PROVE  Sound'
  <2>1. Current(w) \in Texts \cup Cut
    BY <1>5, CurrentIs DEF Active
  <2>2. m \in Hits(Texts \cup Cut)
    BY <1>5, <2>1 DEF Hits, MatchesOf
  <2> QED
    BY <1>1, <1>2, <1>5, <2>2 DEF Sound, Hits
<1>6. CASE /\ Searching(w) /\ Remains(w) /\ kind[Current(w)] = "text" /\ left[w] = {}
           /\ given'.sources = given.sources \cup {Current(w)}
           /\ given'.matches = given.matches /\ given'.warnings = given.warnings
  <2>1. Current(w) \in Texts
    BY <1>6, CurrentIs DEF Active
  <2>2. options.result = "Matches" => MatchesOf(Current(w)) \subseteq given.matches
    BY <1>6 DEF Tracked, OnTrack
  <2> QED
    BY <1>1, <1>2, <1>6, <2>1, <2>2 DEF Sound, Hits, MatchesOf
<1> QED
  BY <1>3, <1>4, <1>5, <1>6, WhatIsGiven

-----------------------------------------------------------------------------
(* Nothing is left out *)

\* A worker that goes to another position of its file passes what it settled.
LEMMA PassedBefore ==
  ASSUME TypeOK, Held, NEW w \in Worker, file[w] \in File, file' = file,
         \A v \in Worker \ {w} : at'[v] = at[v],
         NEW f, NEW i, Passed(f, i)', f # file[w] \/ i < at[w]
  PROVE  Passed(f, i)
BY DEF Passed

LEMMA InitComplete == Init => Complete
BY DEF Init, Complete

\* What a worker leaves behind when it goes on is settled, or the search stops.
LEMMA LeftIsSettled ==
  ASSUME TypeOK, Tracked, NEW w \in Worker,
         \/ SkipSource(w) \/ FindNul(w) \/ FinishSource(w) \/ FailSource(w), ~ShouldQuit',
         NEW s, s = Current(w)
  PROVE  Settled(s)'
<1>0. given \in [matches : SUBSET Match, sources : SUBSET Source, warnings : SUBSET Source]
  BY DEF TypeOK, CollectorTypeOK
<1>1. options' = options /\ kind' = kind
  BY DEF SkipSource, FindNul, FinishSource, FailSource
<1>2. Texts' = Texts /\ Quiet' = Quiet
  BY <1>1, SameSources
<1>3. CASE SkipSource(w) \/ FindNul(w) \/ FailSource(w)
  <2>1. kind[Current(w)] # "text" /\ file' = file
    BY <1>3 DEF SkipSource, FindNul, FailSource
  <2>2. Warn(Current(w)) \/ fatal' # 0
    <3>1. Active(w) /\ Remains(w)
      BY <1>3 DEF SkipSource, FindNul, FailSource, Active, Searching, TypeOK
    <3>2. Current(w) # 0
      BY <3>1, CurrentIsSource, CollectorAssumption
    <3> QED
      BY <1>3, <3>2 DEF SkipSource, FindNul, FailSource, Fail
  <2>3. Warn(Current(w))
    BY <2>2 DEF ShouldQuit
  <2>4. Current(w) \in given'.warnings
    BY <1>0, <2>3 DEF Warn
  <2>5. Current(w) \notin Texts
    BY <2>1 DEF Texts
  <2> QED
    BY <1>2, <2>4, <2>5 DEF Settled, MatchesOf
<1>4. CASE FinishSource(w)
  <2>1. /\ Searching(w) /\ left[w] = {} /\ OnTrack(w)
        /\ quietFound' = quietFound
    BY <1>4 DEF FinishSource, Searching, Tracked
  <2>2. CASE Quiet
    <3>1. ~quietFound
      BY <1>1, <2>1, <2>2 DEF ShouldQuit, Quiet
    <3>2. MatchesOf(Current(w)) = {}
      BY <2>1, <2>2, <3>1 DEF OnTrack
    <3> QED
      BY <1>2, <2>2, <3>2 DEF Settled, MatchesOf
  <2>3. CASE ~Quiet
    <3>1. FinishFile(Current(w))
      BY <1>4, <2>3 DEF FinishSource, Summarises, Quiet
    <3>2. Current(w) \in given'.sources
      BY <1>0, <3>1 DEF FinishFile
    <3> QED
      BY <1>2, <2>3, <3>2 DEF Settled
  <2> QED
    BY <2>2, <2>3
<1> QED
  BY <1>3, <1>4

LEMMA NextComplete ==
  ASSUME TypeOK, Held, Tracked, Complete, NEW w \in Worker, Work(w)
  PROVE  Complete'
<1> SUFFICES ASSUME ~ShouldQuit', NEW f \in taken', NEW i \in 1..Len(Members[f]),
                    Reaches(f, i)', Passed(f, i)'
             PROVE  Settled(Members[f][i])'
  BY DEF Complete
<1>0. /\ pc \in [Worker -> Step] /\ file \in [Worker -> File \cup {0}] /\ at \in [Worker -> Nat]
      /\ 0 \notin File /\ taken \subseteq File
  BY SearchAssumption DEF TypeOK
<1>1. \A v \in Worker \ {w} : Stands(v)
  BY OneMoves
<1>2. options' = options /\ kind' = kind
  BY OneMoves
<1>3. Texts' = Texts /\ Quiet' = Quiet /\ Reaches(f, i)
  BY <1>2, SameSources
<1>4. ~ShouldQuit
  BY QuitsForGood
<1>5. ASSUME NEW s, Settled(s) PROVE Settled(s)'
  BY <1>3, <1>5, GivenGrows DEF Settled, MatchesOf
<1>6. ASSUME f \in taken, Passed(f, i) PROVE Settled(Members[f][i])'
  BY <1>3, <1>4, <1>5, <1>6 DEF Complete
<1>7. CASE \/ CheckQuit(w) \/ NoFileLeft(w) \/ Abandon(w) \/ VisitorPanics(w) \/ OpenSource(w)
           \/ FindMatch(w) \/ FindQuietly(w) \/ StoreQuietLines(w) \/ StoreQuietSpans(w)
  <2>1. UNCHANGED <<file, at, taken>>
    BY <1>7 DEF CheckQuit, NoFileLeft, Abandon, VisitorPanics, OpenSource, FindMatch,
                FindQuietly, StoreQuietLines, StoreQuietSpans
  <2> QED
    BY <1>6, <2>1 DEF Passed
<1>8. CASE TakeFile(w)
  <2>1. PICK g \in File \ taken : taken' = taken \cup {g} /\ file' = [file EXCEPT ![w] = g]
    BY <1>8 DEF TakeFile
  <2>2. file'[w] = g /\ at'[w] = 1 /\ file[w] = 0
    BY <1>0, <1>8, <2>1 DEF TakeFile, Held
  <2>3. f # g
    BY <2>2 DEF Passed
  <2>4. f \in taken /\ Passed(f, i)
    BY <1>0, <1>1, <2>1, <2>2, <2>3 DEF Passed, Stands
  <2> QED
    BY <1>6, <2>4
<1>9. CASE EndFile(w)
  <2>1. /\ file'[w] = 0 /\ taken' = taken /\ Active(w) /\ ~Remains(w)
    BY <1>0, <1>9 DEF EndFile, Active
  <2>2. f = file[w] => i < at[w]
    <3>1. Members[file[w]] \in Seq(Source) /\ file[w] \in File
      BY <2>1, SearchAssumption DEF TypeOK
    <3> QED
      BY <1>0, <2>1, <3>1 DEF Remains
  <2>3. Passed(f, i)
    BY <1>1, <2>2 DEF Passed, Stands
  <2> QED
    BY <1>6, <2>1, <2>3
<1>10. CASE SkipSource(w) \/ FindNul(w) \/ FinishSource(w) \/ FailSource(w)
  <2>1. Active(w) /\ Remains(w)
    BY <1>10 DEF SkipSource, FindNul, FinishSource, FailSource, Active, Searching, TypeOK
  <2>2. /\ file[w] \in File /\ at[w] \in 1..Len(Members[file[w]])
    BY <2>1, CurrentIsSource
  <2>3. UNCHANGED <<file, taken>>
    BY <1>10 DEF SkipSource, FindNul, FinishSource, FailSource
  <2>4. f = file[w] => i <= at[w]
    <3>1. CASE SkipSource(w) \/ FindNul(w) \/ FinishSource(w)
      <4>1. at'[w] = at[w] + 1
        BY <1>0, <3>1 DEF SkipSource, FindNul, FinishSource, NextSource
      <4> QED
        BY <2>2, <2>3, <4>1 DEF Passed
    <3>2. CASE FailSource(w)
      BY <1>3, <2>2, <3>2 DEF FailSource, Reaches, Current
    <3> QED
      BY <1>10, <3>1, <3>2
  <2>5. CASE f = file[w] /\ i = at[w]
    BY <1>10, <2>5, LeftIsSettled DEF Current
  <2>6. CASE f # file[w] \/ i # at[w]
    <3>1. f # file[w] \/ i < at[w]
      BY <2>2, <2>4, <2>6
    <3>2. Passed(f, i)
      BY <1>1, <2>2, <2>3, <3>1, PassedBefore DEF Stands
    <3> QED
      BY <1>6, <2>3, <3>2
  <2> QED
    BY <2>5, <2>6
<1> QED
  BY <1>7, <1>8, <1>9, <1>10 DEF Work

-----------------------------------------------------------------------------
(* Totals *)

\* A heap leaves something out exactly when it was full before an offer: from
\* then on it is, and with each it leaves out one more.
LEMMA KeepLeavesOut ==
  ASSUME NEW offered \in SUBSET Nat, IsFiniteSet(offered), NEW heap, NEW limit \in Nat,
         NEW x \in Nat, x \notin offered, IsSmallest(heap, limit, offered)
  PROVE  /\ Keep(heap, limit, x) # offered \cup {x} <=> Full(heap, limit)
         /\ heap # offered => Full(heap, limit)
         /\ Cardinality((offered \cup {x}) \ Keep(heap, limit, x))
              = Cardinality(offered \ heap) + (IF Full(heap, limit) THEN 1 ELSE 0)
<1> DEFINE kept == Keep(heap, limit, x)
           more == offered \cup {x}
<1>1. heap \subseteq offered /\ IsFiniteSet(heap) /\ Cardinality(heap) \in Nat
  BY FS_Subset, FS_CardinalityType DEF IsSmallest
<1>2. /\ IsFiniteSet(more) /\ Cardinality(more) = Cardinality(offered) + 1
      /\ Cardinality(offered) \in Nat
  BY FS_AddElement, FS_CardinalityType
<1>3. IsSmallest(kept, limit, more)
  BY KeepIsSmallest
<1>4. kept \subseteq more /\ IsFiniteSet(kept)
  BY <1>2, <1>3, FS_Subset DEF IsSmallest
<1>5. heap # offered => Full(heap, limit)
  BY DEF IsSmallest, Full
<1>6. /\ Cardinality(offered \ heap) = Cardinality(offered) - Cardinality(heap)
      /\ Cardinality(more \ kept) = Cardinality(more) - Cardinality(kept)
  <2>1. offered \cap heap = heap /\ more \cap kept = kept
    BY <1>1, <1>4
  <2> HIDE DEF more, kept
  <2>2. Cardinality(offered \ heap) = Cardinality(offered) - Cardinality(offered \cap heap)
    BY FS_Difference
  <2>3. Cardinality(more \ kept) = Cardinality(more) - Cardinality(more \cap kept)
    BY <1>2, FS_Difference
  <2> QED
    BY <2>1, <2>2, <2>3
<1>7. CASE Full(heap, limit)
  <2>1. Cardinality(heap) = limit
    BY <1>1, <1>7 DEF Full, IsSmallest
  <2>2. kept # more
    <3>1. Cardinality(heap) <= Cardinality(offered)
      BY <1>1, FS_Subset
    <3>2. Cardinality(kept) <= limit
      BY <1>3 DEF IsSmallest
    <3> HIDE DEF kept, more
    <3> QED
      BY <1>2, <2>1, <3>1, <3>2
  <2>3. Cardinality(kept) = limit
    BY <1>3, <2>2 DEF IsSmallest
  <2> HIDE DEF kept, more
  <2>4. Cardinality(more \ kept) = Cardinality(offered \ heap) + 1
    BY <1>1, <1>2, <1>6, <2>1, <2>3
  <2> QED
    BY <1>5, <1>7, <2>2, <2>4 DEF kept, more
<1>8. CASE ~Full(heap, limit)
  <2>1. heap = offered /\ kept = more
    BY <1>1, <1>5, <1>8 DEF Full, Keep
  <2>2. offered \ heap = {} /\ more \ kept = {} /\ Cardinality({}) = 0
    BY <2>1, FS_EmptySet
  <2> QED
    BY <1>8, <2>1, <2>2
<1> QED
  BY <1>7, <1>8

LEMMA InitTotals == Init => Totals
<1> SUFFICES ASSUME Init PROVE Totals
  OBVIOUS
<1>1. /\ matches = {} /\ files = {} /\ fileEvidence = {} /\ warnings = {}
      /\ given.matches = {} /\ given.sources = {} /\ given.warnings = {}
      /\ truncated = FALSE /\ fileEvidenceTruncated = FALSE /\ warningsDropped = 0
      /\ counted = [m \in Match |-> 0] /\ filesWithMatches = 0 /\ visited = [s \in Source |-> 0]
  BY DEF Init, InitCollector
<1>2. /\ {s \in given.sources : Lists(s)} = {} /\ {s \in given.sources : RetainsEvidence(s)} = {}
      /\ {s \in given.sources : MatchesOf(s) # {}} = {} /\ given.warnings \ warnings = {}
      /\ Hits(given.sources) = {} /\ Cardinality({}) = 0
  BY <1>1, FS_EmptySet DEF Hits
<1> QED
  BY <1>1, <1>2 DEF Totals

LEMMA NextTotals ==
  ASSUME TypeOK, HandedOnce, HeapsKeepSmallest, OneWins, Totals, NEW w \in Worker, Work(w)
  PROVE  Totals'
<1> DEFINE listed == {s \in given.sources : Lists(s)}
           shown == {s \in given.sources : RetainsEvidence(s)}
           matched == {s \in given.sources : MatchesOf(s) # {}}
           ones == [m \in Match |-> IF m \in Hits(given.sources) THEN 1 ELSE 0]
           calls == [s \in Source |-> IF options.visitor /\ s \in given.sources THEN 1 ELSE 0]
<1>0. CollectorTypeOK
  BY DEF TypeOK
<1>1. options' = options /\ kind' = kind
  BY OneMoves
<1>2. /\ Quiet' = Quiet
      /\ \A s : Lists(s)' = Lists(s) /\ RetainsEvidence(s)' = RetainsEvidence(s)
  BY <1>1, SameSources
<1>3. CASE /\ UNCHANGED <<given, matchVars, fileVars, warningVars>>
           /\ filesWithMatches' = filesWithMatches \/ pc[w] = "storeSpans"
  <2>1. Quiet \/ filesWithMatches' = filesWithMatches
    BY <1>3 DEF OneWins, Storing
  <2>2. listed' = listed /\ shown' = shown /\ matched' = matched /\ ones' = ones /\ calls' = calls
    BY <1>1, <1>2, <1>3 DEF Hits, MatchesOf
  <2> QED
    BY <1>2, <1>3, <2>1, <2>2 DEF Totals
<1>4. ASSUME NEW c \in Source \ given.warnings, Warn(c),
             UNCHANGED <<matchVars, fileVars, filesWithMatches>>,
             given'.warnings = given.warnings \cup {c},
             given'.matches = given.matches, given'.sources = given.sources
      PROVE  Totals'
  <2>1. listed' = listed /\ shown' = shown /\ matched' = matched /\ ones' = ones /\ calls' = calls
    BY <1>1, <1>2, <1>4 DEF Hits, MatchesOf
  <2>2. warningsDropped' = Cardinality(given'.warnings \ warnings')
    <3>1. Cardinality((given.warnings \cup {c}) \ Keep(warnings, options.warningLimit, c))
            = Cardinality(given.warnings \ warnings)
                + (IF Full(warnings, options.warningLimit) THEN 1 ELSE 0)
      <4>1. c \in Nat
        BY CollectorAssumption
      <4> QED
        BY <1>0, <1>4, <4>1, Limits, Offers, KeepLeavesOut DEF HeapsKeepSmallest
    <3>2. warningsDropped = Cardinality(given.warnings \ warnings)
      BY DEF Totals
    <3> QED
      BY <1>4, <3>1, <3>2 DEF Warn
  <2> QED
    BY <1>2, <1>4, <2>1, <2>2 DEF Totals
<1>5. ASSUME NEW m \in Match \ given.matches, RetainMatch(m),
             UNCHANGED <<fileVars, filesWithMatches, warningVars>>,
             given'.matches = given.matches \cup {m},
             given'.warnings = given.warnings, given'.sources = given.sources
      PROVE  Totals'
  <2>1. listed' = listed /\ shown' = shown /\ matched' = matched /\ ones' = ones /\ calls' = calls
    BY <1>1, <1>2, <1>5 DEF Hits, MatchesOf
  <2>2. m \in Nat
    BY CollectorAssumption
  <2>3. /\ Keep(matches, options.limit, m) # given.matches \cup {m} <=> Full(matches, options.limit)
        /\ matches # given.matches => Full(matches, options.limit)
    BY <1>0, <1>5, <2>2, Limits, Offers, KeepLeavesOut DEF HeapsKeepSmallest
  <2>4. truncated' <=> matches' # given'.matches \/ files' # listed'
    BY <1>5, <2>1, <2>3 DEF Totals, RetainMatch
  <2> QED
    BY <1>2, <1>5, <2>1, <2>4 DEF Totals
<1>6. ASSUME NEW c \in Source \ given.sources, FinishFile(c),
             UNCHANGED <<matches, warningVars>>,
             given'.sources = given.sources \cup {c},
             given'.matches = given.matches, given'.warnings = given.warnings
      PROVE  Totals'
  <2>1. /\ c \in Nat /\ c \notin listed /\ c \notin shown /\ c \notin matched
        /\ listed \in SUBSET Nat /\ shown \in SUBSET Nat
        /\ IsFiniteSet(listed) /\ IsFiniteSet(shown) /\ IsFiniteSet(matched)
    BY <1>0, CollectorAssumption, Offers, FS_Subset
  <2>2. /\ listed' = IF Lists(c) THEN listed \cup {c} ELSE listed
        /\ shown' = IF RetainsEvidence(c) THEN shown \cup {c} ELSE shown
        /\ matched' = IF MatchesOf(c) # {} THEN matched \cup {c} ELSE matched
    BY <1>2, <1>6 DEF MatchesOf
  <2>3. IsSmallest(files, options.limit, listed)
        /\ IsSmallest(fileEvidence, options.evidenceLimit, shown)
    BY DEF HeapsKeepSmallest
  <2>4. ones' = [m \in Match |-> ones[m] + (IF m \in MatchesOf(c) THEN 1 ELSE 0)]
    <3>1. \A m \in Match :
            m \in Hits(given'.sources) <=> m \in Hits(given.sources) \cup MatchesOf(c)
      BY <1>6 DEF Hits, MatchesOf
    <3>2. \A m \in MatchesOf(c) : m \notin Hits(given.sources)
      BY <1>6 DEF Hits, MatchesOf
    <3>3. \A m \in Match : ones'[m] = ones[m] + (IF m \in MatchesOf(c) THEN 1 ELSE 0)
      BY <3>1, <3>2
    <3>4. ones' = [m \in Match |-> ones'[m]]
      OBVIOUS
    <3> QED
      BY <3>3, <3>4
  <2>5. calls' = IF options.visitor THEN [calls EXCEPT ![c] = @ + 1] ELSE calls
    <3>1. CASE options.visitor
      <4>1. calls' = [s \in Source |-> IF s \in given.sources \cup {c} THEN 1 ELSE 0]
        BY <1>1, <1>6, <3>1
      <4>2. calls = [s \in Source |-> IF s \in given.sources THEN 1 ELSE 0]
        BY <3>1
      <4>3. [calls EXCEPT ![c] = @ + 1]
              = [s \in Source |-> IF s = c THEN calls[c] + 1 ELSE calls[s]]
        OBVIOUS
      <4>4. calls[c] = 0
        BY <1>6, <4>2
      <4> HIDE DEF calls
      <4> QED
        BY <3>1, <4>1, <4>2, <4>3, <4>4
    <3>2. CASE ~options.visitor
      BY <1>1, <3>2
    <3> QED
      BY <3>1, <3>2
  <2>6. /\ truncated <=> matches # given.matches \/ files # listed
        /\ fileEvidenceTruncated <=> fileEvidence # shown
        /\ ~Quiet => counted = ones /\ filesWithMatches = Cardinality(matched)
        /\ visited = calls
    BY DEF Totals
  <2> HIDE DEF listed, shown, matched, ones, calls
  <2>7. truncated' <=> matches' # given'.matches \/ files' # listed'
    <3>1. /\ Keep(files, options.limit, c) # listed \cup {c} <=> Full(files, options.limit)
          /\ files # listed => Full(files, options.limit)
      BY <1>0, <2>1, <2>3, Limits, KeepLeavesOut
    <3> QED
      BY <1>6, <2>2, <2>6, <3>1 DEF FinishFile
  <2>8. fileEvidenceTruncated' <=> fileEvidence' # shown'
    <3>1. /\ Keep(fileEvidence, options.evidenceLimit, c) # shown \cup {c}
                <=> Full(fileEvidence, options.evidenceLimit)
          /\ fileEvidence # shown => Full(fileEvidence, options.evidenceLimit)
      BY <1>0, <2>1, <2>3, Limits, KeepLeavesOut
    <3> QED
      BY <1>6, <2>2, <2>6, <3>1 DEF FinishFile
  <2>9. ~Quiet => counted' = ones' /\ filesWithMatches' = Cardinality(matched')
    <3> SUFFICES ASSUME ~Quiet PROVE counted' = ones' /\ filesWithMatches' = Cardinality(matched')
      OBVIOUS
    <3>1. Counts(c) <=> MatchesOf(c) # {}
      BY DEF Counts, Quiet
    <3>2. Cardinality(matched \cup {c}) = Cardinality(matched) + 1 /\ Cardinality(matched) \in Nat
      BY <2>1, FS_AddElement, FS_CardinalityType
    <3>3. filesWithMatches' = Cardinality(matched')
      BY <1>6, <2>2, <2>6, <3>1, <3>2 DEF FinishFile, CountFile
    <3>4. counted' = [m \in Match |-> ones[m] + (IF m \in MatchesOf(c) THEN 1 ELSE 0)]
      BY <1>6, <2>6, <3>1 DEF FinishFile, CountFile
    <3> QED
      BY <2>4, <3>3, <3>4
  <2>10. visited' = calls'
    BY <1>6, <2>5, <2>6 DEF FinishFile
  <2>11. warningsDropped' = Cardinality(given'.warnings \ warnings')
    BY <1>6 DEF Totals
  <2> QED
    BY <1>2, <2>7, <2>8, <2>9, <2>10, <2>11 DEF Totals, listed, shown, matched, ones, calls
<1> QED
  BY <1>3, <1>4, <1>5, <1>6, WhatIsGiven DEF MatchesOf

\* The files counted as searched are those taken and ended.
LEMMA InitCountsFiles == Init => CountsFiles
BY FS_EmptySet DEF Init, CountsFiles

LEMMA NextCountsFiles ==
  ASSUME TypeOK, Held, CountsFiles, NEW w \in Worker, Work(w)
  PROVE  CountsFiles'
<1>0. /\ file \in [Worker -> File \cup {0}] /\ completed \in Nat
      /\ 0 \notin File /\ taken \subseteq File
  BY SearchAssumption DEF TypeOK
<1>1. /\ \A v \in Worker \ {w} : file'[v] = file[v]
      /\ options' = options
  BY OneMoves DEF Stands
<1>2. CASE TakeFile(w)
  <2>1. PICK f \in File \ taken : taken' = taken \cup {f} /\ file' = [file EXCEPT ![w] = f]
    BY <1>2 DEF TakeFile
  <2>2. file'[w] = f /\ file[w] = 0 /\ completed' = completed
    BY <1>0, <1>2, <2>1 DEF TakeFile, Held
  <2>3. taken' \ HeldFiles' = taken \ HeldFiles
    <3>1. \A g \in File : g \in HeldFiles' <=> g \in HeldFiles \/ g = f
      BY <1>0, <1>1, <2>2 DEF HeldFiles
    <3> QED
      BY <1>0, <2>1, <3>1
  <2> QED
    BY <1>1, <2>2, <2>3 DEF CountsFiles
<1>3. CASE EndFile(w)
  <2>1. /\ file'[w] = 0 /\ taken' = taken
        /\ completed' = IF options.backend = "index" THEN completed + 1 ELSE completed
    BY <1>0, <1>3 DEF EndFile
  <2>2. file[w] \in taken /\ file[w] \in HeldFiles
    BY <1>0, <1>3 DEF EndFile, TypeOK, Active, Held, HeldFiles
  <2>3. file[w] \notin HeldFiles'
    BY <1>0, <1>1, <2>1, <2>2 DEF HeldFiles, Held
  <2> DEFINE ended == taken \ HeldFiles
  <2>4. taken' \ HeldFiles' = ended \cup {file[w]}
    <3>1. \A g \in File : g \in HeldFiles' <=> g \in HeldFiles /\ g # file[w]
      BY <1>0, <1>1, <2>1, <2>2, <2>3 DEF HeldFiles
    <3> QED
      BY <1>0, <2>1, <2>2, <3>1
  <2>5. IsFiniteSet(ended) /\ file[w] \notin ended
    BY <1>0, <2>2, SearchAssumption, FS_Subset
  <2> HIDE DEF ended
  <2>6. Cardinality(ended \cup {file[w]}) = Cardinality(ended) + 1
    BY <2>5, FS_AddElement
  <2> QED
    BY <1>1, <2>1, <2>4, <2>6 DEF CountsFiles, ended
<1>4. CASE ~TakeFile(w) /\ ~EndFile(w)
  <2>1. UNCHANGED <<taken, file, completed, options>>
    BY <1>4 DEF Work, CheckQuit, NoFileLeft, Abandon, OpenSource, SkipSource, FindNul,
         FailSource, FindMatch, FindQuietly, StoreQuietLines, StoreQuietSpans, FinishSource,
         VisitorPanics
  <2> QED
    BY <2>1 DEF CountsFiles, HeldFiles
<1> QED
  BY <1>2, <1>3, <1>4

-----------------------------------------------------------------------------
(* A quiet search *)

LEMMA InitOneWins == Init => OneWins
BY DEF Init, InitCollector, OneWins, Storing

LEMMA NextOneWins ==
  ASSUME TypeOK, HandedOnce, Tracked, OneWins, NEW w \in Worker, Work(w)
  PROVE  OneWins'
<1> USE DEF Goto, Storing
<1>0. /\ pc \in [Worker -> Step] /\ found \in [Worker -> Match \cup {0}]
  BY DEF TypeOK
<1>1. \A v \in Worker \ {w} : pc'[v] = pc[v] /\ found'[v] = found[v]
  BY OneMoves DEF Stands
<1>2. Quiet' = Quiet /\ \A m : m \in Hits(Texts \cup Cut)' <=> m \in Hits(Texts \cup Cut)
  BY OneMoves, SameSources DEF Hits
<1>3. CASE \/ CheckQuit(w) \/ TakeFile(w) \/ NoFileLeft(w) \/ EndFile(w) \/ Abandon(w)
           \/ OpenSource(w) \/ SkipSource(w) \/ FindNul(w) \/ FailSource(w) \/ FindMatch(w)
           \/ FinishSource(w) \/ VisitorPanics(w)
  <2>1. /\ ~Storing(w) /\ ~Storing(w)'
        /\ UNCHANGED <<quietVars, found>>
    BY <1>0, <1>3 DEF CheckQuit, TakeFile, NoFileLeft, EndFile, Abandon, OpenSource, SkipSource,
          FindNul, FailSource, FindMatch, FinishSource, VisitorPanics, NextSource
  <2>2. Quiet => filesWithMatches' = filesWithMatches
    <3>1. CASE FinishSource(w) /\ Quiet
      <4>1. ~Counts(Current(w))
        BY <3>1 DEF Counts, Quiet
      <4>2. filesWithMatches \in Nat
        BY DEF TypeOK, CollectorTypeOK
      <4> QED
        BY <3>1, <4>1, <4>2 DEF FinishSource, FinishFile, CountFile
    <3>2. CASE ~FinishSource(w)
      BY <1>3, <3>2 DEF CheckQuit, TakeFile, NoFileLeft, EndFile, Abandon, OpenSource, SkipSource,
           FindNul, FailSource, FindMatch, VisitorPanics
    <3> QED
      BY <3>1, <3>2
  <2>3. \A v \in Worker : /\ Storing(v)' <=> Storing(v)
                          /\ pc'[v] = "storeSpans" <=> pc[v] = "storeSpans"
    BY <1>1, <2>1
  <2> QED
    BY <1>2, <2>1, <2>2, <2>3 DEF OneWins
<1>4. CASE FindQuietly(w)
  <2>1. PICK m \in left[w] :
          \/ QuietMatch /\ found' = [found EXCEPT ![w] = m] /\ Goto(w, "storeLines")
          \/ quietFound /\ UNCHANGED <<quietFound, found, pc>>
    BY <1>4 DEF FindQuietly
  <2>2. /\ pc[w] = "source" /\ Quiet /\ UNCHANGED <<quietLines, quietSpans, filesWithMatches>>
    BY <1>4 DEF FindQuietly, Quiet
  <2>3. m \in Hits(Texts \cup Cut)
    <3>1. Searching(w) /\ Active(w) /\ Remains(w)
      BY <2>2 DEF Searching, Active, TypeOK
    <3>2. Current(w) \in Texts \cup Cut /\ m \in MatchesOf(Current(w))
      BY <2>1, <3>1, CurrentIs DEF HandedOnce, Mine
    <3> QED
      BY <3>2 DEF Hits, MatchesOf
  <2>4. CASE QuietMatch /\ found' = [found EXCEPT ![w] = m] /\ Goto(w, "storeLines")
    <3>1. pc'[w] = "storeLines" /\ found'[w] = m /\ quietFound' /\ ~quietFound
      BY <1>0, <2>4 DEF QuietMatch
    <3>2. \A v \in Worker : ~Storing(v)
      BY <3>1 DEF OneWins
    <3> QED
      BY <1>1, <1>2, <2>2, <2>3, <3>1, <3>2 DEF OneWins
  <2>5. CASE quietFound /\ UNCHANGED <<quietFound, found, pc>>
    BY <1>2, <2>2, <2>5 DEF OneWins
  <2> QED
    BY <2>1, <2>4, <2>5
<1>5. CASE StoreQuietLines(w)
  <2>1. /\ pc[w] = "storeLines" /\ pc'[w] = "storeSpans" /\ quietLines' = found[w]
        /\ UNCHANGED <<found, quietFound>>
    BY <1>0, <1>5 DEF StoreQuietLines
  <2>2. /\ Quiet /\ quietFound /\ found[w] \in Hits(Texts \cup Cut)
        /\ \A v \in Worker \ {w} : ~Storing(v)
    BY <2>1 DEF OneWins
  <2> QED
    BY <1>1, <1>2, <2>1, <2>2 DEF OneWins
<1>6. CASE StoreQuietSpans(w)
  <2>1. /\ pc[w] = "storeSpans" /\ pc'[w] = "source" /\ quietSpans' = found[w]
        /\ filesWithMatches' = 1 /\ UNCHANGED <<found, quietFound, quietLines>>
    BY <1>0, <1>6 DEF StoreQuietSpans
  <2>2. /\ Quiet /\ quietFound /\ found[w] \in Hits(Texts \cup Cut) /\ quietLines = found[w]
        /\ \A v \in Worker \ {w} : ~Storing(v)
    BY <2>1 DEF OneWins
  <2> QED
    BY <1>1, <1>2, <2>1, <2>2 DEF OneWins
<1> QED
  BY <1>3, <1>4, <1>5, <1>6 DEF Work

-----------------------------------------------------------------------------
(* What the caller gets *)

\* A heap that holds the smallest of what it was offered holds those with fewer
\* smaller ones than its limit.
LEMMA SmallestAreFirst ==
  ASSUME NEW offered \in SUBSET Nat, IsFiniteSet(offered), NEW heap, NEW limit \in Nat,
         IsSmallest(heap, limit, offered)
  PROVE  heap = First(offered, limit)
<1> DEFINE Below(x) == {y \in offered : y < x}
<1>1. heap \subseteq offered /\ IsFiniteSet(heap) /\ Cardinality(heap) \in Nat
  BY FS_Subset, FS_CardinalityType DEF IsSmallest
<1>2. \A x : IsFiniteSet(Below(x)) /\ Cardinality(Below(x)) \in Nat
  BY FS_Subset, FS_CardinalityType
<1>3. ASSUME NEW x \in heap PROVE Cardinality(Below(x)) < limit
  <2>1. Below(x) \subseteq heap \ {x}
    <3>1. \A y \in offered \ heap : x < y /\ y \in Nat /\ x \in Nat
      BY <1>1 DEF IsSmallest
    <3>2. \A y \in offered : y < x => y \in heap /\ y # x
      BY <3>1
    <3> QED
      BY <3>2
  <2>2. IsFiniteSet(heap \ {x}) /\ Cardinality(heap \ {x}) = Cardinality(heap) - 1
    BY <1>1, FS_RemoveElement
  <2> HIDE DEF Below
  <2>3. Cardinality(Below(x)) <= Cardinality(heap \ {x})
    BY <2>1, <2>2, FS_Subset
  <2>4. Cardinality(heap) <= limit
    BY DEF IsSmallest
  <2> QED
    BY <1>1, <1>2, <2>2, <2>3, <2>4
<1>4. ASSUME NEW x \in offered \ heap PROVE ~(Cardinality(Below(x)) < limit)
  <2>1. Cardinality(heap) = limit
    BY DEF IsSmallest
  <2>2. heap \subseteq Below(x)
    BY <1>1 DEF IsSmallest
  <2> HIDE DEF Below
  <2>3. Cardinality(heap) <= Cardinality(Below(x))
    BY <1>2, <2>2, FS_Subset
  <2> QED
    BY <1>2, <2>1, <2>3
<1> QED
  BY <1>1, <1>3, <1>4 DEF First

LEMMA NextEnded ==
  ASSUME TypeOK, Ended, NEW w \in Worker, Work(w)
  PROVE  Ended'
BY OneMoves DEF Ended

\* The invariant the reports rest on.
ReportInv ==
  /\ TypeOK /\ HandedOnce /\ HeapsKeepSmallest
  /\ Held /\ Tracked /\ Sound /\ Complete /\ Totals /\ CountsFiles /\ OneWins /\ Ended

LEMMA InitReport == Init => ReportInv
BY InitTypes, InitHandsOnce, InitSmallest, InitHeld, InitTracked, InitSound, InitComplete,
   InitTotals, InitCountsFiles, InitOneWins DEF ReportInv, Ended, Init

LEMMA NextReport == ReportInv /\ [Next]_vars => ReportInv'
<1> SUFFICES ASSUME ReportInv, [Next]_vars PROVE ReportInv'
  OBVIOUS
<1>1. TypeOK' /\ HandedOnce' /\ HeapsKeepSmallest'
  BY NextTypes, NextHandsOnce, NextSmallest DEF ReportInv
<1>2. ASSUME NEW w \in Worker, Work(w) PROVE ReportInv'
  <2>1. Held' /\ Tracked' /\ Sound' /\ Ended'
    BY <1>2, NextHeld, NextTracked, NextSound, NextEnded DEF ReportInv
  <2>2. Complete' /\ Totals'
    BY <1>2, NextComplete, NextTotals DEF ReportInv
  <2>3. CountsFiles' /\ OneWins'
    BY <1>2, NextCountsFiles, NextOneWins DEF ReportInv
  <2> QED
    BY <1>1, <2>1, <2>2, <2>3 DEF ReportInv
<1>3. ASSUME UNCHANGED <<collectorVars, kind, taken, completed, workerVars>>, Ended'
      PROVE  ReportInv'
  <2>1. /\ Reached' = Reached /\ Texts' = Texts /\ Refused' = Refused /\ Cut' = Cut
        /\ Quiet' = Quiet /\ \A f, i : Reaches(f, i)' = Reaches(f, i)
        /\ \A f : Chunked(f)' = Chunked(f)
        /\ \A s : Lists(s)' = Lists(s) /\ RetainsEvidence(s)' = RetainsEvidence(s)
    BY <1>3, SameSources
  <2>2. ShouldQuit' = ShouldQuit
    BY <1>3 DEF ShouldQuit
  <2>3. Held' /\ CountsFiles'
    BY <1>3, <2>2 DEF ReportInv, Held, CountsFiles, HeldFiles
  <2>4. Tracked'
    BY <1>3, <2>1 DEF ReportInv, Tracked, OnTrack, Active, Searching, Remains, Current, Opened,
                      MatchesOf
  <2>5. Sound'
    BY <1>3, <2>1 DEF ReportInv, Sound, Hits
  <2>6. Complete'
    BY <1>3, <2>1, <2>2 DEF ReportInv, Complete, Passed, Settled, MatchesOf
  <2>7. Totals'
    BY <1>3, <2>1 DEF ReportInv, Totals, Hits, MatchesOf
  <2>8. OneWins'
    BY <1>3, <2>1 DEF ReportInv, OneWins, Storing, Hits
  <2> QED
    BY <1>1, <1>3, <2>3, <2>4, <2>5, <2>6, <2>7, <2>8 DEF ReportInv
<1>4. CASE Finish
  <2>1. Ended'
    BY <1>4 DEF Finish, Ended, ShouldQuit
  <2> QED
    BY <1>3, <1>4, <2>1 DEF Finish
<1>5. CASE Terminated \/ UNCHANGED vars
  <2>1. Ended'
    BY <1>5 DEF Terminated, ReportInv, Ended, ShouldQuit
  <2> QED
    BY <1>3, <1>5, <2>1 DEF Terminated
<1> QED
  BY <1>2, <1>4, <1>5 DEF Next

\* In a search that ran to its end every reached source is settled.
LEMMA AllSettled ==
  ASSUME ReportInv, outcome = "complete"
  PROVE  /\ ~ShouldQuit /\ fatal = 0
         /\ taken = File /\ \A w \in Worker : file[w] = 0
         /\ \A s \in Reached : Settled(s)
<1>1. /\ \A w \in Worker : pc[w] = "done"
      /\ ~ShouldQuit /\ fatal = 0
  BY DEF ReportInv, Ended
<1>2. \A w \in Worker : file[w] = 0 /\ File \subseteq taken
  BY <1>1 DEF ReportInv, Held
<1>3. taken = File
  BY <1>2, SearchAssumption DEF ReportInv, TypeOK
<1>4. ASSUME NEW s \in Reached PROVE Settled(s)
  <2>1. PICK f \in File : \E i \in 1..Len(Members[f]) : Members[f][i] = s /\ Reaches(f, i)
    BY ReachedFrom
  <2>2. PICK i \in 1..Len(Members[f]) : Members[f][i] = s /\ Reaches(f, i)
    BY <2>1
  <2>3. Passed(f, i)
    BY <1>2, SearchAssumption DEF Passed
  <2> QED
    BY <1>1, <1>3, <2>2, <2>3 DEF ReportInv, Complete
<1> QED
  BY <1>1, <1>2, <1>3, <1>4

LEMMA ReportFollows == ReportInv => ReportIsDetermined
<1> SUFFICES ASSUME ReportInv, outcome = "complete", ~Quiet
             PROVE  ReportIsDetermined
  BY DEF ReportIsDetermined, Quiet
<1> DEFINE early == given.matches \cap Hits(Cut)
           records == IF options.result = "Matches" THEN Hits(Texts) \cup early ELSE {}
           listed == {s \in Texts : Lists(s)}
           shown == {s \in Texts : RetainsEvidence(s)}
<1>1. CollectorTypeOK /\ HeapsKeepSmallest /\ Sound /\ Totals
  BY DEF ReportInv, TypeOK
<1>2. given.sources = Texts /\ given.warnings = Refused
  <2>1. Reached \subseteq given.sources \cup given.warnings
    BY AllSettled DEF Settled
  <2> QED
    BY <1>1, <2>1 DEF Sound, Texts, Refused
<1>3. given.matches = records
  BY <1>1, <1>2 DEF Sound, Hits
<1>4. matches = First(records, options.limit)
  BY <1>1, <1>3, SmallestAreFirst, Limits, Offers DEF HeapsKeepSmallest
<1>5. files = First(listed, options.limit)
  BY <1>1, <1>2, SmallestAreFirst, Limits, Offers DEF HeapsKeepSmallest
<1>6. fileEvidence = First(shown, options.evidenceLimit)
  BY <1>1, <1>2, SmallestAreFirst, Limits, Offers DEF HeapsKeepSmallest
<1>7. warnings = First(Refused, options.warningLimit)
  BY <1>1, <1>2, SmallestAreFirst, Limits, Offers DEF HeapsKeepSmallest
<1>8. /\ truncated <=> matches # records \/ files # listed
      /\ fileEvidenceTruncated <=> fileEvidence # shown
      /\ warningsDropped = Cardinality(Refused \ warnings)
      /\ counted = [m \in Match |-> IF m \in Hits(Texts) THEN 1 ELSE 0]
      /\ filesWithMatches = Cardinality({s \in Texts : MatchesOf(s) # {}})
      /\ visited = [s \in Source |-> IF options.visitor /\ s \in Texts THEN 1 ELSE 0]
  BY <1>1, <1>2, <1>3 DEF Totals
<1>9. options.backend = "index" => completed = Cardinality(File)
  <2>1. taken \ HeldFiles = File
    BY AllSettled, SearchAssumption DEF HeldFiles
  <2> QED
    BY <2>1 DEF ReportInv, CountsFiles
<1>10. options.policy = "Abort" => \A s \in Reached : kind[s] # "error"
  BY <1>1, <1>2 DEF Sound, Texts, Refused
<1>11. early \in SUBSET Hits(Cut)
  OBVIOUS
<1> HIDE DEF early
<1> QED
  BY <1>4, <1>5, <1>6, <1>7, <1>8, <1>9, <1>10, <1>11 DEF ReportIsDetermined

\* A search that runs to its end reports the records, flags and totals of a
\* sequential one, for all files, options and orders of the workers' steps.
THEOREM ReportsAreSequential == Spec => []ReportIsDetermined
BY InitReport, NextReport, ReportFollows, PTL DEF Spec

LEMMA QuietFollows == ReportInv => QuietIsOneMatch
<1> SUFFICES ASSUME ReportInv, outcome \in {"complete", "stopped"}, Quiet
             PROVE  QuietIsOneMatch
  BY DEF QuietIsOneMatch, Quiet
<1>1. /\ \A w \in Worker : ~Storing(w)
      /\ fatal = 0 /\ (outcome = "stopped" <=> ShouldQuit)
  BY DEF ReportInv, Ended, Storing
<1>2. outcome = "stopped" => /\ quietLines = quietSpans /\ quietLines \in Hits(Texts \cup Cut)
                             /\ filesWithMatches = 1
  BY <1>1 DEF ReportInv, OneWins, ShouldQuit
<1>3. ASSUME outcome = "complete" PROVE Hits(Texts) = {} /\ filesWithMatches = 0
  <2>1. ~quietFound
    BY <1>1, <1>3 DEF ShouldQuit, Quiet
  <2>2. \A s \in Texts : MatchesOf(s) = {}
    BY <1>3, AllSettled DEF Settled, Texts
  <2>3. Hits(Texts) = {}
    BY <2>2 DEF Hits, MatchesOf
  <2> QED
    BY <2>1, <2>3 DEF ReportInv, OneWins
<1> QED
  BY <1>1, <1>2, <1>3 DEF QuietIsOneMatch

\* A quiet search reports one match as a whole, none only when there is none,
\* and no match when there was an error.
THEOREM QuietReportsOneMatch == Spec => []QuietIsOneMatch
BY InitReport, NextReport, QuietFollows, PTL DEF Spec

=============================================================================
