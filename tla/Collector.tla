------------------------------ MODULE Collector ------------------------------
(***************************************************************************)
(* What the workers of a search share (collector/): heaps that retain the  *)
(* smallest matches, files, warnings and evidence up to a limit each,      *)
(* totals, the flag of a quiet search and the first fatal error.           *)
(*                                                                         *)
(* A heap is under a mutex; each operation on it is one step.  The totals  *)
(* are sums over matches: counted says how often each match is in them.    *)
(***************************************************************************)
EXTENDS Integers, FiniteSets, FiniteSetsExt

CONSTANTS
  Source,      \* files and archive members, numbered by root and path
  Match,       \* matching lines or blocks, numbered by RankedMatch::compare
  SourceOf,    \* the source of a match
  Options      \* the SearchOptions a caller may pass

\* An archive with two members of one name is left out: their numbers differ.
ASSUME CollectorAssumption ==
  /\ Source \subseteq Nat \ {0} /\ IsFiniteSet(Source)
  /\ Match \subseteq Nat \ {0} /\ IsFiniteSet(Match)
  /\ SourceOf \in [Match -> Source]
  /\ Options \subseteq
       [backend : {"index", "scan"}, mode : {"Lines", "Multiline"},
        result : {"Matches", "Count", "Files", "Quiet"}, limit : Nat,
        warningLimit : Nat, evidence : {"None", "Matched", "All"},
        evidenceLimit : Nat, visitor : BOOLEAN, policy : {"Abort", "Continue"}]

VARIABLES
  options,
  matches, files, fileEvidence, warnings,           \* the heaps
  truncated, fileEvidenceTruncated, warningsDropped,
  counted,                \* matchingLines and occurrences: the matches in them
  filesWithMatches,
  quietFound,
  quietLines, quietSpans, \* the match whose lines and spans a quiet search stored
  fatal,                  \* the source of the first fatal error, or 0
  visited,                \* external: calls of the evidence callback
  given                   \* history: what the operations were called with

matchVars == <<matches, truncated>>
fileVars == <<files, fileEvidence, fileEvidenceTruncated, counted, visited>>
warningVars == <<warnings, warningsDropped>>
quietVars == <<quietFound, quietLines, quietSpans>>
collectorVars == <<options, matchVars, fileVars, filesWithMatches, warningVars,
                   quietVars, fatal, given>>

MatchesOf(s) == {m \in Match : SourceOf[m] = s}

ShouldQuit == fatal # 0 \/ (options.result = "Quiet" /\ quietFound)

\* Slip: a full heap keeps what came first.
KeepFirst(heap, limit, x) ==
  IF Cardinality(heap) < limit THEN heap \cup {x} ELSE heap

\* Slip: the push without the pop.
KeepAll(heap, limit, x) ==
  IF Cardinality(heap) < limit \/ (limit > 0 /\ x < Max(heap)) THEN heap \cup {x} ELSE heap

\* A full heap gives up its largest element for a smaller one.
Keep(heap, limit, x) ==
  IF Cardinality(heap) < limit THEN heap \cup {x}
  ELSE IF limit > 0 /\ x < Max(heap) THEN (heap \ {Max(heap)}) \cup {x}
  ELSE heap

Full(heap, limit) == Cardinality(heap) >= limit

-----------------------------------------------------------------------------

RetainMatch(m) ==
  /\ matches' = Keep(matches, options.limit, m)
  /\ truncated' = (truncated \/ Full(matches, options.limit))
  /\ given' = [given EXCEPT !.matches = @ \cup {m}]

\* Slip: a store instead of compare_exchange.
QuietMatchStored == quietFound' = TRUE

\* compare_exchange: one match of a quiet search wins.
QuietMatch ==
  /\ ~quietFound
  /\ quietFound' = TRUE

RetainsEvidence(s) == \/ options.evidence = "All"
                      \/ options.evidence = "Matched" /\ MatchesOf(s) # {}

Counts(s) == MatchesOf(s) # {} /\ options.result # "Quiet"
Lists(s) == Counts(s) /\ options.result \in {"Count", "Files"}

\* Slip: the totals are added after the return of a full heap.
CountFileLate(s) ==
  LET counts == Counts(s) /\ ~Full(files, options.limit)
  IN /\ counted' = [m \in Match |-> counted[m] + (IF counts /\ m \in MatchesOf(s) THEN 1 ELSE 0)]
     /\ filesWithMatches' = filesWithMatches + (IF counts THEN 1 ELSE 0)

CountFile(s) ==
  /\ counted' = [m \in Match |-> counted[m] + (IF Counts(s) /\ m \in MatchesOf(s) THEN 1 ELSE 0)]
  /\ filesWithMatches' = filesWithMatches + (IF Counts(s) THEN 1 ELSE 0)

\* The steps of finish_file in one: the callback, the evidence, the totals and
\* the file.  Nobody reads any of them before all workers have ended.
FinishFile(s) ==
  /\ visited' = IF options.visitor THEN [visited EXCEPT ![s] = @ + 1] ELSE visited
  /\ IF RetainsEvidence(s)
       THEN /\ fileEvidence' = Keep(fileEvidence, options.evidenceLimit, s)
            /\ fileEvidenceTruncated' = (fileEvidenceTruncated
                                           \/ Full(fileEvidence, options.evidenceLimit))
       ELSE UNCHANGED <<fileEvidence, fileEvidenceTruncated>>
  /\ CountFile(s)
  /\ IF Lists(s)
       THEN /\ files' = Keep(files, options.limit, s)
            /\ truncated' = (truncated \/ Full(files, options.limit))
       ELSE UNCHANGED <<files, truncated>>
  /\ given' = [given EXCEPT !.sources = @ \cup {s}]

Warn(s) ==
  /\ warnings' = Keep(warnings, options.warningLimit, s)
  /\ warningsDropped' = warningsDropped + (IF Full(warnings, options.warningLimit) THEN 1 ELSE 0)
  /\ given' = [given EXCEPT !.warnings = @ \cup {s}]

\* The first error stays.
Fail(s) == fatal' = IF fatal = 0 THEN s ELSE fatal

InitCollector ==
  /\ options \in Options
  /\ matches = {} /\ files = {} /\ fileEvidence = {} /\ warnings = {}
  /\ truncated = FALSE /\ fileEvidenceTruncated = FALSE /\ warningsDropped = 0
  /\ counted = [m \in Match |-> 0]
  /\ filesWithMatches = 0
  /\ quietFound = FALSE /\ quietLines = 0 /\ quietSpans = 0
  /\ fatal = 0
  /\ visited = [s \in Source |-> 0]
  /\ given = [matches |-> {}, sources |-> {}, warnings |-> {}]

\* Nothing exceeds its limit.
CollectorTypeOK ==
  /\ options \in Options
  /\ matches \subseteq Match /\ Cardinality(matches) <= options.limit
  /\ files \subseteq Source /\ Cardinality(files) <= options.limit
  /\ fileEvidence \subseteq Source /\ Cardinality(fileEvidence) <= options.evidenceLimit
  /\ warnings \subseteq Source /\ Cardinality(warnings) <= options.warningLimit
  /\ truncated \in BOOLEAN /\ fileEvidenceTruncated \in BOOLEAN /\ warningsDropped \in Nat
  /\ counted \in [Match -> Nat] /\ filesWithMatches \in Nat
  /\ quietFound \in BOOLEAN
  /\ quietLines \in Match \cup {0} /\ quietSpans \in Match \cup {0}
  /\ fatal \in Source \cup {0}
  /\ visited \in [Source -> Nat]
  /\ given \in [matches : SUBSET Match, sources : SUBSET Source, warnings : SUBSET Source]
=============================================================================
