------------------------------- MODULE Search -------------------------------
(***************************************************************************)
(* A search: workers take candidate files, search their sources and hand   *)
(* what they find to the collector; when all have ended the caller gets an *)
(* error or a report.  The candidates come from an index through an atomic *)
(* cursor (searcher/indexed.rs), or from the scanner, which delivers a     *)
(* file in chunks and asks between them whether to go on                   *)
(* (searcher/mod.rs).                                                      *)
(***************************************************************************)
EXTENDS Collector, Sequences

CONSTANTS
  Worker,      \* content workers
  File,        \* candidate files, numbered in the order of the entries
  Members,     \* the sources of a file in their order: one, or those of an archive
  Kinds        \* what the sources may turn out to be

\* A source is searched to its end, is skipped at once (a NUL byte, a size limit)
\* or for a NUL byte in a later chunk, or fails (a damaged archive, a limit).
Kind == {"text", "binary", "lateNul", "error"}

ASSUME SearchAssumption ==
  /\ File \subseteq Nat \ {0} /\ IsFiniteSet(File)
  /\ IsFiniteSet(Worker) /\ Worker # {}
  /\ Members \in [File -> Seq(Source)]
  /\ \A s \in Source : \E f \in File : \E i \in 1..Len(Members[f]) : Members[f][i] = s
  /\ \A f, g \in File : \A i \in 1..Len(Members[f]), j \in 1..Len(Members[g]) :
       Members[f][i] = Members[g][j] => f = g /\ i = j
  /\ Kinds \subseteq [Source -> Kind]

VARIABLES
  kind,        \* what the sources turn out to be
  taken,       \* the files workers have taken: the cursor, or the scanner's
  pc,          \* where each worker is
  file,        \* the file it searches, or 0
  at,          \* the position in it of the source it searches
  left,        \* the matches of that source it has not found yet
  found,       \* the match whose numbers it stores, in a quiet search
  completed,   \* files_searched of an indexed search
  outcome      \* of the call, or "none"

callVars == <<kind, taken, completed, outcome>>
workerVars == <<pc, file, at, left, found>>
vars == <<collectorVars, callVars, workerVars>>

Goto(w, step) == pc' = [pc EXCEPT ![w] = step]

Current(w) == Members[file[w]][at[w]]
Remains(w) == at[w] <= Len(Members[file[w]])
NextSource(w) == at' = [at EXCEPT ![w] = @ + 1] /\ Goto(w, "file")

\* Lines are searched chunk by chunk as the scanner delivers them; for blocks
\* and archives the whole file is needed first.
Chunked(f) == options.backend = "scan" /\ options.mode = "Lines" /\ Len(Members[f]) = 1

-----------------------------------------------------------------------------
(* The loop of a worker *)

CheckQuit(w) ==
  /\ pc[w] = "check"
  /\ Goto(w, IF ShouldQuit THEN "done" ELSE "take")
  /\ UNCHANGED <<collectorVars, callVars, file, at, left, found>>

\* fetch_add on the cursor, or the scanner's FileStart.
TakeFile(w) ==
  /\ pc[w] = "take"
  /\ \E f \in File \ taken :
       /\ options.backend = "index" => \A g \in File \ taken : f <= g
       /\ taken' = taken \cup {f}
       /\ file' = [file EXCEPT ![w] = f]
  /\ at' = [at EXCEPT ![w] = 1]
  /\ Goto(w, "file")
  /\ UNCHANGED <<collectorVars, kind, completed, outcome, left, found>>

\* Slip: continue instead of break.
NoFileLeftAgain(w) ==
  /\ pc[w] = "take"
  /\ File \subseteq taken
  /\ Goto(w, "check")
  /\ UNCHANGED <<collectorVars, callVars, file, at, left, found>>

NoFileLeft(w) ==
  /\ pc[w] = "take"
  /\ File \subseteq taken
  /\ Goto(w, "done")
  /\ UNCHANGED <<collectorVars, callVars, file, at, left, found>>

EndFile(w) ==
  /\ pc[w] = "file"
  /\ ~Remains(w)
  /\ completed' = IF options.backend = "index" THEN completed + 1 ELSE completed
  /\ file' = [file EXCEPT ![w] = 0]
  /\ Goto(w, "check")
  /\ UNCHANGED <<collectorVars, kind, taken, outcome, at, left, found>>

\* The callback of a scan asks at every event of a file.
Abandon(w) ==
  /\ options.backend = "scan" /\ ShouldQuit
  /\ \/ pc[w] = "file" /\ at[w] = 1
     \/ pc[w] = "source" /\ Chunked(file[w])
  /\ Goto(w, "done")
  /\ UNCHANGED <<collectorVars, callVars, file, at, left, found>>

-----------------------------------------------------------------------------
(* One source *)

\* start_auto, or search_complete_bytes.
OpenSource(w) ==
  /\ pc[w] = "file" /\ Remains(w)
  /\ \/ kind[Current(w)] = "text"
     \/ kind[Current(w)] = "lateNul" /\ Chunked(file[w])
  /\ left' = [left EXCEPT ![w] = MatchesOf(Current(w))]
  /\ Goto(w, "source")
  /\ UNCHANGED <<collectorVars, callVars, file, at, found>>

\* Skipped with a warning before anything is searched.
SkipSource(w) ==
  /\ pc[w] = "file" /\ Remains(w)
  /\ \/ kind[Current(w)] = "binary"
     \/ kind[Current(w)] = "lateNul" /\ ~Chunked(file[w])
  /\ Warn(Current(w))
  /\ NextSource(w)
  /\ UNCHANGED <<options, matchVars, fileVars, filesWithMatches, quietVars, fatal, callVars,
                 file, left, found>>

\* A NUL byte in a later chunk: the source is skipped after all, what was
\* handed over stays.
FindNul(w) ==
  /\ pc[w] = "source"
  /\ kind[Current(w)] = "lateNul"
  /\ Warn(Current(w))
  /\ NextSource(w)
  /\ UNCHANGED <<options, matchVars, fileVars, filesWithMatches, quietVars, fatal, callVars,
                 file, left, found>>

\* handle_error.  The rest of an archive is not searched.
FailSource(w) ==
  /\ pc[w] = "file" /\ Remains(w)
  /\ kind[Current(w)] = "error"
  /\ IF options.policy = "Abort"
       THEN Fail(Current(w)) /\ UNCHANGED <<warningVars, given>>
       ELSE Warn(Current(w)) /\ UNCHANGED fatal
  /\ at' = [at EXCEPT ![w] = Len(Members[file[w]]) + 1]
  /\ UNCHANGED <<options, matchVars, fileVars, filesWithMatches, quietVars, callVars,
                 pc, file, left, found>>

\* The next line or block; those with context are handed over later, in an
\* order of their own.
FindMatch(w) ==
  /\ pc[w] = "source"
  /\ options.result # "Quiet"
  /\ \E m \in left[w] :
       /\ left' = [left EXCEPT ![w] = @ \ {m}]
       /\ IF options.result = "Matches" THEN RetainMatch(m) ELSE UNCHANGED <<matchVars, given>>
  /\ UNCHANGED <<options, fileVars, filesWithMatches, warningVars, quietVars, fatal, callVars,
                 pc, file, at, found>>

\* A quiet search of lines goes on, one of blocks ends with its first match.
FindQuietly(w) ==
  /\ pc[w] = "source"
  /\ options.result = "Quiet"
  /\ \E m \in left[w] :
       /\ \A n \in left[w] : m <= n
       /\ left' = [left EXCEPT ![w] = IF options.mode = "Lines" THEN @ \ {m} ELSE {}]
       /\ \/ QuietMatch /\ found' = [found EXCEPT ![w] = m] /\ Goto(w, "storeLines")
          \/ quietFound /\ UNCHANGED <<quietFound, found, pc>>
  /\ UNCHANGED <<options, matchVars, fileVars, filesWithMatches, warningVars, quietLines,
                 quietSpans, fatal, given, callVars, file, at>>

\* The stores of quiet_match, one after the other.
StoreQuietLines(w) ==
  /\ pc[w] = "storeLines"
  /\ quietLines' = found[w]
  /\ Goto(w, "storeSpans")
  /\ UNCHANGED <<options, matchVars, fileVars, filesWithMatches, warningVars, quietFound,
                 quietSpans, fatal, given, callVars, file, at, left, found>>

StoreQuietSpans(w) ==
  /\ pc[w] = "storeSpans"
  /\ quietSpans' = found[w]
  /\ filesWithMatches' = 1
  /\ Goto(w, "source")
  /\ UNCHANGED <<options, matchVars, fileVars, warningVars, quietFound, quietLines, fatal,
                 given, callVars, file, at, left, found>>

\* A quiet search of blocks returns without finish_file.
Summarises == ~(options.result = "Quiet" /\ options.mode = "Multiline")

FinishSource(w) ==
  /\ pc[w] = "source"
  /\ kind[Current(w)] = "text"
  /\ left[w] = {}
  /\ IF Summarises
       THEN FinishFile(Current(w))
       ELSE UNCHANGED <<fileVars, truncated, filesWithMatches, given>>
  /\ NextSource(w)
  /\ UNCHANGED <<options, matches, warningVars, quietVars, fatal, callVars, file, left, found>>

\* The callback is the caller's code and may panic.  What the scanner does
\* then is its own affair.
VisitorPanics(w) ==
  /\ pc[w] = "source"
  /\ options.backend = "index" /\ options.visitor /\ Summarises
  /\ kind[Current(w)] = "text"
  /\ left[w] = {}
  /\ Goto(w, "panicked")
  /\ UNCHANGED <<collectorVars, callVars, file, at, left, found>>

-----------------------------------------------------------------------------

\* The calling thread joins the workers.
Finish ==
  /\ outcome = "none"
  /\ \A w \in Worker : pc[w] \in {"done", "panicked"}
  /\ outcome' = IF \E w \in Worker : pc[w] = "panicked" THEN "panicked"
                ELSE IF fatal # 0 THEN "error"
                ELSE IF ShouldQuit THEN "stopped"
                ELSE "complete"
  /\ UNCHANGED <<collectorVars, kind, taken, completed, workerVars>>

Terminated == outcome # "none" /\ UNCHANGED vars

Init ==
  /\ InitCollector
  /\ kind \in Kinds
  /\ taken = {} /\ completed = 0 /\ outcome = "none"
  /\ pc = [w \in Worker |-> "check"]
  /\ file = [w \in Worker |-> 0]
  /\ at = [w \in Worker |-> 0]
  /\ left = [w \in Worker |-> {}]
  /\ found = [w \in Worker |-> 0]

Work(w) ==
  \/ CheckQuit(w) \/ TakeFile(w) \/ NoFileLeft(w) \/ EndFile(w) \/ Abandon(w)
  \/ OpenSource(w) \/ SkipSource(w) \/ FindNul(w) \/ FailSource(w)
  \/ FindMatch(w) \/ FindQuietly(w) \/ StoreQuietLines(w) \/ StoreQuietSpans(w)
  \/ FinishSource(w) \/ VisitorPanics(w)

Next == (\E w \in Worker : Work(w)) \/ Finish \/ Terminated

Spec == Init /\ [][Next]_vars

\* The system runs every thread, and every call of the scanner and of the
\* callback returns.
FairSpec == Spec /\ WF_vars(Finish) /\ \A w \in Worker : WF_vars(Work(w))

-----------------------------------------------------------------------------
(* Properties *)

Step == {"check", "take", "file", "source", "storeLines", "storeSpans", "done", "panicked"}

\* The worker has a file, and searches a source of it.
Searching(w) == pc[w] \in {"source", "storeLines", "storeSpans"}
Active(w) == pc[w] = "file" \/ Searching(w)

\* The collector within its limits, and the workers at a source of their file.
TypeOK ==
  /\ CollectorTypeOK
  /\ kind \in Kinds /\ taken \subseteq File /\ completed \in Nat
  /\ outcome \in {"none", "complete", "stopped", "error", "panicked"}
  /\ pc \in [Worker -> Step]
  /\ file \in [Worker -> File \cup {0}]
  /\ at \in [Worker -> Nat]
  /\ left \in [Worker -> SUBSET Match]
  /\ found \in [Worker -> Match \cup {0}]
  /\ \A w \in Worker :
       /\ Active(w) => file[w] \in File /\ at[w] \in 1..(Len(Members[file[w]]) + 1)
       /\ Searching(w) => Remains(w)

\* What a heap of that limit may hold of what it was offered.
IsSmallest(heap, limit, offered) ==
  /\ heap \subseteq offered
  /\ \A x \in heap, y \in offered \ heap : x < y
  /\ Cardinality(heap) <= limit
  /\ heap = offered \/ Cardinality(heap) = limit

\* Whatever the order in which the workers hand things over, each heap holds
\* the smallest of them (retain_match, finish_file, warn).
HeapsKeepSmallest ==
  /\ IsSmallest(matches, options.limit, given.matches)
  /\ IsSmallest(files, options.limit, {s \in given.sources : Lists(s)})
  /\ IsSmallest(fileEvidence, options.evidenceLimit,
                {s \in given.sources : RetainsEvidence(s)})
  /\ IsSmallest(warnings, options.warningLimit, given.warnings)

\* What one worker, alone and in order, would find.  The sources of an archive
\* behind a failed one are not reached.
Reached == UNION {{Members[f][i] : i \in {j \in 1..Len(Members[f]) :
                                            \A k \in 1..(j - 1) : kind[Members[f][k]] # "error"}}
                  : f \in File}
Texts == {s \in Reached : kind[s] = "text"}
Refused == Reached \ Texts
Cut == {Members[f][1] : f \in {g \in File : Chunked(g) /\ kind[Members[g][1]] = "lateNul"}}
Hits(sources) == {m \in Match : SourceOf[m] \in sources}
First(set, n) == {x \in set : Cardinality({y \in set : y < x}) < n}

\* A search that ran to its end reports what a sequential one does: the records
\* up to the limits, whether any were left out, and totals over all of them.
\* Of a source skipped in a later chunk some matches may be among the records.
ReportIsDetermined ==
  outcome = "complete" /\ options.result # "Quiet" =>
    /\ \E early \in SUBSET Hits(Cut) :
         LET records == IF options.result = "Matches" THEN Hits(Texts) \cup early ELSE {}
             listed == {s \in Texts : Lists(s)}
         IN /\ matches = First(records, options.limit)
            /\ files = First(listed, options.limit)
            /\ truncated <=> matches # records \/ files # listed
    /\ LET shown == {s \in Texts : RetainsEvidence(s)}
       IN /\ fileEvidence = First(shown, options.evidenceLimit)
          /\ fileEvidenceTruncated <=> fileEvidence # shown
    /\ warnings = First(Refused, options.warningLimit)
    /\ warningsDropped = Cardinality(Refused \ warnings)
    /\ counted = [m \in Match |-> IF m \in Hits(Texts) THEN 1 ELSE 0]
    /\ filesWithMatches = Cardinality({s \in Texts : MatchesOf(s) # {}})
    /\ visited = [s \in Source |-> IF options.visitor /\ s \in Texts THEN 1 ELSE 0]
    /\ options.backend = "index" => completed = Cardinality(File)
    /\ options.policy = "Abort" => \A s \in Reached : kind[s] # "error"

\* A quiet search reports one match, never parts of two, and reports none only
\* when there is none; an error is not passed over for a match.
QuietIsOneMatch ==
  outcome \in {"complete", "stopped"} /\ options.result = "Quiet" =>
    /\ fatal = 0
    /\ outcome = "stopped" =>
         /\ quietLines = quietSpans
         /\ quietLines \in Hits(Texts \cup Cut)
         /\ filesWithMatches = 1
    /\ outcome = "complete" => Hits(Texts) = {} /\ filesWithMatches = 0

\* The call returns, also when workers were told to stop or panicked.
SearchReturns == <>(outcome # "none")

=============================================================================
