------------------------------ MODULE LineSearch ------------------------------
(***************************************************************************)
(* line_search/mod.rs: the LineSearcher of one source.  The text arrives   *)
(* in chunks of any size; lines are assembled from them, a line longer     *)
(* than the limit is reported and dropped, the others are matched, and a   *)
(* match waits for the lines that follow it.                               *)
(*                                                                         *)
(* text is everything the source will hold; the chunk being pushed is      *)
(* text[at + 1 .. given].  A push is taken apart into the branches and     *)
(* loop turns of the code, so that nothing is hidden in a fold.            *)
(***************************************************************************)
EXTENDS Naturals, Sequences, FiniteSets, FiniteSetsExt, SequencesExt

CONSTANTS
  Byte,                       \* bytes of a source
  Newline, Return,            \* the line feed and the carriage return
  Bad,                        \* bytes that occur in no UTF-8 text
  Options,                    \* settings of a search
  Texts,                      \* what a source may hold
  Open                        \* no number yet

ASSUME ByteAssumption ==
  /\ {Newline, Return} \subseteq Byte \ Bad /\ Newline # Return
  /\ Bad \subseteq Byte
ASSUME LineAssumption ==
  /\ Texts \subseteq Seq(Byte)
  /\ Open \notin Nat
  /\ \A o \in Options : /\ o.result \in {"Matches", "Count"}
                        /\ o.before \in Nat /\ o.after \in Nat /\ o.lineBytes \in Nat
                        /\ o.pattern \in Seq(Byte) /\ o.pattern # <<>>

VARIABLES
  options,        \* SearchOptions, what matters here
  text,           \* the text of the source
  given, at,      \* bytes pushed so far, and bytes consumed (next_offset)
  phase,          \* where push is: "idle" outside, else the branch it is at
  pending,        \* pending_bytes
  pendingOffset,  \* pending_offset
  lineNumber,     \* line_number
  discarding,     \* discarding_long_line
  before,         \* the lines kept as context
  waiting,        \* pending_matches
  matchingLines, occurrences,
  retained,       \* given to Collector::retain_match
  tooLong,        \* lines warned about (warn_long_line), in order
  warnedLossy,
  totalLines,     \* of the FileSummary given to finish_file, or Open
  crossed         \* history: a line too long was completed by a later chunk
                  \* than the one it began in

lineVars == <<pending, pendingOffset, lineNumber, discarding>>
matchVars == <<before, waiting, matchingLines, occurrences, retained, warnedLossy>>
searcherVars == <<at, phase, lineVars, matchVars, tooLong, totalLines, crossed>>
vars == <<options, text, given, searcherVars>>

-----------------------------------------------------------------------------
(* Data *)

\* External: the occurrences of the literal, which does not overlap itself.
Spans(line) ==
  {i \in 0..Len(line) : \A j \in 1..Len(options.pattern) :
                          i + j <= Len(line) /\ line[i + j] = options.pattern[j]}

Stripped(line) ==
  IF line # <<>> /\ Last(line) = Return THEN Front(line) ELSE line

Lossy(line) == \E i \in 1..Len(line) : line[i] \in Bad

\* The bytes of the chunk that are still to be consumed.
Chunk == SubSeq(text, at + 1, given)
HasNewline == \E i \in (at + 1)..given : text[i] = Newline
\* Where the next newline of the chunk is.
NextNewline == Min({i \in (at + 1)..given : text[i] = Newline})

-----------------------------------------------------------------------------
(* Lines *)

WarnLongLine == tooLong' = Append(tooLong, lineNumber)

\* process_line: a match takes the lines before it along and waits for the
\* lines after it; matches that waited for this line may be complete.
ProcessLine(bytes) ==
  LET line == Stripped(bytes)
      spans == Spans(line)
      context == [number |-> lineNumber, text |-> line]
      served == {[found |-> [m.found EXCEPT !.after = Append(@, context)],
                  remaining |-> m.remaining - 1] : m \in waiting}
      found == [number |-> lineNumber, offset |-> pendingOffset, text |-> line,
                before |-> before, after |-> <<>>]
      matched == IF spans # {} THEN {found} ELSE {}
  IN /\ matchingLines' = matchingLines + Cardinality(matched)
     /\ occurrences' = occurrences + Cardinality(spans)
     /\ warnedLossy' = (warnedLossy \/ Lossy(line))
     /\ IF options.result = "Matches"
          THEN /\ retained' = retained \cup {m.found : m \in {s \in served : s.remaining = 0}}
                                       \cup (IF options.after = 0 THEN matched ELSE {})
               /\ waiting' = {s \in served : s.remaining > 0}
                               \cup (IF options.after = 0 THEN {}
                                     ELSE [found : matched, remaining : {options.after}])
               /\ before' = LET kept == Append(before, context)
                            IN IF Len(kept) > options.before
                                 THEN SubSeq(kept, Len(kept) - options.before + 1, Len(kept))
                                 ELSE kept
          ELSE UNCHANGED <<retained, waiting, before>>

\* The newline at position n ends the line.
EndLine(n) ==
  /\ at' = n
  /\ lineNumber' = lineNumber + 1
  /\ pendingOffset' = n

-----------------------------------------------------------------------------
(* push, branch by branch *)

\* The chunk is inside a line that was given up.
DiscardChunk ==
  /\ phase = "push" /\ discarding
  /\ ~HasNewline
  /\ at' = given
  /\ phase' = "idle"
  /\ UNCHANGED <<options, text, given, lineVars, matchVars, tooLong, totalLines, crossed>>

DiscardEnds ==
  /\ phase = "push" /\ discarding
  /\ HasNewline
  /\ EndLine(NextNewline)
  /\ discarding' = FALSE
  /\ phase' = "pending"
  /\ UNCHANGED <<options, text, given, pending, matchVars, tooLong, totalLines, crossed>>

\* Nothing is given up: go on to what earlier chunks left.
NothingDiscarded ==
  /\ phase = "push" /\ ~discarding
  /\ phase' = "pending"
  /\ UNCHANGED <<options, text, given, at, lineVars, matchVars, tooLong, totalLines, crossed>>

NothingPending ==
  /\ phase = "pending" /\ pending = <<>>
  /\ phase' = "loop"
  /\ UNCHANGED <<options, text, given, at, lineVars, matchVars, tooLong, totalLines, crossed>>

\* The rest of the line that earlier chunks began.  When it is too long it is
\* reported, and pending_bytes stay as they are.
CompletePending ==
  /\ phase = "pending" /\ pending # <<>>
  /\ HasNewline
  /\ LET prefix == SubSeq(text, at + 1, NextNewline - 1)
     IN IF Len(pending) + Len(prefix) > options.lineBytes
          THEN /\ WarnLongLine
               /\ crossed' = TRUE
               /\ UNCHANGED <<pending, matchVars>>
          ELSE /\ pending' = <<>>
               /\ ProcessLine(pending \o prefix)
               /\ UNCHANGED <<tooLong, crossed>>
  /\ EndLine(NextNewline)
  /\ phase' = "loop"
  /\ UNCHANGED <<options, text, given, discarding, totalLines>>

\* Slip: the rest of the line, in later chunks, is not discarded.
ExtendPendingUnmarked ==
  /\ phase = "pending" /\ pending # <<>>
  /\ ~HasNewline
  /\ IF Len(pending) + Len(Chunk) > options.lineBytes
       THEN pending' = <<>> /\ WarnLongLine
       ELSE pending' = pending \o Chunk /\ UNCHANGED tooLong
  /\ at' = given
  /\ phase' = "idle"
  /\ UNCHANGED <<options, text, given, pendingOffset, lineNumber, discarding, matchVars,
                 totalLines, crossed>>

\* The line goes on in the next chunk, or is given up.
ExtendPending ==
  /\ phase = "pending" /\ pending # <<>>
  /\ ~HasNewline
  /\ IF Len(pending) + Len(Chunk) > options.lineBytes
       THEN /\ pending' = <<>>
            /\ WarnLongLine
            /\ discarding' = TRUE
       ELSE /\ pending' = pending \o Chunk
            /\ UNCHANGED <<tooLong, discarding>>
  /\ at' = given
  /\ phase' = "idle"
  /\ UNCHANGED <<options, text, given, pendingOffset, lineNumber, matchVars, totalLines,
                 crossed>>

\* A line that lies within the chunk.
TakeLine ==
  /\ phase = "loop"
  /\ HasNewline
  /\ LET line == SubSeq(text, at + 1, NextNewline - 1)
     IN IF Len(line) > options.lineBytes
          THEN WarnLongLine /\ UNCHANGED matchVars
          ELSE ProcessLine(line) /\ UNCHANGED tooLong
  /\ EndLine(NextNewline)
  /\ UNCHANGED <<options, text, given, phase, pending, discarding, totalLines, crossed>>

\* The beginning of a line that a later chunk will end.
KeepTrailing ==
  /\ phase = "loop"
  /\ ~HasNewline
  /\ IF Len(Chunk) > options.lineBytes
       THEN /\ WarnLongLine
            /\ discarding' = TRUE
            /\ UNCHANGED pending
       ELSE /\ pending' = pending \o Chunk
            /\ UNCHANGED <<tooLong, discarding>>
  /\ at' = given
  /\ phase' = "idle"
  /\ UNCHANGED <<options, text, given, pendingOffset, lineNumber, matchVars, totalLines,
                 crossed>>

-----------------------------------------------------------------------------
(* The caller, and the end of the source *)

\* The next n bytes of the source are pushed.  (An empty chunk is ignored.)
Deliver(n) ==
  /\ phase = "idle"
  /\ n \in 1..(Len(text) - given)
  /\ given' = given + n
  /\ phase' = "push"
  /\ UNCHANGED <<options, text, at, lineVars, matchVars, tooLong, totalLines, crossed>>

\* finish: the last line has no newline ...
FinishLine ==
  /\ phase = "idle" /\ given = Len(text)
  /\ IF pending # <<>> /\ ~discarding THEN ProcessLine(pending) ELSE UNCHANGED matchVars
  /\ phase' = "finish"
  /\ UNCHANGED <<options, text, given, at, lineVars, tooLong, totalLines, crossed>>

\* ... and nothing follows the matches that wait for context.
FinishSearch ==
  /\ phase = "finish"
  /\ retained' = retained \cup {m.found : m \in waiting}
  /\ waiting' = {}
  /\ totalLines' = lineNumber - 1 + (IF pending # <<>> \/ discarding THEN 1 ELSE 0)
  /\ phase' = "done"
  /\ UNCHANGED <<options, text, given, at, lineVars, before, matchingLines, occurrences,
                 warnedLossy, tooLong, crossed>>

LineStep == \/ DiscardChunk \/ DiscardEnds \/ NothingDiscarded
            \/ NothingPending \/ CompletePending \/ ExtendPending
            \/ TakeLine \/ KeepTrailing
            \/ FinishSearch

\* LineSearcher::new.
LineInit ==
  /\ given = 0 /\ at = 0 /\ phase = "idle"
  /\ pending = <<>> /\ pendingOffset = 0 /\ lineNumber = 1 /\ discarding = FALSE
  /\ before = <<>> /\ waiting = {} /\ retained = {}
  /\ matchingLines = 0 /\ occurrences = 0
  /\ tooLong = <<>> /\ warnedLossy = FALSE
  /\ totalLines = Open
  /\ crossed = FALSE

Init == options \in Options /\ text \in Texts /\ LineInit

Done == phase = "done" /\ UNCHANGED vars

Next == LineStep \/ FinishLine \/ (\E n \in 1..Len(text) : Deliver(n)) \/ Done

Spec == Init /\ [][Next]_vars

-----------------------------------------------------------------------------
(* The report of a whole text, without chunks *)

Breaks(t) == {i \in 1..Len(t) : t[i] = Newline}
LineStarts(t) == {s \in {0} \cup Breaks(t) : s < Len(t)}
NumberOf(t, s) == 1 + Cardinality({b \in Breaks(t) : b <= s})
LineAt(t, s) ==
  SubSeq(t, s + 1, Min({b \in Breaks(t) : b > s} \cup {Len(t) + 1}) - 1)

Searched(t) == {s \in LineStarts(t) : Len(LineAt(t, s)) <= options.lineBytes}
SpansAt(t, s) == {<<s, i>> : i \in Spans(Stripped(LineAt(t, s)))}
Matching(t) == {s \in Searched(t) : Spans(Stripped(LineAt(t, s))) # {}}

\* The i-th of the members of S.
Nth(S, i) == CHOOSE s \in S : Cardinality({r \in S : r < s}) = i - 1
ContextAt(t, S) ==
  [i \in 1..Cardinality(S) |->
     LET s == Nth(S, i)
     IN [number |-> NumberOf(t, s), text |-> Stripped(LineAt(t, s))]]
\* The n members of S next to s.
Preceding(S, s, n) ==
  {r \in S : r < s /\ Cardinality({q \in S : r < q /\ q < s}) < n}
Following(S, s, n) ==
  {r \in S : r > s /\ Cardinality({q \in S : r > q /\ q > s}) < n}

MatchAt(t, s) ==
  [number |-> NumberOf(t, s), offset |-> s, text |-> Stripped(LineAt(t, s)),
   before |-> ContextAt(t, Preceding(Searched(t), s, options.before)),
   after |-> ContextAt(t, Following(Searched(t), s, options.after))]

IsReportOf(t) ==
  /\ retained = IF options.result = "Matches" THEN {MatchAt(t, s) : s \in Matching(t)} ELSE {}
  /\ matchingLines = Cardinality(Matching(t))
  /\ occurrences = Cardinality(UNION {SpansAt(t, s) : s \in Searched(t)})
  /\ ToSet(tooLong) = {NumberOf(t, s) : s \in LineStarts(t) \ Searched(t)}
  /\ Len(tooLong) = Cardinality(ToSet(tooLong))
  /\ warnedLossy = \E s \in Searched(t) : Lossy(Stripped(LineAt(t, s)))
  /\ totalLines = Cardinality(LineStarts(t))

-----------------------------------------------------------------------------
(* What the documentation says and the code does not do *)

\* "Maximum bytes retained for one logical line" (SearchOptions::max_line_bytes).
LineBufferIsBounded == Len(pending) <= options.lineBytes

=============================================================================
