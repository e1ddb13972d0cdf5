---------------------------- MODULE FileProcessor ----------------------------
(***************************************************************************)
(* searcher/processor.rs and encoding.rs: one file on its way through a    *)
(* search.  The scanner delivers it in chunks of any size (an index        *)
(* delivers the whole content as one chunk), the first bytes decide how it *)
(* is read, and it is then streamed to a LineSearcher, buffered and        *)
(* decoded, or skipped.                                                    *)
(*                                                                         *)
(* The steps of the LineSearcher are those of LineSearch.  What the        *)
(* regular expression finds in a multiline search is any list of spans     *)
(* with the texts it may match.                                            *)
(***************************************************************************)
EXTENDS LineSearch

CONSTANTS
  Nul,                        \* the byte 0
  Utf8Mark,                   \* EF BB BF
  LeMark, BeMark,             \* FF FE and FE FF
  NoBase,                     \* no source offset
  Wide,                       \* the bytes of U+FFFD, or of another wide character
  Window,                     \* the 8 KiB that are inspected for a NUL
  MaxMultilineBytes, MaxArchiveBytes,
  Cases,                      \* files: [source, expected, options]
  MaxSpans                    \* bound: spans the regular expression finds

ASSUME FileAssumption ==
  /\ Nul \in Byte \ (Bad \cup {Newline, Return})
  /\ {Utf8Mark, LeMark, BeMark, Wide} \subseteq Seq(Byte)
  /\ Len(Utf8Mark) = 3 /\ Len(LeMark) = 2 /\ Len(BeMark) = 2 /\ LeMark # BeMark
  /\ NoBase \notin Nat
  /\ Window \in Nat /\ MaxMultilineBytes \in Nat /\ MaxArchiveBytes \in Nat
  /\ MaxSpans \in Nat
  /\ Lossy(LeMark) /\ Lossy(BeMark)
  /\ \A c \in Cases : /\ c.source \in Seq(Byte) /\ c.expected \in Nat
                      /\ c.options \in Options
  /\ \A o \in Options : /\ o.mode \in {"Line", "Multiline"} /\ o.archive \in BOOLEAN
                        /\ o.encoding \in {"Auto", "Utf8", "Utf16Le", "Utf16Be"}
                        /\ o.binary \in {"Skip", "Search"}

VARIABLES
  source,         \* the bytes the file turns out to have
  expected,       \* expected_bytes, from when the file was listed
  read,           \* bytes delivered so far
  mode,           \* FileMode, or what finish is doing
  buffer,         \* of Undecided and Buffered
  inspected,      \* inspected_binary_bytes
  base,           \* source_offset_base, or NoBase
  lossy,          \* SearchIdentity::lossy
  warned,         \* kinds of warnings about the file as a whole, in order
  spans           \* what the regular expression found in the whole text

modeVars == <<mode, buffer, inspected, base, lossy, warned, spans>>
fileVars == <<source, expected, read, modeVars>>
allVars == <<vars, fileVars>>

Multi == INSTANCE MultilineSearch

-----------------------------------------------------------------------------
(* Encodings *)

StartsWith(bytes, mark) == IsPrefix(mark, bytes)

IsUtf16(bytes) == StartsWith(bytes, LeMark) \/ StartsWith(bytes, BeMark)
BomLen(bytes) == IF StartsWith(bytes, Utf8Mark) THEN 3 ELSE 0

\* resolve_encoding
Encoding(bytes) ==
  IF options.encoding # "Auto" THEN options.encoding
  ELSE IF StartsWith(bytes, LeMark) THEN "Utf16Le"
  ELSE IF StartsWith(bytes, BeMark) THEN "Utf16Be"
  ELSE "Utf8"

Beginning(bytes, n) == SubSeq(bytes, 1, Min({n, Len(bytes)}))
Without(bytes, mark) ==
  IF StartsWith(bytes, mark) THEN SubSeq(bytes, Len(mark) + 1, Len(bytes)) ELSE bytes

\* External: decode_with_bom_removal of encoding_rs.  A byte that is not UTF-8
\* becomes a replacement character, which is three bytes long; text without such
\* a byte is borrowed as it is.
DecodeUtf8(bytes) ==
  LET rest == Without(bytes, Utf8Mark)
      replaced ==
        FlattenSeq([i \in 1..Len(rest) |-> IF rest[i] \in Bad THEN Wide ELSE <<rest[i]>>])
  IN [text |-> IF Lossy(rest) THEN replaced ELSE rest, errors |-> Lossy(rest)]

\* External: a pair with a NUL is the other byte; every other pair is a wide
\* character, and so is a single byte at the end, which is an error.
DecodeUtf16(bytes, mark) ==
  LET rest == Without(bytes, mark)
      unit(i) == <<rest[2 * i - 1], rest[2 * i]>>
      low(u) == IF mark = LeMark THEN u[1] ELSE u[2]
      high(u) == IF mark = LeMark THEN u[2] ELSE u[1]
      character(u) == IF high(u) = Nul /\ low(u) \notin Bad THEN <<low(u)>> ELSE Wide
      odd == Len(rest) % 2 = 1
  IN [text |-> FlattenSeq([i \in 1..(Len(rest) \div 2) |-> character(unit(i))])
                 \o (IF odd THEN Wide ELSE <<>>),
      errors |-> odd]

Decode(bytes) ==
  CASE Encoding(bytes) = "Utf8"    -> DecodeUtf8(bytes)
    [] Encoding(bytes) = "Utf16Le" -> DecodeUtf16(bytes, LeMark)
    [] Encoding(bytes) = "Utf16Be" -> DecodeUtf16(bytes, BeMark)

-----------------------------------------------------------------------------
(* FileProcessor::new *)

Streams(o) == o.encoding \in {"Auto", "Utf8"}

BufferLimit ==
  IF options.archive THEN MaxArchiveBytes
  ELSE IF options.mode = "Multiline" THEN MaxMultilineBytes
  ELSE Max({expected, 1})

FirstMode(o, bytes) ==
  CASE o.archive             -> IF bytes > MaxArchiveBytes THEN "skipped" ELSE "buffered"
    [] ~o.archive /\ o.mode = "Multiline" ->
                                IF bytes > MaxMultilineBytes THEN "skipped" ELSE "buffered"
    [] OTHER                 -> IF o.encoding = "Auto" THEN "undecided"
                                ELSE IF Streams(o) THEN "streaming" ELSE "buffered"

FileInit ==
  /\ LineInit
  /\ \E c \in Cases :
       /\ source = c.source /\ expected = c.expected /\ options = c.options
       /\ mode = FirstMode(c.options, c.expected)
       /\ warned = IF mode = "skipped" THEN <<"limit">> ELSE <<>>
       /\ text = IF mode = "streaming" THEN c.source ELSE <<>>
  /\ read = 0
  /\ buffer = <<>> /\ inspected = 0
  /\ base = 0 /\ lossy = FALSE /\ spans = <<>>

-----------------------------------------------------------------------------
(* push *)

\* The next chunk.  Only the content of an empty file is delivered as an empty
\* chunk, and only by an index.
Chunks == {n \in 0..(Len(source) - read) : n = 0 => source = <<>> /\ mode = "undecided"}
ChunkOf(n) == SubSeq(source, read + 1, read + n)
Read(n) == phase = "idle" /\ n \in Chunks /\ read' = read + n

\* Slip: a whole chunk is inspected.
InspectsAll(bytes) == IF options.binary = "Search" THEN <<>> ELSE bytes

\* Slip: the window starts again with each chunk.
InspectsEach(bytes) ==
  IF options.binary = "Search" THEN <<>>
  ELSE Beginning(bytes, Window)

\* binary_skip: what it inspects of these bytes, and whether it gives up.
Inspects(bytes) ==
  IF options.binary = "Search" THEN <<>>
  ELSE Beginning(bytes, Window - inspected)
HasNul(bytes) == \E i \in 1..Len(bytes) : bytes[i] = Nul

\* The file is given up with a warning, and its LineSearcher dropped.
Skip(kind) == mode' = "skipped" /\ warned' = Append(warned, kind)

KeepPrefix(n) ==
  /\ mode = "undecided" /\ Read(n)
  /\ Len(buffer) + n < 3 /\ Len(buffer) + n < expected
  /\ buffer' = buffer \o ChunkOf(n)
  /\ UNCHANGED <<vars, source, expected, mode, inspected, base, lossy, warned, spans>>

\* start_auto
StartAuto(n) ==
  /\ mode = "undecided" /\ Read(n)
  /\ Len(buffer) + n >= 3 \/ Len(buffer) + n >= expected
  /\ LET bytes == buffer \o ChunkOf(n)
         skip == BomLen(bytes)
         rest == SubSeq(bytes, skip + 1, Len(bytes))
     IN \/ /\ IsUtf16(bytes)
           /\ mode' = "buffered" /\ buffer' = bytes
           /\ UNCHANGED <<vars, inspected, base, warned>>
        \/ /\ ~IsUtf16(bytes)
           /\ inspected' = inspected + Len(Inspects(rest))
           /\ buffer' = <<>>
           /\ \/ /\ HasNul(Inspects(rest))
                 /\ Skip("binary")
                 /\ UNCHANGED <<vars, base>>
              \/ /\ ~HasNul(Inspects(rest))
                 /\ mode' = "streaming" /\ base' = skip
                 /\ text' = SubSeq(source, skip + 1, Len(source))
                 /\ given' = Len(rest)
                 /\ phase' = IF rest = <<>> THEN "idle" ELSE "push"
                 /\ UNCHANGED <<options, at, lineVars, matchVars, tooLong, totalLines,
                                crossed, warned>>
  /\ UNCHANGED <<source, expected, lossy, spans>>

PushLines(n) ==
  /\ mode = "streaming" /\ Read(n)
  /\ LET window == Inspects(ChunkOf(n))
     IN /\ inspected' = inspected + Len(window)
        /\ \/ HasNul(window) /\ Skip("binary") /\ UNCHANGED vars
           \/ ~HasNul(window) /\ Deliver(n) /\ UNCHANGED <<mode, warned>>
  /\ UNCHANGED <<source, expected, buffer, base, lossy, spans>>

\* Slip: after the error the file is still buffered.
PushBufferAfterError(n) ==
  /\ mode = "buffered" /\ Read(n)
  /\ IF Len(buffer) + n > BufferLimit
       THEN warned' = Append(warned, "limit") /\ UNCHANGED <<mode, buffer>>
       ELSE buffer' = buffer \o ChunkOf(n) /\ UNCHANGED <<mode, warned>>
  /\ UNCHANGED <<vars, source, expected, inspected, base, lossy, spans>>

\* A buffer that grows past its limit is an error; the mode is Skipped by then.
PushBuffer(n) ==
  /\ mode = "buffered" /\ Read(n)
  /\ IF Len(buffer) + n > BufferLimit
       THEN Skip(IF options.archive THEN "archive" ELSE "limit") /\ buffer' = <<>>
       ELSE buffer' = buffer \o ChunkOf(n) /\ UNCHANGED <<mode, warned>>
  /\ UNCHANGED <<vars, source, expected, inspected, base, lossy, spans>>

PushSkipped(n) ==
  /\ mode = "skipped" /\ Read(n)
  /\ UNCHANGED <<vars, source, expected, modeVars>>

-----------------------------------------------------------------------------
(* finish *)

AtEnd == phase = "idle" /\ read = Len(source)

FinishLines ==
  /\ mode \in {"streaming", "complete"} /\ AtEnd
  /\ FinishLine
  /\ mode' = "finished"
  /\ UNCHANGED <<source, expected, read, buffer, inspected, base, lossy, warned, spans>>

\* search_complete_bytes: the bytes are decoded as one, and pushed as one.
SearchComplete ==
  /\ mode \in {"undecided", "buffered"} /\ AtEnd /\ ~options.archive
  /\ LET decoded == Decode(buffer)
         errors == IF decoded.errors THEN <<"encoding">> ELSE <<>>
     IN /\ base' = IF Encoding(buffer) = "Utf8" THEN BomLen(buffer) ELSE NoBase
        /\ lossy' = decoded.errors
        /\ \/ /\ options.binary = "Skip"
              /\ HasNul(Beginning(decoded.text, Window))
              /\ mode' = "finished"
              /\ warned' = warned \o errors \o <<"binary">>
              /\ UNCHANGED vars
           \/ /\ options.binary = "Search" \/ ~HasNul(Beginning(decoded.text, Window))
              /\ warned' = warned \o errors
              /\ text' = decoded.text
              /\ IF options.mode = "Multiline"
                   THEN mode' = "multiline" /\ UNCHANGED <<given, phase>>
                   ELSE /\ mode' = "complete"
                        /\ given' = Len(decoded.text)
                        /\ phase' = IF decoded.text = <<>> THEN "idle" ELSE "push"
              /\ UNCHANGED <<options, at, lineVars, matchVars, tooLong, totalLines, crossed>>
  /\ UNCHANGED <<source, expected, read, buffer, inspected, spans>>

\* External: what the regular expression may find, in order, without overlap; an
\* empty match does not touch the match before it.
MayFind(bytes) == options.insensitive \/ bytes \in options.language
SpansOf(t) == {[start |-> i, end |-> j] : i \in 0..Len(t), j \in 0..Len(t)}
SpanLists(t) ==
  LET Span == {s \in SpansOf(t) :
                 s.start <= s.end /\ MayFind(SubSeq(t, s.start + 1, s.end))}
      next(a, b) == b.start >= a.end /\ (b.start = b.end => b.start > a.end)
  IN {l \in BoundedSeq(Span, MaxSpans) : \A i \in 2..Len(l) : next(l[i - 1], l[i])}

\* multiline::search
SearchMultiline ==
  /\ mode = "multiline"
  /\ spans' \in SpanLists(text)
  /\ LET blocks == Multi!Blocks(text, spans')
     IN /\ retained' = IF options.result # "Matches" THEN {}
                       ELSE {Multi!MatchOf(text, b, options) : b \in ToSet(blocks)}
        /\ matchingLines' = Multi!MatchingLines(blocks)
        /\ occurrences' = Multi!Occurrences(blocks)
  /\ totalLines' = Multi!LogicalLineCount(text)
  /\ mode' = "finished"
  /\ UNCHANGED <<options, text, given, at, phase, lineVars, before, waiting, warnedLossy,
                 tooLong, crossed, source, expected, read, buffer, inspected, base, lossy,
                 warned>>

\* archive::search takes the members from here (Search).
SearchArchive ==
  /\ mode = "buffered" /\ AtEnd /\ options.archive
  /\ mode' = "members"
  /\ UNCHANGED <<vars, source, expected, read, buffer, inspected, base, lossy, warned, spans>>

FinishSkipped ==
  /\ mode = "skipped" /\ AtEnd
  /\ mode' = "finished"
  /\ UNCHANGED <<vars, source, expected, read, buffer, inspected, base, lossy, warned, spans>>

-----------------------------------------------------------------------------

Finished == mode \in {"finished", "members"} /\ phase \in {"idle", "done"}

FileNext ==
  \/ \E n \in 0..Len(source) :
       KeepPrefix(n) \/ StartAuto(n) \/ PushLines(n) \/ PushBuffer(n) \/ PushSkipped(n)
  \/ LineStep /\ UNCHANGED fileVars
  \/ FinishLines \/ SearchComplete \/ SearchMultiline \/ SearchArchive \/ FinishSkipped
  \/ Finished /\ UNCHANGED allVars

FileSpec == FileInit /\ [][FileNext]_allVars

-----------------------------------------------------------------------------
(* What a file should give, without chunks *)

\* The text of the source.
TextOf(bytes) ==
  IF Encoding(bytes) # "Utf8" \/ options.mode # "Line" THEN Decode(bytes).text
  ELSE IF options.encoding = "Utf8" THEN bytes
  ELSE Without(bytes, Utf8Mark)

\* Lines of a text for the multiline search: an empty text has one as well.
StartsOf(t) == LineStarts(t) \cup {0}
LineOf(t, offset) == Min({NumberOf(t, offset), Cardinality(StartsOf(t))})
Touched(t, s) == LineOf(t, s.start)..LineOf(t, Max({s.start, s.end - 1}))
Covered(t, S) == UNION {Touched(t, s) : s \in S}

\* Lines n and n + 1 belong together: a match goes over the newline.
Bridged(t, S, n) == \E s \in S : {n, n + 1} \subseteq Touched(t, s)
Together(t, S, n) ==
  {m \in Covered(t, S) : \A k \in Min({m, n})..(Max({m, n}) - 1) : Bridged(t, S, k)}

BeginOf(t, n) == Nth(StartsOf(t), n)
EndOf(t, n) == Min({b \in Breaks(t) : b > BeginOf(t, n)} \cup {Len(t)})

\* The block of line n: whole lines, the matches in them, and the lines around.
BlockOf(t, S, n) ==
  LET lines == Together(t, S, n)
      first == BeginOf(t, Min(lines))
      last == BeginOf(t, Max(lines))
  IN [number |-> Min(lines), endNumber |-> Max(lines), offset |-> first,
      text |-> SubSeq(t, first + 1, EndOf(t, Max(lines))),
      spans |-> {[start |-> s.start - first, end |-> s.end - first]
                   : s \in {r \in S : Touched(t, r) \subseteq lines}},
      before |-> ContextAt(t, Preceding(StartsOf(t), first, options.before)),
      after |-> ContextAt(t, Following(StartsOf(t), last, options.after))]

-----------------------------------------------------------------------------
(* Properties *)

TypeOK ==
  /\ read \in 0..Len(source) /\ given \in 0..Len(text) /\ at \in 0..given
  /\ mode \in {"undecided", "streaming", "buffered", "skipped", "complete", "multiline",
               "members", "finished"}
  /\ phase \in {"idle", "push", "pending", "loop", "finish", "done"}
  /\ inspected \in 0..Window
  /\ base \in {0, 3, NoBase} /\ lossy \in BOOLEAN
  /\ Len(before) <= options.before
  /\ \A m \in waiting : m.remaining \in 1..options.after
  /\ totalLines \in Nat \cup {Open}

\* A file that has the bytes it was listed with gives the report of its text,
\* however it is cut into chunks, so a search through an index and a direct one
\* agree (except after a line too long that a later chunk completes).
ReportIsThatOfSource ==
  phase = "done" /\ expected = Len(source) /\ ~crossed =>
    text = TextOf(source) /\ IsReportOf(TextOf(source))

\* A streamed file counts as searched exactly if the first 8 KiB after its mark
\* have no NUL, however it is cut.  (A file listed with one or two bytes that has
\* grown is decided before its mark is complete.)
BinaryIsNotCounted ==
  mode = "finished" /\ ~options.archive /\ options.mode = "Line" /\ options.binary = "Skip"
      /\ phase \in {"idle", "done"} /\ expected \in Min({3, Len(source)})..Len(source)
      /\ Encoding(source) = "Utf8" =>
    (totalLines = Open <=> HasNul(Beginning(TextOf(source), Window)))

\* A file is counted, or there is one warning that says why it is not.
SkippedIsSaid ==
  mode = "finished" /\ phase \in {"idle", "done"} =>
    Cardinality({i \in 1..Len(warned) : warned[i] \in {"limit", "binary", "archive"}})
      = IF totalLines = Open THEN 1 ELSE 0

\* The blocks of a multiline search are whole lines, apart from each other, with
\* their matches and the lines around them, and the totals count distinct lines
\* ("Distinct physical lines covered by matches").
MultilineBlocksAreLines ==
  mode = "finished" /\ options.mode = "Multiline" /\ totalLines # Open =>
    LET S == ToSet(spans)
        covered == Covered(text, S)
    IN /\ matchingLines = Cardinality(covered)
       /\ occurrences = Len(spans)
       /\ totalLines = Cardinality(LineStarts(text))
       /\ options.result = "Matches" =>
            {[m EXCEPT !.spans = ToSet(@)] : m \in retained}
              = {BlockOf(text, S, n) : n \in covered}

-----------------------------------------------------------------------------
(* What the documentation says and the code does not do *)

\* "Exact line start in source bytes when a lossless mapping is available"
\* (SearchMatch::source_byte_offset).
SourceOffsetIsExact ==
  mode = "finished" /\ base # NoBase =>
    \A m \in retained :
      /\ base + m.offset \in {base} \cup Breaks(source)
      /\ NumberOf(source, base + m.offset) = m.number

=============================================================================
