--------------------------- MODULE MultilineSearch ---------------------------
(***************************************************************************)
(* multiline/: the search of a whole decoded text.  The matches come from  *)
(* the regular expression in order; those that share a line become one     *)
(* block of lines, with the lines around it as context.                    *)
(*                                                                         *)
(* Offsets count bytes from 0, the bytes of a sequence from 1.  A span is  *)
(* [start, end] with end exclusive.                                        *)
(***************************************************************************)
EXTENDS Naturals, Sequences, FiniteSets, FiniteSetsExt, SequencesExt

CONSTANTS Newline, Return     \* the line feed and the carriage return

-----------------------------------------------------------------------------
(* The cursor over the lines *)

\* The offset after the newline that ends the line of this offset.
NextLineEnd(t, start) ==
  Min({i \in (start + 1)..Len(t) : t[i] = Newline} \cup {Len(t)})

NewCursor(t) == [number |-> 1, start |-> 0, fullEnd |-> NextLineEnd(t, 0)]

\* One turn of the loop of advance_to, or nothing when the line is reached.
NextLine(t, cursor, offset) ==
  IF cursor.fullEnd < Len(t) /\ offset >= cursor.fullEnd
    THEN [number |-> cursor.number + 1, start |-> cursor.fullEnd,
          fullEnd |-> NextLineEnd(t, cursor.fullEnd)]
    ELSE cursor

\* The cursor after each turn; a text of n bytes needs less than n.
Turns(t, cursor, offset) ==
  LET turn[k \in 0..Len(t)] == IF k = 0 THEN cursor ELSE NextLine(t, turn[k - 1], offset)
  IN turn
AdvanceTo(t, cursor, offset) == Turns(t, cursor, offset)[Len(t)]

-----------------------------------------------------------------------------
(* Blocks *)

\* Slip: a span that begins on the last line of a block is a block of its own.
VisitApart(t, state, span) ==
  LET first == AdvanceTo(t, state.cursor, span.start)
      last == AdvanceTo(t, first, Max({span.start, span.end - 1}))
      endByte == Max({last.fullEnd, span.end})
      block == [startLine |-> first.number, endLine |-> last.number,
                startByte |-> first.start, endByte |-> endByte, spans |-> <<span>>]
      current == Last(state.blocks)
      extended == [current EXCEPT !.endLine = Max({@, last.number}),
                                  !.endByte = Max({@, endByte}),
                                  !.spans = Append(@, span)]
  IN [cursor |-> last,
      blocks |-> IF state.blocks # <<>> /\ first.number < current.endLine
                   THEN Append(Front(state.blocks), extended)
                   ELSE Append(state.blocks, block)]

\* A span extends the block before it when it begins on a line of the block.
Visit(t, state, span) ==
  LET first == AdvanceTo(t, state.cursor, span.start)
      last == AdvanceTo(t, first, Max({span.start, span.end - 1}))
      endByte == Max({last.fullEnd, span.end})
      block == [startLine |-> first.number, endLine |-> last.number,
                startByte |-> first.start, endByte |-> endByte, spans |-> <<span>>]
      current == Last(state.blocks)
      extended == [current EXCEPT !.endLine = Max({@, last.number}),
                                  !.endByte = Max({@, endByte}),
                                  !.spans = Append(@, span)]
  IN [cursor |-> last,
      blocks |-> IF state.blocks # <<>> /\ first.number <= current.endLine
                   THEN Append(Front(state.blocks), extended)
                   ELSE Append(state.blocks, block)]

\* The state after each span.
Visits(t, spans) ==
  LET state[k \in 0..Len(spans)] ==
        IF k = 0 THEN [cursor |-> NewCursor(t), blocks |-> <<>>]
        ELSE Visit(t, state[k - 1], spans[k])
  IN state
Blocks(t, spans) == Visits(t, spans)[Len(spans)].blocks

-----------------------------------------------------------------------------
(* Context *)

TrimLineEnd(t, end) ==
  LET unbroken == IF end > 0 /\ t[end] = Newline THEN end - 1 ELSE end
  IN IF unbroken > 0 /\ t[unbroken] = Return THEN unbroken - 1 ELSE unbroken

\* Up to count lines that end at the offset or before it, backwards.
Backward(t, state) ==
  LET content == TrimLineEnd(t, state.end)
      line == Max({i \in 1..content : t[i] = Newline} \cup {0})
  IN IF state.end = 0 \/ state.number <= 1
       THEN state
       ELSE [end |-> line, number |-> state.number - 1,
             lines |-> <<[number |-> state.number - 1,
                          text |-> SubSeq(t, line + 1, content)]>> \o state.lines]
LinesBefore(t, start, startLine, count) ==
  LET turn[k \in 0..count] ==
        IF k = 0 THEN [end |-> start, number |-> startLine, lines |-> <<>>]
        ELSE Backward(t, turn[k - 1])
  IN turn
ContextBefore(t, start, startLine, count) ==
  LinesBefore(t, start, startLine, count)[count].lines

\* Up to count lines from the offset on.
Forward(t, state) ==
  LET end == NextLineEnd(t, state.start)
  IN IF state.start >= Len(t)
       THEN state
       ELSE [start |-> end, number |-> state.number + 1,
             lines |-> Append(state.lines,
                         [number |-> state.number + 1,
                          text |-> SubSeq(t, state.start + 1, TrimLineEnd(t, end))])]
LinesAfter(t, start, endLine, count) ==
  LET turn[k \in 0..count] ==
        IF k = 0 THEN [start |-> start, number |-> endLine, lines |-> <<>>]
        ELSE Forward(t, turn[k - 1])
  IN turn
ContextAfter(t, start, endLine, count) == LinesAfter(t, start, endLine, count)[count].lines

\* finish_block: what is retained of a block.
MatchOf(t, block, options) ==
  [number |-> block.startLine, endNumber |-> block.endLine, offset |-> block.startByte,
   text |-> SubSeq(t, block.startByte + 1, block.endByte),
   spans |-> [i \in 1..Len(block.spans) |->
                [start |-> block.spans[i].start - block.startByte,
                 end |-> block.spans[i].end - block.startByte]],
   before |-> ContextBefore(t, block.startByte, block.startLine, options.before),
   after |-> ContextAfter(t, block.endByte, block.endLine, options.after)]

\* The totals of the FileSummary, after each block.
LineTotals(blocks) ==
  LET sum[k \in 0..Len(blocks)] ==
        IF k = 0 THEN 0 ELSE sum[k - 1] + (blocks[k].endLine - blocks[k].startLine) + 1
  IN sum
MatchingLines(blocks) == LineTotals(blocks)[Len(blocks)]
SpanTotals(blocks) ==
  LET sum[k \in 0..Len(blocks)] == IF k = 0 THEN 0 ELSE sum[k - 1] + Len(blocks[k].spans)
  IN sum
Occurrences(blocks) == SpanTotals(blocks)[Len(blocks)]

LogicalLineCount(t) ==
  IF t = <<>> THEN 0
  ELSE Cardinality({i \in 1..Len(t) : t[i] = Newline})
         + (IF Last(t) = Newline THEN 0 ELSE 1)

=============================================================================
