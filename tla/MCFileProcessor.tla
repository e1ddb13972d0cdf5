-------------------------- MODULE MCFileProcessor --------------------------
(***************************************************************************)
(* Small instances of IndexSearch for TLC: files of a few bytes, each      *)
(* delivered in every possible cut.                                        *)
(***************************************************************************)
EXTENDS IndexSearch

ByteDef == {"a", "b", "nl", "cr", "nul", "bad", "ff", "fe", "ef", "bb", "bf", "w"}
BadDef == {"bad", "ff", "fe"}
Utf8MarkDef == <<"ef", "bb", "bf">>
LeMarkDef == <<"ff", "fe">>
BeMarkDef == <<"fe", "ff">>
WideDef == <<"w", "w", "w">>

\* The bits of a trigram; many share theirs.
PositionsDef(t) == {Cardinality({i \in 1..2 : t[i] = "a"}), IF t[3] = "b" THEN 4 ELSE 5}

\* The regular expressions aab, (aab)?, (aab)+, (aab)+|b, a(aab)?b, [ab]*(aab){1,2} and
\* their parts.
Node(kind, bytes, children, min, max) ==
  [kind |-> kind, bytes |-> bytes, children |-> children, min |-> min, max |-> max]
HirDef == <<Node("literal", <<"a", "a", "b">>, <<>>, 0, 0),
            Node("capture", <<>>, <<1>>, 0, 0),
            Node("repetition", <<>>, <<2>>, 0, 1),
            Node("repetition", <<>>, <<2>>, 1, 2),
            Node("literal", <<"b">>, <<>>, 0, 0),
            Node("alternation", <<>>, <<4, 5>>, 0, 0),
            Node("literal", <<"a">>, <<>>, 0, 0),
            Node("concat", <<>>, <<7, 3, 5>>, 0, 0),
            Node("class", <<"a", "b">>, <<>>, 0, 0),
            Node("repetition", <<>>, <<9>>, 0, 4),
            Node("concat", <<>>, <<10, 4>>, 0, 0)>>

\* Settings: those of the tests, and what the cases below change.
Lines == [result |-> "Matches", before |-> 1, after |-> 1, lineBytes |-> 2,
          pattern |-> <<"a">>, mode |-> "Line", encoding |-> "Auto", binary |-> "Skip",
          archive |-> FALSE, insensitive |-> FALSE, everyFile |-> FALSE]
FarContext == [Lines EXCEPT !.before = 2, !.after = 2]
Counts == [Lines EXCEPT !.result = "Count", !.binary = "Search"]
AsUtf8 == [Lines EXCEPT !.encoding = "Utf8", !.after = 0]
AsUtf16 == [Lines EXCEPT !.encoding = "Utf16Le"]
Whole == [result |-> "Matches", before |-> 1, after |-> 1, lineBytes |-> 2,
          pattern |-> <<"a">>, mode |-> "Multiline", encoding |-> "Auto", binary |-> "Skip",
          archive |-> FALSE, insensitive |-> TRUE, everyFile |-> FALSE,
          node |-> 1, language |-> {}]
WholeCounts == [Whole EXCEPT !.result = "Count", !.after = 0]
Archive == [Lines EXCEPT !.archive = TRUE]

\* Queries that demand trigrams, or might.
Literals == {[Lines EXCEPT !.pattern = <<"a", "a", "b">>, !.lineBytes = 3, !.encoding = e]
               : e \in {"Auto", "Utf8", "Utf16Le"}}
Expressions ==
  {[Whole EXCEPT !.insensitive = FALSE, !.node = n, !.language = Filter!Language[n]]
     : n \in {1, 3, 4, 6, 8, 11}}

OptionsDef == {Lines, FarContext, Counts, AsUtf8, AsUtf16, Whole, WholeCounts, Archive}
                \cup Literals \cup Expressions
UnlimitedDef == {[o EXCEPT !.lineBytes = 9] : o \in {Lines, Whole}}

Bodies(letters, length) == BoundedSeq(letters, length)
Utf16(body, mark) ==
  mark \o FlattenSeq([i \in 1..Len(body) |->
                        IF mark = BeMarkDef THEN <<"nul", body[i]>> ELSE <<body[i], "nul">>])
Marked(marks, bodies) == {m \o b : m \in marks, b \in bodies}

\* Files that have the bytes they were listed with, or some more or less.
Files(sources, settings) ==
  {[source |-> s, expected |-> Len(s), options |-> o] : s \in sources, o \in settings}
ChangedFiles(sources, settings) ==
  {[source |-> s, expected |-> n, options |-> o] : s \in sources, n \in 0..4, o \in settings}

CasesDef ==
  Files(Bodies({"a", "nl"}, 7), {FarContext})
  \cup Files(Bodies({"a", "nl", "cr", "bad"}, 5), {Lines, Counts})
  \cup Files(Marked({<<>>, Utf8MarkDef}, Bodies({"a", "nl", "nul"}, 5)), {Lines, AsUtf8})
  \cup Files(Bodies({"a", "nl", "nul"}, 4), {Counts})
  \cup Files({Utf16(b, m) : b \in Bodies({"a", "nl", "nul"}, 2), m \in {LeMarkDef, BeMarkDef}},
             {Lines, AsUtf16, Counts})
  \cup ChangedFiles(Marked({LeMarkDef, Utf8MarkDef, <<>>}, Bodies({"a", "bad"}, 2)),
                    {Lines, Whole, AsUtf16, Archive})
  \cup Files(Bodies({"a", "nl", "cr"}, 4), {Whole})
  \cup Files(Bodies({"a", "nl", "bad"}, 3), {Whole, WholeCounts})
  \cup Files(Bodies({"a", "b"}, 4), Literals \cup Expressions)
  \cup Files({<<"a", "a", "a", "a", "nl", "b">>}, Literals)
  \cup ChangedFiles(Marked({Utf8MarkDef}, {<<"nul">>, <<"a", "nul">>}), {Lines})
  \cup Files({Utf16(b, LeMarkDef) : b \in {<<"a", "a", "b">>, <<"b", "a", "a">>}}, Literals)

\* Without a chance of a line too long.
LossyCases == Files(Bodies({"a", "nl", "bad"}, 3), UnlimitedDef)
=============================================================================
