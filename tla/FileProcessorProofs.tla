-------------------------- MODULE FileProcessorProofs --------------------------
(***************************************************************************)
(* For every file, all settings and every cut into chunks: what is         *)
(* searched is the text of the file, a streamed file is binary exactly if  *)
(* it has a NUL in the window after its mark, a file that is not searched  *)
(* is warned about, and what is reported of lines is the report of the     *)
(* whole text.                                                             *)
(*                                                                         *)
(* The LineSearcher keeps LineInv (LineSearchProofs) from when it is given *)
(* its text.  FileInv adds what the processor holds in each mode: the      *)
(* bytes it keeps are those it read, the text it streams is the file after *)
(* the mark, and no byte of the window that was inspected is a NUL.        *)
(***************************************************************************)
EXTENDS FileProcessor, LineSearchProofs

USE DEF modeVars, fileVars, lineVars

-----------------------------------------------------------------------------
(* What decoding gives *)

\* The sequences of a sequence, one after the other.
LEMMA FlattenType ==
  ASSUME NEW V, NEW n \in Nat, NEW seqs \in [1..n -> Seq(V)]
  PROVE  FlattenSeq(seqs) \in Seq(V)
<1> DEFINE Step(f, i) == IF i = 1 THEN seqs[i] ELSE f[i - 1] \o seqs[i]
           Built(f, m) == f \in [1..m -> Seq(V)] /\ \A i \in 1..m : f[i] = Step(f, i)
           Bare == {m \in 0..n : ~\E f : Built(f, m)}
<1>1. seqs \in Seq(Seq(V)) /\ Len(seqs) = n
  BY DEF Seq
<1> HIDE DEF Built, Step
<1>2. \E f : Built(f, n)
  <2>1. n \in 0..n
    OBVIOUS
  <2> SUFFICES ASSUME Bare # {} PROVE FALSE
    BY <2>1
  <2> DEFINE m == Min(Bare)
  <2>2. m \in Bare /\ \A y \in Bare : m <= y
    <3>1. Bare \in SUBSET Nat
      OBVIOUS
    <3> HIDE DEF Bare
    <3> QED
      BY <3>1, LeastExists
  <2> HIDE DEF m
  <2>3. m # 0
    <3>1. Built([i \in 1..0 |-> <<>>], 0)
      BY DEF Built
    <3> QED
      BY <2>2, <3>1
  <2>4. m \in 1..n /\ m - 1 \in 0..n /\ m - 1 \notin Bare
    <3>1. m \in 0..n /\ m # 0
      BY <2>2, <2>3
    <3>2. m - 1 \in 0..n /\ m \in 1..n /\ ~(m <= m - 1)
      BY <3>1
    <3> QED
      BY <2>2, <3>2
  <2>5. PICK f : Built(f, m - 1)
    BY <2>4
  <2>6. /\ f \in [1..(m - 1) -> Seq(V)]
         /\ \A i \in 1..(m - 1) : f[i] = Step(f, i)
    BY <2>5 DEF Built
  <2> DEFINE g == [i \in 1..m |-> IF i < m THEN f[i] ELSE Step(f, m)]
  <2>7. Step(f, m) \in Seq(V)
    <3>1. CASE m = 1
      BY <2>4, <3>1 DEF Step
    <3>2. CASE m # 1
      <4>1. m - 1 \in 1..(m - 1) /\ f[m - 1] \in Seq(V) /\ seqs[m] \in Seq(V)
        BY <2>4, <2>6, <3>2
      <4> QED
        BY <3>2, <4>1, ConcatProperties DEF Step
    <3> QED
      BY <3>1, <3>2
  <2>8. g \in [1..m -> Seq(V)]
    <3>1. \A i \in 1..m : i < m => f[i] \in Seq(V)
      BY <2>4, <2>6
    <3> QED
      BY <2>7, <3>1
  <2>9. \A i \in 1..m : g[i] = Step(g, i)
    <3> TAKE i \in 1..m
    <3>1. \A j \in 1..m : j < m => g[j] = f[j]
      BY <2>4
    <3>2. CASE i < m
      <4>1. f[i] = Step(f, i) /\ g[i] = f[i]
        BY <2>4, <2>6, <3>2
      <4>2. i # 1 => g[i - 1] = f[i - 1]
        BY <2>4, <3>1, <3>2
      <4> HIDE DEF g
      <4> QED
        BY <4>1, <4>2 DEF Step
    <3>3. CASE i = m
      <4>1. g[m] = Step(f, m)
        BY <2>4
      <4>2. m # 1 => g[m - 1] = f[m - 1]
        BY <2>4, <3>1
      <4> HIDE DEF g
      <4> QED
        BY <3>3, <4>1, <4>2 DEF Step
    <3> QED
      BY <2>4, <3>2, <3>3
  <2>10. Built(g, m)
    BY <2>8, <2>9 DEF Built
  <2> HIDE DEF g
  <2> QED
    BY <2>2, <2>10
<1> DEFINE Flatten(k) == CHOOSE f : f = [i \in 1..k |-> IF i = 1 THEN seqs[i]
                                                       ELSE f[i - 1] \o seqs[i]]
           flatten == Flatten(n)
<1>3. flatten = [i \in 1..n |-> Step(flatten, i)]
  <2>1. PICK f : Built(f, n)
    BY <1>2
  <2>2. f = [i \in 1..n |-> Step(f, i)]
    BY <2>1 DEF Built
  <2>3. \E h : h = [i \in 1..n |-> IF i = 1 THEN seqs[i] ELSE h[i - 1] \o seqs[i]]
    BY <2>2 DEF Step
  <2> QED
    BY <2>3 DEF Step
<1>4. \A i \in 1..n : flatten[i] \in Seq(V)
  <2> DEFINE Bad1 == {i \in 1..n : flatten[i] \notin Seq(V)}
  <2> SUFFICES ASSUME Bad1 # {} PROVE FALSE
    OBVIOUS
  <2> DEFINE m == Min(Bad1)
  <2>1. m \in Bad1 /\ \A y \in Bad1 : m <= y
    <3>1. Bad1 \in SUBSET Nat
      OBVIOUS
    <3> HIDE DEF Bad1
    <3> QED
      BY <3>1, LeastExists
  <2> HIDE DEF m, flatten
  <2>2. m \in 1..n /\ flatten[m] = Step(flatten, m)
    BY <1>3, <2>1
  <2>3. m # 1 => flatten[m - 1] \in Seq(V)
    BY <2>1
  <2>4. flatten[m] \in Seq(V)
    <3>1. CASE m = 1
      BY <2>2, <3>1 DEF Step
    <3>2. CASE m # 1
      BY <2>2, <2>3, <3>2, ConcatProperties DEF Step
    <3> QED
      BY <3>1, <3>2
  <2> QED
    BY <2>1, <2>4
<1>5. FlattenSeq(seqs) = IF n = 0 THEN seqs ELSE flatten[n]
  <2>1. FlattenSeq(seqs) = IF Len(seqs) = 0 THEN seqs ELSE Flatten(Len(seqs))[Len(seqs)]
    BY Zenon DEF FlattenSeq
  <2> HIDE DEF Flatten
  <2> QED
    BY <1>1, <2>1
<1> HIDE DEF flatten
<1>6. n = 0 => seqs \in Seq(V)
  BY <1>1, EmptySeq
<1> QED
  BY <1>4, <1>5, <1>6

\* The smaller of two numbers.
LEMMA Smaller ==
  ASSUME NEW m \in Nat, NEW n \in Nat
  PROVE  Min({m, n}) = IF m <= n THEN m ELSE n
<1>1. {m, n} \in SUBSET Nat /\ {m, n} # {}
  OBVIOUS
<1>2. Min({m, n}) \in {m, n} /\ \A y \in {m, n} : Min({m, n}) <= y
  BY <1>1, LeastExists
<1>3. Min({m, n}) <= m /\ Min({m, n}) <= n /\ (Min({m, n}) = m \/ Min({m, n}) = n)
  BY <1>2
<1> QED
  BY <1>3

\* The marks, and the bytes of a wide character.
LEMMA MarksAre ==
  /\ Utf8Mark \in Seq(Byte) /\ LeMark \in Seq(Byte) /\ BeMark \in Seq(Byte) /\ Wide \in Seq(Byte)
  /\ Len(Utf8Mark) = 3 /\ Len(LeMark) = 2 /\ Len(BeMark) = 2
  /\ Nul \in Byte /\ Window \in Nat /\ NoBase \notin Nat
BY FileAssumption

\* A prefix of a prefix.
LEMMA PrefixHas ==
  ASSUME NEW t \in Seq(Byte), NEW r \in 0..Len(t)
  PROVE  /\ SubSeq(t, 1, r) \in Seq(Byte) /\ Len(SubSeq(t, 1, r)) = r
         /\ \A i \in 1..r : SubSeq(t, 1, r)[i] = t[i]
         /\ \A m \in 0..r : SubSeq(SubSeq(t, 1, r), 1, m) = SubSeq(t, 1, m)
<1>1. r \in Nat /\ 0 \in 0..Len(t) /\ r \in 0..Len(t) /\ Len(t) \in Nat
  OBVIOUS
<1>2. \A e \in 0..Len(t) : /\ SubSeq(t, 0 + 1, e) \in Seq(Byte) /\ Len(SubSeq(t, 0 + 1, e)) = e - 0
                           /\ \A i \in 1..(e - 0) : SubSeq(t, 0 + 1, e)[i] = t[0 + i]
  BY <1>1, SubSeqHas
<1>3. \A e \in 0..Len(t) : /\ SubSeq(t, 1, e) \in Seq(Byte) /\ Len(SubSeq(t, 1, e)) = e
                           /\ \A i \in 1..e : SubSeq(t, 1, e)[i] = t[i]
  <2> TAKE e \in 0..Len(t)
  <2>1. e - 0 = e /\ 0 + 1 = 1 /\ \A i \in 1..e : 0 + i = i
    OBVIOUS
  <2>2. /\ SubSeq(t, 0 + 1, e) \in Seq(Byte) /\ Len(SubSeq(t, 0 + 1, e)) = e - 0
        /\ \A i \in 1..(e - 0) : SubSeq(t, 0 + 1, e)[i] = t[0 + i]
    BY <1>2
  <2> QED
    BY <2>1, <2>2
<1> DEFINE x == SubSeq(t, 1, r)
<1>4. x \in Seq(Byte) /\ Len(x) = r /\ \A i \in 1..r : x[i] = t[i]
  BY <1>1, <1>3
<1> HIDE DEF x
<1>5. ASSUME NEW m \in 0..r PROVE SubSeq(x, 1, m) = SubSeq(t, 1, m)
  <2>1. 0 \in 0..Len(x) /\ m \in 0..Len(x) /\ m \in 0..Len(t) /\ m \in Nat /\ 0 + 1 = 1 /\ m - 0 = m
    BY <1>1, <1>4
  <2>2. /\ SubSeq(x, 0 + 1, m) \in Seq(Byte) /\ Len(SubSeq(x, 0 + 1, m)) = m - 0
        /\ \A i \in 1..(m - 0) : SubSeq(x, 0 + 1, m)[i] = x[0 + i]
    BY <1>4, <2>1, SubSeqHas
  <2>3. /\ SubSeq(x, 1, m) \in Seq(Byte) /\ Len(SubSeq(x, 1, m)) = m
        /\ \A i \in 1..m : SubSeq(x, 1, m)[i] = x[i]
    BY <2>1, <2>2
  <2>4. /\ SubSeq(t, 1, m) \in Seq(Byte) /\ Len(SubSeq(t, 1, m)) = m
        /\ \A i \in 1..m : SubSeq(t, 1, m)[i] = t[i]
    BY <1>3, <2>1
  <2>5. \A i \in 1..m : x[i] = t[i]
    BY <1>1, <1>4
  <2> DEFINE y == SubSeq(x, 1, m)
             z == SubSeq(t, 1, m)
  <2>6. y \in Seq(Byte) /\ z \in Seq(Byte) /\ Len(y) = Len(z) /\ \A i \in 1..Len(y) : y[i] = z[i]
    BY <2>3, <2>4, <2>5
  <2> HIDE DEF y, z
  <2>7. y = z
    BY <2>6, SeqEqual
  <2> QED
    BY <2>7 DEF y, z
<1> QED
  BY <1>4, <1>5 DEF x

\* A mark is seen in a prefix that is long enough, and in one that is everything.
LEMMA MarkSeen ==
  ASSUME NEW t \in Seq(Byte), NEW r \in 0..Len(t), NEW mark \in Seq(Byte)
  PROVE  /\ StartsWith(SubSeq(t, 1, r), mark) => StartsWith(t, mark)
         /\ Len(mark) <= r \/ r = Len(t) =>
              (StartsWith(SubSeq(t, 1, r), mark) <=> StartsWith(t, mark))
         /\ StartsWith(t, mark) => Len(mark) <= Len(t)
<1> DEFINE x == SubSeq(t, 1, r)
           m == Len(mark)
<1>1. m \in Nat /\ Len(x) = r /\ r \in Nat /\ r <= Len(t) /\ Len(t) \in Nat
      /\ \A k \in 0..r : SubSeq(x, 1, k) = SubSeq(t, 1, k)
  BY PrefixHas
<1>2. /\ StartsWith(x, mark) <=> m <= Len(x) /\ SubSeq(mark, 1, m) = SubSeq(x, 1, m)
      /\ StartsWith(t, mark) <=> m <= Len(t) /\ SubSeq(mark, 1, m) = SubSeq(t, 1, m)
  BY DEF StartsWith, IsPrefix
<1>3. m <= r => SubSeq(x, 1, m) = SubSeq(t, 1, m)
  BY <1>1
<1> HIDE DEF x, m
<1>4. /\ StartsWith(x, mark) => StartsWith(t, mark)
      /\ m <= r \/ r = Len(t) => (StartsWith(x, mark) <=> StartsWith(t, mark))
      /\ StartsWith(t, mark) => m <= Len(t)
  BY <1>1, <1>2, <1>3
<1> QED
  BY <1>4 DEF x, m

\* A text without its mark is a text.
LEMMA WithoutType ==
  ASSUME NEW t \in Seq(Byte), NEW mark \in Seq(Byte)
  PROVE  Without(t, mark) \in Seq(Byte)
<1>1. CASE StartsWith(t, mark)
  <2>1. Len(mark) \in 0..Len(t) /\ Len(t) \in Len(mark)..Len(t)
    BY <1>1 DEF StartsWith, IsPrefix
  <2>2. SubSeq(t, Len(mark) + 1, Len(t)) \in Seq(Byte)
    BY <2>1, SubSeqHas
  <2> QED
    BY <1>1, <2>2 DEF Without
<1>2. CASE ~StartsWith(t, mark)
  BY <1>2 DEF Without
<1> QED
  BY <1>1, <1>2

\* What is decoded is a text ...
LEMMA Utf8Type ==
  ASSUME NEW t \in Seq(Byte)
  PROVE  DecodeUtf8(t).text \in Seq(Byte) /\ DecodeUtf8(t).errors \in BOOLEAN
<1> DEFINE rest == Without(t, Utf8Mark)
           parts == [i \in 1..Len(rest) |-> IF rest[i] \in Bad THEN Wide ELSE <<rest[i]>>]
<1>1. rest \in Seq(Byte)
  BY MarksAre, WithoutType
<1> HIDE DEF rest
<1>2. parts \in [1..Len(rest) -> Seq(Byte)]
  <2>1. \A i \in 1..Len(rest) : <<rest[i]>> \in Seq(Byte)
    BY <1>1
  <2> QED
    BY <2>1, MarksAre
<1>3. FlattenSeq(parts) \in Seq(Byte)
  <2>1. Len(rest) \in Nat
    BY <1>1
  <2> HIDE DEF parts
  <2> QED
    BY <1>2, <2>1, FlattenType
<1>4. DecodeUtf8(t) = [text |-> IF Lossy(rest) THEN FlattenSeq(parts) ELSE rest,
                       errors |-> Lossy(rest)]
  BY Zenon DEF DecodeUtf8, rest
<1>5. Lossy(rest) \in BOOLEAN
  BY DEF Lossy
<1> HIDE DEF parts
<1> QED
  BY <1>1, <1>3, <1>4, <1>5

\* ... from UTF-16 as well ...
LEMMA Utf16Type ==
  ASSUME NEW t \in Seq(Byte), NEW mark \in Seq(Byte)
  PROVE  DecodeUtf16(t, mark).text \in Seq(Byte) /\ DecodeUtf16(t, mark).errors \in BOOLEAN
<1> DEFINE rest == Without(t, mark)
           unit(i) == <<rest[2 * i - 1], rest[2 * i]>>
           low(u) == IF mark = LeMark THEN u[1] ELSE u[2]
           high(u) == IF mark = LeMark THEN u[2] ELSE u[1]
           character(u) == IF high(u) = Nul /\ low(u) \notin Bad THEN <<low(u)>> ELSE Wide
           n == Len(rest) \div 2
           odd == Len(rest) % 2 = 1
           parts == [i \in 1..n |-> character(unit(i))]
           ending == IF odd THEN Wide ELSE <<>>
<1>1. rest \in Seq(Byte)
  BY WithoutType
<1> HIDE DEF rest
<1>2. n \in Nat /\ 2 * n <= Len(rest) /\ Len(rest) \in Nat
  BY <1>1
<1>3. parts \in [1..n -> Seq(Byte)]
  <2> SUFFICES ASSUME NEW i \in 1..n PROVE character(unit(i)) \in Seq(Byte)
    OBVIOUS
  <2>1. 2 * i - 1 \in 1..Len(rest) /\ 2 * i \in 1..Len(rest)
    <3> HIDE DEF n
    <3> QED
      BY <1>2
  <2>2. rest[2 * i - 1] \in Byte /\ rest[2 * i] \in Byte
    BY <1>1, <2>1, ElementOfSeq
  <2>3. low(unit(i)) \in Byte
    BY <2>2
  <2> HIDE DEF low, high, unit
  <2> QED
    BY <2>3, MarksAre
<1> HIDE DEF n, parts
<1>4. FlattenSeq(parts) \in Seq(Byte)
  BY <1>2, <1>3, FlattenType
<1>5. ending \in Seq(Byte)
  BY MarksAre, EmptySeq
<1>6. DecodeUtf16(t, mark) = [text |-> FlattenSeq(parts) \o ending, errors |-> odd]
  BY Zenon DEF DecodeUtf16, rest, n, parts
<1>7. odd \in BOOLEAN
  OBVIOUS
<1> HIDE DEF ending, odd
<1>8. FlattenSeq(parts) \o ending \in Seq(Byte)
  BY <1>4, <1>5, ConcatProperties
<1> QED
  BY <1>6, <1>7, <1>8

\* ... and so it is from the encoding of the file.
LEMMA EncodingType ==
  ASSUME options \in Options, NEW t
  PROVE  Encoding(t) \in {"Utf8", "Utf16Le", "Utf16Be"}
<1>1. options.encoding \in {"Auto", "Utf8", "Utf16Le", "Utf16Be"}
  BY FileAssumption
<1> QED
  BY <1>1 DEF Encoding

\* The decoded file is a text.
LEMMA DecodeType ==
  ASSUME options \in Options, NEW t \in Seq(Byte)
  PROVE  Decode(t).text \in Seq(Byte) /\ Decode(t).errors \in BOOLEAN
<1>1. CASE Encoding(t) = "Utf8"
  BY <1>1, Utf8Type DEF Decode
<1>2. CASE Encoding(t) = "Utf16Le"
  <2>1. Decode(t) = DecodeUtf16(t, LeMark)
    BY <1>2 DEF Decode
  <2> QED
    BY <2>1, MarksAre, Utf16Type
<1>3. CASE Encoding(t) = "Utf16Be"
  <2>1. Decode(t) = DecodeUtf16(t, BeMark)
    BY <1>3 DEF Decode
  <2> QED
    BY <2>1, MarksAre, Utf16Type
<1> QED
  BY <1>1, <1>2, <1>3, EncodingType

-----------------------------------------------------------------------------
(* The invariant *)

FileTypes ==
  /\ source \in Seq(Byte) /\ expected \in Nat /\ read \in 0..Len(source)
  /\ mode \in {"undecided", "streaming", "buffered", "skipped", "complete", "multiline",
               "members", "finished"}
  /\ buffer \in Seq(Byte) /\ inspected \in 0..Window
  /\ base \in {0, 3, NoBase} /\ lossy \in BOOLEAN

\* The LineSearcher is new until something is pushed, and gets no further than the file.
\* (A multiline search ends without it.)
Searcher ==
  /\ LineTypes
  /\ LineInv \/ (mode = "finished" /\ phase = "idle")
  /\ mode \in {"undecided", "buffered", "multiline"} => LineInit
  /\ phase \in {"push", "pending", "loop"} => mode \in {"streaming", "complete"}
  /\ phase \in {"finish", "done"} => mode = "finished"

LinesOnly == options.mode = "Line" /\ ~options.archive

\* What is kept of the bytes until the file has a text.
Gathered ==
  /\ mode \in {"undecided", "buffered"} => buffer = SubSeq(source, 1, read)
  /\ mode = "undecided" =>
       /\ LinesOnly /\ options.encoding = "Auto" /\ inspected = 0
       /\ read < 3 /\ (read = 0 \/ read < expected)
  /\ mode = "buffered" /\ LinesOnly => Encoding(source) # "Utf8"

\* The file is as long as it was listed, or has grown and its mark is seen.
Foreseen == expected \in Min({3, Len(source)})..Len(source)

\* A streamed file: the LineSearcher has what was read after the mark, and no NUL was
\* seen in the window.
Streamed ==
  mode = "streaming" =>
    /\ LinesOnly /\ base \in {0, 3} /\ base <= read
    /\ text = SubSeq(source, base + 1, Len(source)) /\ given = read - base
    /\ Foreseen => text = TextOf(source)
    /\ options.binary = "Skip" =>
         /\ inspected = IF given < Window THEN given ELSE Window
         /\ \A i \in 1..inspected : text[i] # Nul

Judged == LinesOnly /\ options.binary = "Skip" /\ Foreseen /\ Encoding(source) = "Utf8"
Spoiled == HasNul(Beginning(TextOf(source), Window))
LinesBegun == mode = "complete" \/ (mode = "finished" /\ phase # "idle")

\* A text that is searched is that of the file, and is not binary; a file that is
\* given up is.
Decided ==
  /\ LinesBegun => LinesOnly /\ (expected = Len(source) => text = TextOf(source))
  /\ LinesBegun /\ Judged => ~Spoiled
  /\ mode = "skipped" /\ Judged => Spoiled
  /\ mode = "multiline" => options.mode = "Multiline"
  /\ mode = "finished" /\ phase = "idle" =>
       IF totalLines = Open THEN Judged => Spoiled ELSE options.mode = "Multiline"

\* What was said about the file.
GivenUp == {<<"limit">>, <<"binary">>, <<"archive">>}
Said ==
  /\ mode \in {"undecided", "streaming", "buffered"} => warned = <<>>
  /\ mode = "skipped" => warned \in GivenUp
  /\ mode = "multiline" \/ LinesBegun => warned \in {<<>>, <<"encoding">>}
  /\ mode = "finished" /\ phase = "idle" =>
       IF totalLines = Open THEN warned \in GivenUp \cup {<<"encoding", "binary">>}
       ELSE warned \in {<<>>, <<"encoding">>}

FileInv == FileTypes /\ Searcher /\ Gathered /\ Streamed /\ Decided /\ Said

-----------------------------------------------------------------------------
(* What a step leaves alone *)

\* The text of a file depends on the file and the settings alone.
LEMMA SameText ==
  ASSUME options' = options, source' = source
  PROVE  /\ Encoding(source)' = Encoding(source) /\ TextOf(source)' = TextOf(source)
         /\ Spoiled' = Spoiled /\ LinesOnly' = LinesOnly
         /\ expected' = expected => Foreseen' = Foreseen /\ Judged' = Judged
<1>1. Encoding(source)' = Encoding(source)
  BY DEF Encoding
<1>2. Decode(source)' = Decode(source)
  BY <1>1 DEF Decode
<1>3. TextOf(source)' = TextOf(source)
  BY <1>1, <1>2 DEF TextOf
<1>4. Spoiled' = Spoiled
  BY <1>3 DEF Spoiled
<1>5. LinesOnly' = LinesOnly
  BY DEF LinesOnly
<1>6. expected' = expected => Foreseen' = Foreseen
  BY DEF Foreseen
<1>7. expected' = expected => Judged' = Judged
  BY <1>1, <1>5, <1>6 DEF Judged
<1> QED
  BY <1>1, <1>3, <1>4, <1>5, <1>6, <1>7

\* The steps of a LineSearcher.
LEMMA LineStepMoves ==
  ASSUME LineStep
  PROVE  /\ options' = options /\ text' = text /\ given' = given
         /\ \/ phase \in {"push", "pending", "loop"} /\ phase' \in {"idle", "pending", "loop"}
            \/ phase = "finish" /\ phase' = "done"
BY DEF LineStep, DiscardChunk, DiscardEnds, NothingDiscarded, NothingPending, CompletePending,
       ExtendPending, TakeLine, KeepTrailing, FinishSearch

\* A LineSearcher that has begun in this step.
LEMMA BegunThen ==
  Begun' /\ (options \in Options)' /\ (text \in Seq(Byte))' => LineInv'
<1>1. Begun /\ options \in Options /\ text \in Seq(Byte) => LineInv
  BY LineInvAtStart
<1> QED
  BY <1>1, PTL

\* A step on the file while the LineSearcher waits.
LEMMA SearcherWaits ==
  ASSUME Searcher, UNCHANGED vars, phase = "idle", mode # "finished",
         mode' \in {"undecided", "buffered"} => mode \in {"undecided", "buffered"},
         mode' # "multiline"
  PROVE  Searcher'
<1>1. LineInv /\ LineInv'
  BY LineInvOfVars DEF Searcher
<1>2. LineTypes' /\ phase' = "idle"
  BY <1>1 DEF LineInv, vars, searcherVars
<1>3. LineInit => LineInit'
  BY DEF vars, searcherVars, matchVars, LineInit
<1> QED
  BY <1>1, <1>2, <1>3 DEF Searcher

\* The LineSearcher moves.
LEMMA SearcherMoves ==
  ASSUME FileInv, LineStep, UNCHANGED fileVars
  PROVE  FileInv'
<1>1. /\ options' = options /\ text' = text /\ given' = given
      /\ \/ phase \in {"push", "pending", "loop"} /\ phase' \in {"idle", "pending", "loop"}
         \/ phase = "finish" /\ phase' = "done"
  BY LineStepMoves
<1>2. /\ source' = source /\ expected' = expected /\ read' = read /\ mode' = mode
      /\ buffer' = buffer /\ inspected' = inspected /\ base' = base /\ lossy' = lossy
      /\ warned' = warned
  OBVIOUS
<1>3. FileTypes'
  BY <1>2 DEF FileInv, FileTypes
<1>4. Searcher'
  <2>1. Searcher
    BY DEF FileInv
  <2>2. LineInv /\ LineInv'
    BY <1>1, <2>1, LineInvKept DEF Searcher
  <2>3. LineTypes'
    BY <2>2 DEF LineInv
  <2>4. mode' \notin {"undecided", "buffered", "multiline"}
    BY <1>1, <1>2, <2>1 DEF Searcher
  <2> QED
    BY <1>1, <1>2, <2>1, <2>2, <2>3, <2>4 DEF Searcher
<1>5. Encoding(source)' = Encoding(source) /\ TextOf(source)' = TextOf(source)
      /\ Spoiled' = Spoiled /\ LinesOnly' = LinesOnly /\ Foreseen' = Foreseen /\ Judged' = Judged
  BY <1>1, <1>2, SameText
<1>6. Gathered'
  BY <1>1, <1>2, <1>5 DEF FileInv, Gathered
<1>7. Streamed'
  BY <1>1, <1>2, <1>5 DEF FileInv, Streamed
<1>8. LinesBegun' = LinesBegun /\ ~(mode' = "finished" /\ phase' = "idle")
  BY <1>1, <1>2 DEF FileInv, Searcher, LinesBegun
<1>9. Decided'
  BY <1>1, <1>2, <1>5, <1>8 DEF FileInv, Decided
<1>10. Said'
  BY <1>2, <1>8 DEF FileInv, Said
<1> QED
  BY <1>3, <1>4, <1>6, <1>7, <1>9, <1>10 DEF FileInv

\* Nothing happens.
LEMMA FileInvOfVars ==
  ASSUME FileInv, UNCHANGED allVars
  PROVE  FileInv'
<1>1. /\ options' = options /\ text' = text /\ given' = given /\ phase' = phase
      /\ totalLines' = totalLines
      /\ source' = source /\ expected' = expected /\ read' = read /\ mode' = mode
      /\ buffer' = buffer /\ inspected' = inspected /\ base' = base /\ lossy' = lossy
      /\ warned' = warned /\ UNCHANGED vars
  BY DEF allVars, vars, searcherVars
<1>2. FileTypes'
  BY <1>1 DEF FileInv, FileTypes
<1>3. Searcher'
  <2>1. LineInv => LineInv'
    BY <1>1, LineInvOfVars
  <2>2. LineTypes' = LineTypes /\ LineInit' = LineInit
    BY <1>1 DEF vars, searcherVars, matchVars, LineTypes, LineInit
  <2> QED
    BY <1>1, <2>1, <2>2 DEF FileInv, Searcher
<1>4. Encoding(source)' = Encoding(source) /\ TextOf(source)' = TextOf(source)
      /\ Spoiled' = Spoiled /\ LinesOnly' = LinesOnly /\ Foreseen' = Foreseen /\ Judged' = Judged
  BY <1>1, SameText
<1>5. Gathered' /\ Streamed'
  BY <1>1, <1>4 DEF FileInv, Gathered, Streamed
<1>6. LinesBegun' = LinesBegun
  BY <1>1 DEF LinesBegun
<1>7. Decided'
  BY <1>1, <1>4, <1>6 DEF FileInv, Decided
<1>8. Said'
  BY <1>1, <1>6 DEF FileInv, Said
<1> QED
  BY <1>2, <1>3, <1>5, <1>7, <1>8 DEF FileInv

-----------------------------------------------------------------------------
(* The steps *)

\* The settings of a file.
LEMMA SettingTypes ==
  ASSUME options \in Options
  PROVE  /\ options.mode \in {"Line", "Multiline"} /\ options.archive \in BOOLEAN
         /\ options.encoding \in {"Auto", "Utf8", "Utf16Le", "Utf16Be"}
         /\ options.binary \in {"Skip", "Search"}
BY FileAssumption

\* A file that was just opened.
LEMMA FileInvAtStart ==
  ASSUME FileInit
  PROVE  FileInv
<1>1. PICK c \in Cases :
        /\ source = c.source /\ expected = c.expected /\ options = c.options
        /\ mode = FirstMode(c.options, c.expected)
        /\ warned = IF mode = "skipped" THEN <<"limit">> ELSE <<>>
        /\ text = IF mode = "streaming" THEN c.source ELSE <<>>
  BY DEF FileInit
<1>2. LineInit /\ read = 0 /\ buffer = <<>> /\ inspected = 0 /\ base = 0 /\ lossy = FALSE
  BY DEF FileInit
<1>3. source \in Seq(Byte) /\ expected \in Nat /\ options \in Options
  BY <1>1, FileAssumption
<1>4. /\ options.mode \in {"Line", "Multiline"} /\ options.archive \in BOOLEAN
      /\ options.encoding \in {"Auto", "Utf8", "Utf16Le", "Utf16Be"}
  BY <1>3, SettingTypes
<1>5. \/ mode = "skipped" /\ ~LinesOnly
      \/ mode = "buffered" /\ (LinesOnly => options.encoding \in {"Utf16Le", "Utf16Be"})
      \/ mode = "undecided" /\ LinesOnly /\ options.encoding = "Auto"
      \/ mode = "streaming" /\ LinesOnly /\ options.encoding = "Utf8"
  BY <1>1, <1>4 DEF FirstMode, Streams, LinesOnly
<1>6. text \in Seq(Byte) /\ Len(source) \in Nat
  BY <1>1, <1>3, EmptySeq
<1>7. given = 0 /\ phase = "idle" /\ totalLines = Open
  BY <1>2 DEF LineInit
<1>8. FileTypes
  <2>1. read \in 0..Len(source) /\ inspected \in 0..Window
    BY <1>2, <1>6, MarksAre
  <2>2. buffer \in Seq(Byte) /\ base \in {0, 3, NoBase} /\ lossy \in BOOLEAN
    BY <1>2, EmptySeq
  <2> QED
    BY <1>3, <1>5, <2>1, <2>2 DEF FileTypes
<1>9. Searcher
  <2>1. Begun
    <3>1. Len(text) \in Nat
      BY <1>6
    <3> QED
      BY <1>2, <3>1 DEF LineInit, Begun
  <2>2. LineInv
    BY <1>3, <1>6, <2>1, LineInvAtStart
  <2>3. LineTypes
    BY <2>2 DEF LineInv
  <2> QED
    BY <1>2, <1>7, <2>2, <2>3 DEF Searcher
<1>10. Gathered
  <2>1. SubSeq(source, 0 + 1, 0) = <<>>
    BY <1>3, <1>6, NoSubSeq
  <2>2. SubSeq(source, 1, 0) = <<>>
    BY <2>1
  <2>3. mode = "buffered" /\ LinesOnly => Encoding(source) # "Utf8"
    BY <1>5 DEF Encoding
  <2> QED
    BY <1>2, <1>5, <2>2, <2>3 DEF Gathered
<1>11. Streamed
  <2> SUFFICES ASSUME mode = "streaming"
               PROVE  /\ LinesOnly /\ base \in {0, 3} /\ base <= read
                      /\ text = SubSeq(source, base + 1, Len(source)) /\ given = read - base
                      /\ text = TextOf(source)
                      /\ inspected = IF given < Window THEN given ELSE Window
                      /\ \A i \in 1..inspected : text[i] # Nul
    BY DEF Streamed
  <2>1. LinesOnly /\ options.encoding = "Utf8" /\ text = source
    BY <1>1, <1>5
  <2>2. text = SubSeq(source, 0 + 1, Len(source))
    BY <1>3, <2>1, SubSeqFull
  <2>3. text = TextOf(source)
    BY <2>1 DEF TextOf, Encoding, LinesOnly
  <2>4. inspected = IF given < Window THEN given ELSE Window
    BY <1>2, <1>7, MarksAre
  <2> QED
    BY <1>2, <1>7, <2>1, <2>2, <2>3, <2>4
<1>12. Decided
  BY <1>5, <1>7 DEF Decided, LinesBegun, Judged
<1>13. Said
  <2>1. mode = "skipped" => warned = <<"limit">>
    BY <1>1
  <2>2. mode # "skipped" => warned = <<>>
    BY <1>1
  <2> QED
    BY <1>5, <1>7, <2>1, <2>2 DEF Said, GivenUp, LinesBegun
<1> QED
  BY <1>8, <1>9, <1>10, <1>11, <1>12, <1>13 DEF FileInv

\* What a chunk of the file adds to what was read.
LEMMA ChunkReads ==
  ASSUME FileTypes, NEW n, Read(n), source' = source
  PROVE  /\ phase = "idle" /\ n \in Nat /\ read' = read + n /\ read' \in 0..Len(source)
         /\ (n = 0 => source = <<>> /\ mode = "undecided")
         /\ ChunkOf(n) \in Seq(Byte) /\ Len(ChunkOf(n)) = n
         /\ \A i \in 1..n : ChunkOf(n)[i] = source[read + i]
         /\ SubSeq(source, 1, read) \o ChunkOf(n) = SubSeq(source, 1, read')
         /\ Len(SubSeq(source, 1, read)) = read
<1>1. phase = "idle" /\ n \in Chunks /\ read' = read + n
  BY DEF Read
<1>2. /\ source \in Seq(Byte) /\ Len(source) \in Nat /\ read \in 0..Len(source)
      /\ n \in 0..(Len(source) - read) /\ (n = 0 => source = <<>> /\ mode = "undecided")
  BY <1>1 DEF FileTypes, Chunks
<1>3. /\ n \in Nat /\ read + n \in 0..Len(source) /\ read + n \in read..Len(source)
      /\ read + n - read = n /\ 0 \in 0..Len(source) /\ 0 + 1 = 1 /\ read \in 0..Len(source)
      /\ read - 0 = read
  BY <1>2
<1>4. /\ SubSeq(source, read + 1, read + n) \in Seq(Byte)
      /\ Len(SubSeq(source, read + 1, read + n)) = read + n - read
      /\ \A i \in 1..(read + n - read) : SubSeq(source, read + 1, read + n)[i] = source[read + i]
  BY <1>2, <1>3, SubSeqHas
<1>5. /\ SubSeq(source, 0 + 1, read) \o SubSeq(source, read + 1, read + n)
           = SubSeq(source, 0 + 1, read + n)
      /\ Len(SubSeq(source, 0 + 1, read)) = read - 0
  BY <1>2, <1>3, SubSeqsJoin
<1>6. ChunkOf(n) = SubSeq(source, read + 1, read + n)
  BY DEF ChunkOf
<1>7. /\ ChunkOf(n) \in Seq(Byte) /\ Len(ChunkOf(n)) = n
      /\ \A i \in 1..n : ChunkOf(n)[i] = source[read + i]
  BY <1>3, <1>4, <1>6
<1>8. SubSeq(source, 1, read) \o ChunkOf(n) = SubSeq(source, 1, read + n)
      /\ Len(SubSeq(source, 1, read)) = read
  BY <1>3, <1>5, <1>6
<1>9. read' \in 0..Len(source)
  BY <1>1, <1>3
<1>10. SubSeq(source, 1, read) \o ChunkOf(n) = SubSeq(source, 1, read')
  BY <1>1, <1>8
<1> QED
  BY <1>1, <1>2, <1>3, <1>7, <1>8, <1>9, <1>10

\* What a step on the file does not change while the LineSearcher waits.
LEMMA FileKeeps ==
  ASSUME FileInv, UNCHANGED <<vars, source, expected>>, phase = "idle"
  PROVE  /\ Encoding(source)' = Encoding(source) /\ TextOf(source)' = TextOf(source)
         /\ Spoiled' = Spoiled /\ LinesOnly' = LinesOnly /\ Foreseen' = Foreseen
         /\ Judged' = Judged /\ options' = options /\ phase' = "idle"
         /\ totalLines' = totalLines
<1>1. options' = options /\ source' = source /\ expected' = expected /\ phase' = phase
      /\ totalLines' = totalLines
  BY DEF vars, searcherVars
<1> QED
  BY <1>1, SameText

\* A chunk that is kept until the mark is complete.
LEMMA KeepPrefixKeeps ==
  ASSUME FileInv, NEW n, KeepPrefix(n)
  PROVE  FileInv'
<1>1. /\ mode = "undecided" /\ Read(n) /\ mode' = mode
      /\ Len(buffer) + n < 3 /\ Len(buffer) + n < expected
      /\ buffer' = buffer \o ChunkOf(n)
      /\ UNCHANGED <<vars, source, expected, inspected, base, lossy, warned>>
  BY DEF KeepPrefix
<1>2. /\ FileTypes /\ Gathered /\ LinesOnly /\ options.encoding = "Auto" /\ inspected = 0
      /\ buffer = SubSeq(source, 1, read)
  BY <1>1 DEF FileInv, Gathered
<1>3. /\ phase = "idle" /\ n \in Nat /\ read' = read + n /\ read' \in 0..Len(source)
      /\ ChunkOf(n) \in Seq(Byte) /\ Len(SubSeq(source, 1, read)) = read
      /\ SubSeq(source, 1, read) \o ChunkOf(n) = SubSeq(source, 1, read')
  BY <1>1, <1>2, ChunkReads
<1>4. /\ Encoding(source)' = Encoding(source) /\ LinesOnly' = LinesOnly
      /\ options' = options /\ phase' = "idle"
  BY <1>1, <1>3, FileKeeps
<1>5. buffer' = SubSeq(source, 1, read') /\ read' < 3 /\ read' < expected
  BY <1>1, <1>2, <1>3
<1>6. FileTypes'
  <2>1. buffer' \in Seq(Byte)
    BY <1>1, <1>2, <1>3, ConcatProperties DEF FileTypes
  <2> QED
    BY <1>1, <1>2, <1>3, <2>1 DEF FileTypes
<1>7. Searcher'
  BY <1>1, <1>3, SearcherWaits DEF FileInv
<1>8. Gathered'
  BY <1>1, <1>2, <1>4, <1>5 DEF Gathered
<1>9. Streamed' /\ Decided'
  BY <1>1, <1>4 DEF Streamed, Decided, LinesBegun
<1>10. Said'
  BY <1>1 DEF FileInv, Said, LinesBegun
<1> QED
  BY <1>6, <1>7, <1>8, <1>9, <1>10 DEF FileInv

\* A chunk that is buffered, or the end of the buffer.
LEMMA PushBufferKeeps ==
  ASSUME FileInv, NEW n, PushBuffer(n)
  PROVE  FileInv'
<1>1. /\ mode = "buffered" /\ Read(n)
      /\ UNCHANGED <<vars, source, expected, inspected, base, lossy>>
      /\ \/ \E kind \in {"archive", "limit"} : Skip(kind) /\ buffer' = <<>>
         \/ buffer' = buffer \o ChunkOf(n) /\ UNCHANGED <<mode, warned>>
  BY DEF PushBuffer
<1>2. /\ FileTypes /\ warned = <<>> /\ (LinesOnly => Encoding(source) # "Utf8")
      /\ buffer = SubSeq(source, 1, read)
  BY <1>1 DEF FileInv, Gathered, Said
<1>3. /\ phase = "idle" /\ read' \in 0..Len(source) /\ ChunkOf(n) \in Seq(Byte)
      /\ SubSeq(source, 1, read) \o ChunkOf(n) = SubSeq(source, 1, read')
  BY <1>1, <1>2, ChunkReads
<1>4. /\ Encoding(source)' = Encoding(source) /\ LinesOnly' = LinesOnly
      /\ Judged' = Judged /\ options' = options /\ phase' = "idle"
  BY <1>1, <1>3, FileKeeps
<1>5. mode' \in {"buffered", "skipped"}
  BY <1>1 DEF Skip
<1>6. FileTypes'
  <2>1. buffer' \in Seq(Byte)
    <3>1. buffer \o ChunkOf(n) \in Seq(Byte)
      BY <1>2, <1>3, ConcatProperties DEF FileTypes
    <3>2. <<>> \in Seq(Byte)
      BY EmptySeq
    <3> QED
      BY <1>1, <3>1, <3>2, Zenon
  <2> QED
    BY <1>1, <1>2, <1>3, <1>5, <2>1 DEF FileTypes
<1>7. Searcher'
  BY <1>1, <1>3, <1>5, SearcherWaits DEF FileInv
<1>8. Gathered'
  <2>1. mode' = "buffered" => buffer' = SubSeq(source, 1, read')
    BY <1>1, <1>2, <1>3 DEF Skip
  <2> QED
    BY <1>1, <1>2, <1>4, <1>5, <2>1 DEF Gathered
<1>9. Streamed' /\ Decided'
  <2>1. ~Judged
    BY <1>2 DEF Judged
  <2> QED
    BY <1>4, <1>5, <2>1 DEF Streamed, Decided, LinesBegun
<1>10. Said'
  <2>1. mode' = "skipped" => warned' \in GivenUp
    <3>1. Append(warned, "archive") = <<"archive">> /\ Append(warned, "limit") = <<"limit">>
      BY <1>2
    <3> QED
      BY <1>1, <3>1 DEF Skip, GivenUp
  <2>2. mode' # "skipped" => warned' = <<>>
    BY <1>1, <1>2 DEF Skip
  <2> QED
    BY <1>5, <2>1, <2>2 DEF Said, LinesBegun
<1> QED
  BY <1>6, <1>7, <1>8, <1>9, <1>10 DEF FileInv

\* A chunk of a file that was given up.
LEMMA PushSkippedKeeps ==
  ASSUME FileInv, NEW n, PushSkipped(n)
  PROVE  FileInv'
<1>1. /\ mode = "skipped" /\ Read(n) /\ mode' = mode
      /\ UNCHANGED <<vars, source, expected, buffer, inspected, base, lossy, warned>>
  BY DEF PushSkipped
<1>2. phase = "idle" /\ read' \in 0..Len(source)
  BY <1>1, ChunkReads DEF FileInv
<1>3. Judged' = Judged /\ Spoiled' = Spoiled /\ phase' = "idle"
  BY <1>1, <1>2, FileKeeps
<1>4. FileTypes'
  BY <1>1, <1>2 DEF FileInv, FileTypes
<1>5. Searcher'
  BY <1>1, <1>2, SearcherWaits DEF FileInv
<1>6. Gathered' /\ Streamed'
  BY <1>1 DEF Gathered, Streamed
<1>7. Decided' /\ Said'
  BY <1>1, <1>3 DEF FileInv, Decided, Said, LinesBegun
<1> QED
  BY <1>4, <1>5, <1>6, <1>7 DEF FileInv

\* The end of an archive, and of a file that was given up.
LEMMA EndsKeep ==
  ASSUME FileInv, SearchArchive \/ FinishSkipped
  PROVE  FileInv'
<1>1. /\ phase = "idle" /\ UNCHANGED <<vars, source, expected>>
      /\ UNCHANGED <<read, buffer, inspected, base, lossy, warned>>
      /\ \/ mode = "buffered" /\ mode' = "members"
         \/ mode = "skipped" /\ mode' = "finished"
  BY DEF SearchArchive, FinishSkipped, AtEnd
<1>2. Judged' = Judged /\ Spoiled' = Spoiled /\ phase' = "idle" /\ totalLines' = totalLines
  BY <1>1, FileKeeps
<1>3. FileTypes'
  BY <1>1 DEF FileInv, FileTypes
<1>4. Searcher'
  BY <1>1, SearcherWaits DEF FileInv
<1>5. Gathered' /\ Streamed'
  BY <1>1 DEF Gathered, Streamed
<1>6. totalLines = Open
  <2>1. LineInv
    BY <1>1 DEF FileInv, Searcher
  <2> QED
    BY <1>1, <2>1 DEF LineInv, Position
<1>7. Decided'
  BY <1>1, <1>2, <1>6 DEF FileInv, Decided, LinesBegun
<1>8. Said'
  BY <1>1, <1>2, <1>6 DEF FileInv, Said, LinesBegun
<1> QED
  BY <1>3, <1>4, <1>5, <1>7, <1>8 DEF FileInv

\* The first n bytes.
LEMMA BeginningHas ==
  ASSUME NEW t \in Seq(Byte), NEW n \in Nat
  PROVE  /\ Len(Beginning(t, n)) = IF n <= Len(t) THEN n ELSE Len(t)
         /\ \A i \in 1..Len(t) : i <= n => Beginning(t, n)[i] = t[i]
<1> DEFINE m == IF n <= Len(t) THEN n ELSE Len(t)
<1>1. Len(t) \in Nat /\ m \in 0..Len(t) /\ \A i \in 1..Len(t) : i <= n => i \in 1..m
  OBVIOUS
<1>2. Beginning(t, n) = SubSeq(t, 1, m)
  BY <1>1, Smaller DEF Beginning
<1> HIDE DEF m
<1>3. Len(SubSeq(t, 1, m)) = m /\ \A i \in 1..m : SubSeq(t, 1, m)[i] = t[i]
  BY <1>1, PrefixHas
<1>4. Len(Beginning(t, n)) = m /\ \A i \in 1..Len(t) : i <= n => Beginning(t, n)[i] = t[i]
  BY <1>1, <1>2, <1>3
<1> QED
  BY <1>4 DEF m

\* The bytes that are looked at for a NUL.
LEMMA NulSeen ==
  ASSUME NEW t \in Seq(Byte), NEW n \in Nat
  PROVE  HasNul(Beginning(t, n)) <=> \E i \in 1..Len(t) : i <= n /\ t[i] = Nul
<1> DEFINE b == Beginning(t, n)
<1>1. /\ Len(b) = IF n <= Len(t) THEN n ELSE Len(t)
      /\ \A i \in 1..Len(t) : i <= n => b[i] = t[i]
  BY BeginningHas
<1>2. HasNul(b) <=> \E i \in 1..Len(b) : b[i] = Nul
  BY DEF HasNul
<1> HIDE DEF b
<1>3. Len(t) \in Nat /\ \A i : i \in 1..Len(b) <=> i \in 1..Len(t) /\ i <= n
  BY <1>1
<1>4. HasNul(b) <=> \E i \in 1..Len(t) : i <= n /\ t[i] = Nul
  BY <1>1, <1>2, <1>3
<1> QED
  BY <1>4 DEF b

\* binary_skip looks at what the window still holds.
LEMMA InspectsHas ==
  ASSUME options \in Options, inspected \in 0..Window, NEW t \in Seq(Byte)
  PROVE  /\ inspected + Len(Inspects(t)) \in 0..Window
         /\ HasNul(Inspects(t)) => options.binary = "Skip"
         /\ options.binary = "Skip" =>
              /\ HasNul(Inspects(t)) <=> \E i \in 1..Len(t) : i + inspected <= Window /\ t[i] = Nul
              /\ inspected + Len(Inspects(t)) =
                   IF inspected + Len(t) < Window THEN inspected + Len(t) ELSE Window
<1>1. options.binary \in {"Skip", "Search"} /\ Window \in Nat /\ Len(t) \in Nat
  BY SettingTypes, MarksAre
<1>2. CASE options.binary = "Search"
  <2>1. Inspects(t) = <<>> /\ Len(<<>>) = 0
    BY <1>2 DEF Inspects
  <2> QED
    BY <1>1, <1>2, <2>1 DEF HasNul
<1>3. CASE options.binary = "Skip"
  <2> DEFINE n == Window - inspected
  <2>1. n \in Nat /\ inspected \in Nat
    BY <1>1
  <2>2. Inspects(t) = Beginning(t, n)
    BY <1>3 DEF Inspects
  <2> HIDE DEF n
  <2>3. /\ Len(Inspects(t)) = IF n <= Len(t) THEN n ELSE Len(t)
        /\ HasNul(Inspects(t)) <=> \E i \in 1..Len(t) : i <= n /\ t[i] = Nul
    BY <2>1, <2>2, BeginningHas, NulSeen
  <2>4. n = Window - inspected
    BY DEF n
  <2>5. \A i \in 1..Len(t) : i <= n <=> i + inspected <= Window
    BY <1>1, <2>1, <2>4
  <2>6. HasNul(Inspects(t)) <=> \E i \in 1..Len(t) : i + inspected <= Window /\ t[i] = Nul
    BY <2>3, <2>5
  <2>7. /\ inspected + Len(Inspects(t)) \in 0..Window
        /\ inspected + Len(Inspects(t)) =
             IF inspected + Len(t) < Window THEN inspected + Len(t) ELSE Window
    BY <1>1, <2>1, <2>3, <2>4
  <2> QED
    BY <1>3, <2>6, <2>7
<1> QED
  BY <1>1, <1>2, <1>3

\* The text of a file that is streamed is the file after its mark.
LEMMA StreamedText ==
  ASSUME FileInv, mode = "streaming"
  PROVE  /\ text \in Seq(Byte) /\ Len(text) = Len(source) - base
         /\ base \in Nat /\ given = read - base /\ given \in Nat /\ read \in Nat
         /\ \A i \in 1..Len(text) : text[i] = source[base + i]
<1>1. /\ source \in Seq(Byte) /\ base \in {0, 3} /\ base <= read /\ read \in 0..Len(source)
      /\ text = SubSeq(source, base + 1, Len(source)) /\ given = read - base
      /\ text \in Seq(Byte)
  BY DEF FileInv, FileTypes, Streamed, Searcher, LineTypes
<1>2. base \in 0..Len(source) /\ Len(source) \in base..Len(source) /\ Len(source) \in Nat
  BY <1>1
<1>3. /\ Len(SubSeq(source, base + 1, Len(source))) = Len(source) - base
      /\ \A i \in 1..(Len(source) - base) :
           SubSeq(source, base + 1, Len(source))[i] = source[base + i]
  BY <1>1, <1>2, SubSeqHas
<1> QED
  BY <1>1, <1>2, <1>3

\* A chunk that is streamed, unless it has a NUL in the window.
LEMMA PushLinesKeeps ==
  ASSUME FileInv, NEW n, PushLines(n)
  PROVE  FileInv'
<1> DEFINE chunk == ChunkOf(n)
           window == Inspects(chunk)
<1>1. /\ mode = "streaming" /\ Read(n) /\ inspected' = inspected + Len(window)
      /\ UNCHANGED <<source, expected, buffer, base, lossy>>
      /\ \/ HasNul(window) /\ Skip("binary") /\ UNCHANGED vars
         \/ ~HasNul(window) /\ Deliver(n) /\ UNCHANGED <<mode, warned>>
  BY DEF PushLines
<1>2. FileTypes /\ Searcher /\ Streamed /\ LineInv /\ warned = <<>>
  BY <1>1 DEF FileInv, Searcher, Said
<1>3. /\ phase = "idle" /\ n \in Nat \ {0} /\ read' = read + n /\ read' \in 0..Len(source)
      /\ chunk \in Seq(Byte) /\ Len(chunk) = n
      /\ \A i \in 1..n : chunk[i] = source[read + i]
  BY <1>1, <1>2, ChunkReads
<1>4. /\ text \in Seq(Byte) /\ Len(text) = Len(source) - base /\ Len(source) \in Nat
      /\ base \in Nat /\ given = read - base /\ given \in Nat /\ read \in Nat
      /\ \A i \in 1..Len(text) : text[i] = source[base + i]
  BY <1>1, <1>2, StreamedText DEF FileTypes
<1>5. /\ options \in Options /\ inspected \in 0..Window /\ Window \in Nat
  BY <1>2, MarksAre DEF FileTypes, Searcher, LineTypes
<1> HIDE DEF chunk
<1>6. /\ inspected' \in 0..Window
      /\ HasNul(window) => options.binary = "Skip"
      /\ options.binary = "Skip" =>
           /\ HasNul(window) <=> \E i \in 1..n : i + inspected <= Window /\ chunk[i] = Nul
           /\ inspected' = IF inspected + n < Window THEN inspected + n ELSE Window
  BY <1>1, <1>3, <1>5, InspectsHas
<1> HIDE DEF window
<1>7. \A i \in 1..n : given + i \in 1..Len(text) /\ chunk[i] = text[given + i]
  <2> TAKE i \in 1..n
  <2>1. given + i \in 1..Len(text) /\ base + (given + i) = read + i
    BY <1>3, <1>4
  <2>2. text[given + i] = source[base + (given + i)]
    BY <1>4, <2>1
  <2> QED
    BY <1>3, <2>1, <2>2
<1>8. FileTypes'
  <2>1. mode' \in {"streaming", "skipped"}
    BY <1>1 DEF Skip
  <2> QED
    BY <1>1, <1>2, <1>3, <1>6, <2>1 DEF FileTypes
<1>9. /\ LinesOnly /\ base \in {0, 3} /\ base <= read
      /\ text = SubSeq(source, base + 1, Len(source))
      /\ Foreseen => text = TextOf(source)
      /\ options.binary = "Skip" =>
           /\ inspected = IF given < Window THEN given ELSE Window
           /\ \A i \in 1..inspected : text[i] # Nul
  BY <1>1, <1>2 DEF Streamed
<1>10. CASE HasNul(window) /\ Skip("binary") /\ UNCHANGED vars
  <2>1. mode' = "skipped" /\ warned' = <<"binary">>
    BY <1>2, <1>10 DEF Skip
  <2>2. Judged' = Judged /\ Spoiled' = Spoiled /\ phase' = "idle"
    BY <1>1, <1>3, <1>10, FileKeeps
  <2>3. Judged => Spoiled
    <3> SUFFICES ASSUME Judged PROVE Spoiled
      OBVIOUS
    <3>1. PICK i \in 1..n : i + inspected <= Window /\ chunk[i] = Nul
      BY <1>6, <1>10
    <3>2. given + i \in 1..Len(text) /\ text[given + i] = Nul
      BY <1>7, <3>1
    <3>3. inspected = IF given < Window THEN given ELSE Window
      BY <1>9 DEF Judged
    <3>4. given + i <= Window
      BY <1>3, <1>4, <1>5, <3>1, <3>3
    <3>5. HasNul(Beginning(text, Window))
      BY <1>4, <1>5, <3>2, <3>4, NulSeen
    <3> QED
      BY <1>9, <3>5 DEF Judged, Spoiled
  <2>4. Searcher'
    BY <1>1, <1>2, <1>3, <1>10, <2>1, SearcherWaits
  <2>5. Gathered' /\ Streamed'
    BY <2>1 DEF Gathered, Streamed
  <2>6. Decided' /\ Said'
    BY <2>1, <2>2, <2>3 DEF Decided, Said, LinesBegun, GivenUp
  <2> QED
    BY <1>8, <2>4, <2>5, <2>6 DEF FileInv
<1>11. CASE ~HasNul(window) /\ Deliver(n) /\ UNCHANGED <<mode, warned>>
  <2>1. /\ mode' = "streaming" /\ warned' = <<>> /\ phase' = "push" /\ given' = given + n
        /\ text' = text /\ options' = options
    BY <1>1, <1>2, <1>11 DEF Deliver
  <2>2. LineInv'
    BY <1>2, <1>3, <1>11, LineInvKept
  <2>3. Searcher'
    <3>1. LineTypes'
      BY <2>2 DEF LineInv
    <3> QED
      BY <2>1, <2>2, <3>1 DEF Searcher
  <2>4. LinesOnly' = LinesOnly /\ Foreseen' = Foreseen /\ TextOf(source)' = TextOf(source)
    BY <1>1, <2>1, SameText
  <2>5. base' <= read' /\ given' = read' - base'
    BY <1>1, <1>3, <1>4, <1>9, <2>1
  <2>6. ASSUME options.binary = "Skip"
        PROVE  /\ inspected' = IF given' < Window THEN given' ELSE Window
               /\ \A i \in 1..inspected' : text[i] # Nul
    <3>1. inspected = IF given < Window THEN given ELSE Window
      BY <1>9, <2>6
    <3>2. inspected' = IF inspected + n < Window THEN inspected + n ELSE Window
      BY <1>6, <2>6
    <3>3. inspected' = IF given' < Window THEN given' ELSE Window
      BY <1>3, <1>4, <1>5, <2>1, <3>1, <3>2
    <3>4. ASSUME NEW i \in 1..inspected' PROVE text[i] # Nul
      <4>1. CASE i <= inspected
        <5>1. i \in 1..inspected
          BY <1>5, <1>6, <4>1
        <5> QED
          BY <1>9, <2>6, <5>1
      <4>2. CASE i > inspected
        <5> DEFINE j == i - inspected
        <5>1. j \in 1..n /\ j + inspected <= Window /\ given = inspected /\ given + j = i
          BY <1>3, <1>4, <1>5, <1>6, <3>1, <3>2, <4>2
        <5> HIDE DEF j
        <5>2. chunk[j] # Nul
          BY <1>6, <1>11, <2>6, <5>1
        <5> QED
          BY <1>7, <5>1, <5>2
      <4> QED
        BY <1>5, <1>6, <4>1, <4>2
    <3> QED
      BY <3>3, <3>4
  <2>7. Streamed'
    BY <1>1, <1>9, <2>1, <2>4, <2>5, <2>6 DEF Streamed
  <2>8. Gathered' /\ Decided' /\ Said'
    BY <2>1 DEF Gathered, Decided, Said, LinesBegun
  <2> QED
    BY <1>8, <2>3, <2>7, <2>8 DEF FileInv
<1> QED
  BY <1>1, <1>10, <1>11

\* The end of a file whose lines were pushed.
LEMMA FinishLinesKeeps ==
  ASSUME FileInv, FinishLines
  PROVE  FileInv'
<1>1. /\ mode \in {"streaming", "complete"} /\ mode' = "finished"
      /\ phase = "idle" /\ read = Len(source) /\ FinishLine
      /\ UNCHANGED <<source, expected, read, buffer, inspected, base, lossy, warned>>
  BY DEF FinishLines, AtEnd
<1>2. options' = options /\ text' = text /\ phase' = "finish" /\ totalLines' = totalLines
  BY <1>1 DEF FinishLine
<1>3. LineInv /\ LineInv'
  BY <1>1, LineInvKept DEF FileInv, Searcher
<1>4. FileTypes'
  BY <1>1 DEF FileInv, FileTypes
<1>5. Searcher'
  <2>1. LineTypes'
    BY <1>3 DEF LineInv
  <2> QED
    BY <1>1, <1>2, <1>3, <2>1 DEF Searcher
<1>6. Gathered' /\ Streamed'
  BY <1>1 DEF Gathered, Streamed
<1>7. /\ LinesOnly' = LinesOnly /\ TextOf(source)' = TextOf(source) /\ Spoiled' = Spoiled
      /\ Judged' = Judged
  BY <1>1, <1>2, SameText
<1>8. LinesOnly /\ (expected = Len(source) => text = TextOf(source)) /\ (Judged => ~Spoiled)
  <2>1. CASE mode = "complete"
    BY <2>1 DEF FileInv, Decided, LinesBegun
  <2>2. CASE mode = "streaming"
    <3>1. /\ LinesOnly /\ (Foreseen => text = TextOf(source))
          /\ options.binary = "Skip" =>
               /\ inspected = IF given < Window THEN given ELSE Window
               /\ \A i \in 1..inspected : text[i] # Nul
      BY <2>2 DEF FileInv, Streamed
    <3>2. /\ text \in Seq(Byte) /\ Len(text) = Len(source) - base /\ given = read - base
          /\ given \in Nat /\ Window \in Nat
      BY <2>2, StreamedText, MarksAre
    <3>3. expected = Len(source) => Foreseen
      <4>1. Len(source) \in Nat
        BY DEF FileInv, FileTypes
      <4>2. Min({3, Len(source)}) = IF 3 <= Len(source) THEN 3 ELSE Len(source)
        BY <4>1, Smaller
      <4> QED
        BY <4>1, <4>2 DEF Foreseen
    <3>4. Judged => ~Spoiled
      <4> SUFFICES ASSUME Judged, Spoiled PROVE FALSE
        OBVIOUS
      <4>1. HasNul(Beginning(text, Window))
        BY <3>1 DEF Judged, Spoiled
      <4>2. PICK i \in 1..Len(text) : i <= Window /\ text[i] = Nul
        BY <3>2, <4>1, NulSeen
      <4>3. given = Len(text) /\ inspected = IF given < Window THEN given ELSE Window
        BY <1>1, <3>1, <3>2 DEF Judged
      <4>4. i \in 1..inspected
        BY <3>2, <4>2, <4>3
      <4> QED
        BY <3>1, <4>2, <4>4 DEF Judged
    <3> QED
      BY <3>1, <3>3, <3>4
  <2> QED
    BY <1>1, <2>1, <2>2
<1>9. Decided'
  BY <1>1, <1>2, <1>7, <1>8 DEF Decided
<1>10. Said'
  <2>1. warned \in {<<>>, <<"encoding">>}
    BY <1>1 DEF FileInv, Said, LinesBegun
  <2> QED
    BY <1>1, <1>2, <2>1 DEF Said
<1> QED
  BY <1>4, <1>5, <1>6, <1>9, <1>10 DEF FileInv

\* The mark that was found in the first bytes is that of the file, if those bytes are
\* enough; the text begins after it.
LEMMA MarkDecides ==
  ASSUME FileTypes, options \in Options, options.encoding = "Auto", LinesOnly,
         NEW r \in 0..Len(source), NEW bytes, bytes = SubSeq(source, 1, r),
         r >= 3 \/ r >= expected
  PROVE  LET skip == BomLen(bytes)
             rest == SubSeq(bytes, skip + 1, Len(bytes))
             whole == SubSeq(source, skip + 1, Len(source))
         IN  /\ bytes \in Seq(Byte) /\ skip \in {0, 3} /\ skip <= r
             /\ rest \in Seq(Byte) /\ Len(rest) = r - skip
             /\ whole \in Seq(Byte) /\ Len(whole) = Len(source) - skip
             /\ \A i \in 1..Len(rest) : rest[i] = whole[i]
             /\ IsUtf16(bytes) => Encoding(source) # "Utf8"
             /\ Foreseen /\ ~IsUtf16(bytes) => TextOf(source) = whole
<1> DEFINE skip == BomLen(bytes)
           rest == SubSeq(bytes, skip + 1, Len(bytes))
           whole == SubSeq(source, skip + 1, Len(source))
<1>1. /\ source \in Seq(Byte) /\ Len(source) \in Nat /\ expected \in Nat
      /\ r \in Nat /\ r <= Len(source)
  BY DEF FileTypes
<1>2. /\ bytes \in Seq(Byte) /\ Len(bytes) = r /\ \A i \in 1..r : bytes[i] = source[i]
  BY <1>1, PrefixHas
<1>3. /\ Utf8Mark \in Seq(Byte) /\ LeMark \in Seq(Byte) /\ BeMark \in Seq(Byte)
      /\ Len(Utf8Mark) = 3 /\ Len(LeMark) = 2 /\ Len(BeMark) = 2
  BY MarksAre
<1>4. \A mark \in {Utf8Mark, LeMark, BeMark} :
        /\ StartsWith(bytes, mark) => StartsWith(source, mark)
        /\ 3 <= r \/ r = Len(source) => (StartsWith(bytes, mark) <=> StartsWith(source, mark))
        /\ StartsWith(bytes, mark) => Len(mark) <= r
  <2> TAKE mark \in {Utf8Mark, LeMark, BeMark}
  <2>1. mark \in Seq(Byte) /\ Len(mark) \in {2, 3}
    BY <1>3
  <2>2. /\ StartsWith(bytes, mark) => StartsWith(source, mark)
        /\ Len(mark) <= r \/ r = Len(source) =>
             (StartsWith(bytes, mark) <=> StartsWith(source, mark))
    BY <1>1, <2>1, MarkSeen
  <2>3. StartsWith(bytes, mark) => Len(mark) <= r
    BY <1>2 DEF StartsWith, IsPrefix
  <2> QED
    BY <1>1, <2>1, <2>2, <2>3
<1>5. skip \in {0, 3} /\ skip <= r
  <2>1. StartsWith(bytes, Utf8Mark) => 3 <= r
    BY <1>3, <1>4
  <2>2. skip = IF StartsWith(bytes, Utf8Mark) THEN 3 ELSE 0
    BY DEF BomLen
  <2> HIDE DEF skip
  <2> QED
    BY <1>1, <2>1, <2>2
<1>6. /\ rest \in Seq(Byte) /\ Len(rest) = r - skip
      /\ \A i \in 1..(r - skip) : rest[i] = bytes[skip + i]
  <2> HIDE DEF skip
  <2>1. skip \in 0..Len(bytes) /\ Len(bytes) \in skip..Len(bytes)
    BY <1>1, <1>2, <1>5
  <2> QED
    BY <1>2, <2>1, SubSeqHas
<1>7. /\ whole \in Seq(Byte) /\ Len(whole) = Len(source) - skip
      /\ \A i \in 1..(Len(source) - skip) : whole[i] = source[skip + i]
  <2> HIDE DEF skip
  <2>1. skip \in 0..Len(source) /\ Len(source) \in skip..Len(source)
    BY <1>1, <1>5
  <2> QED
    BY <1>1, <2>1, SubSeqHas
<1>8. \A i \in 1..Len(rest) : rest[i] = whole[i]
  <2> HIDE DEF skip, rest, whole
  <2> TAKE i \in 1..Len(rest)
  <2>1. i \in 1..(r - skip) /\ skip + i \in 1..r /\ i \in 1..(Len(source) - skip)
    BY <1>1, <1>5, <1>6
  <2> QED
    BY <1>2, <1>6, <1>7, <2>1
<1>9. IsUtf16(bytes) => Encoding(source) # "Utf8"
  BY <1>4 DEF IsUtf16, Encoding
<1>10. ASSUME Foreseen, ~IsUtf16(bytes) PROVE TextOf(source) = whole
  <2>1. 3 <= r \/ r = Len(source)
    <3>1. Min({3, Len(source)}) = IF 3 <= Len(source) THEN 3 ELSE Len(source)
      BY <1>1, Smaller
    <3>2. expected >= IF 3 <= Len(source) THEN 3 ELSE Len(source)
      BY <1>1, <1>10, <3>1 DEF Foreseen
    <3> QED
      BY <1>1, <3>2
  <2>2. \A mark \in {Utf8Mark, LeMark, BeMark} :
          StartsWith(bytes, mark) <=> StartsWith(source, mark)
    BY <1>4, <2>1
  <2>3. Encoding(source) = "Utf8"
    BY <1>10, <2>2 DEF IsUtf16, Encoding
  <2>4. TextOf(source) = Without(source, Utf8Mark)
    BY <2>3 DEF TextOf, LinesOnly
  <2>5. CASE StartsWith(source, Utf8Mark)
    <3>1. skip = 3
      BY <2>2, <2>5 DEF BomLen
    <3>2. Without(source, Utf8Mark) = SubSeq(source, 3 + 1, Len(source))
      BY <1>3, <2>5 DEF Without
    <3> QED
      BY <2>4, <3>1, <3>2
  <2>6. CASE ~StartsWith(source, Utf8Mark)
    <3>1. skip = 0
      BY <2>2, <2>6 DEF BomLen
    <3>2. SubSeq(source, 0 + 1, Len(source)) = source
      BY <1>1, SubSeqFull
    <3>3. Without(source, Utf8Mark) = source
      BY <2>6 DEF Without
    <3> QED
      BY <2>4, <3>1, <3>2, <3>3
  <2> QED
    BY <2>5, <2>6
<1> HIDE DEF skip, rest, whole
<1>11. /\ bytes \in Seq(Byte) /\ skip \in {0, 3} /\ skip <= r
       /\ rest \in Seq(Byte) /\ Len(rest) = r - skip
       /\ whole \in Seq(Byte) /\ Len(whole) = Len(source) - skip
       /\ \A i \in 1..Len(rest) : rest[i] = whole[i]
       /\ IsUtf16(bytes) => Encoding(source) # "Utf8"
       /\ Foreseen /\ ~IsUtf16(bytes) => TextOf(source) = whole
  BY <1>2, <1>5, <1>6, <1>7, <1>8, <1>9, <1>10
<1> QED
  BY <1>11 DEF skip, rest, whole

\* A LineSearcher that is new, given its text and the first chunk of it.
LEMMA BeginsWith ==
  ASSUME FileInv, LineInit, options' = options, text' \in Seq(Byte), given' \in 0..Len(text'),
         phase' = IF given' = 0 THEN "idle" ELSE "push",
         UNCHANGED <<at, lineVars, matchVars, tooLong, totalLines, crossed>>
  PROVE  LineInv' /\ LineTypes'
<1>1. Begun'
  BY DEF LineInit, Begun, matchVars
<1>2. (options \in Options)' /\ (text \in Seq(Byte))'
  BY DEF FileInv, Searcher, LineTypes
<1>3. LineInv'
  BY <1>1, <1>2, BegunThen
<1> QED
  BY <1>3 DEF LineInv

\* The chunk that completes the mark decides how the file is read.
LEMMA StartAutoKeeps ==
  ASSUME FileInv, NEW n, StartAuto(n)
  PROVE  FileInv'
<1> DEFINE bytes == buffer \o ChunkOf(n)
           skip == BomLen(bytes)
           rest == SubSeq(bytes, skip + 1, Len(bytes))
           whole == SubSeq(source, skip + 1, Len(source))
<1>1. /\ mode = "undecided" /\ Read(n)
      /\ Len(buffer) + n >= 3 \/ Len(buffer) + n >= expected
      /\ UNCHANGED <<source, expected, lossy>>
      /\ \/ /\ IsUtf16(bytes)
            /\ mode' = "buffered" /\ buffer' = bytes
            /\ UNCHANGED <<vars, inspected, base, warned>>
         \/ /\ ~IsUtf16(bytes)
            /\ inspected' = inspected + Len(Inspects(rest))
            /\ buffer' = <<>>
            /\ \/ /\ HasNul(Inspects(rest))
                  /\ Skip("binary")
                  /\ UNCHANGED <<vars, base>>
               \/ /\ ~HasNul(Inspects(rest))
                  /\ mode' = "streaming" /\ base' = skip
                  /\ text' = whole
                  /\ given' = Len(rest)
                  /\ phase' = IF rest = <<>> THEN "idle" ELSE "push"
                  /\ UNCHANGED <<options, at, lineVars, matchVars, tooLong, totalLines,
                                 crossed, warned>>
  BY DEF StartAuto
<1>2. /\ FileTypes /\ Searcher /\ LineInit /\ warned = <<>> /\ LinesOnly
      /\ options.encoding = "Auto" /\ inspected = 0
      /\ buffer = SubSeq(source, 1, read) /\ options \in Options
  BY <1>1 DEF FileInv, Gathered, Said, Searcher, LineTypes
<1>3. /\ phase = "idle" /\ n \in Nat /\ read' = read + n /\ read' \in 0..Len(source)
      /\ bytes = SubSeq(source, 1, read') /\ Len(buffer) = read
  BY <1>1, <1>2, ChunkReads
<1> HIDE DEF bytes
<1>4. read' >= 3 \/ read' >= expected
  BY <1>1, <1>3
<1>5. /\ bytes \in Seq(Byte) /\ skip \in {0, 3} /\ skip <= read'
      /\ rest \in Seq(Byte) /\ Len(rest) = read' - skip
      /\ whole \in Seq(Byte) /\ Len(whole) = Len(source) - skip
      /\ \A i \in 1..Len(rest) : rest[i] = whole[i]
      /\ IsUtf16(bytes) => Encoding(source) # "Utf8"
      /\ Foreseen /\ ~IsUtf16(bytes) => TextOf(source) = whole
  <2>1. PICK r \in 0..Len(source) : r = read'
    BY <1>3
  <2>2. bytes = SubSeq(source, 1, r) /\ (r >= 3 \/ r >= expected)
    BY <1>3, <1>4, <2>1
  <2>3. /\ bytes \in Seq(Byte) /\ skip \in {0, 3} /\ skip <= r
        /\ rest \in Seq(Byte) /\ Len(rest) = r - skip
        /\ whole \in Seq(Byte) /\ Len(whole) = Len(source) - skip
        /\ \A i \in 1..Len(rest) : rest[i] = whole[i]
        /\ IsUtf16(bytes) => Encoding(source) # "Utf8"
        /\ Foreseen /\ ~IsUtf16(bytes) => TextOf(source) = whole
    BY <1>2, <2>2, MarkDecides
  <2> HIDE DEF skip, rest, whole
  <2> QED
    BY <2>1, <2>3
<1> HIDE DEF skip, rest, whole
<1>6. inspected \in 0..Window /\ Window \in Nat /\ Len(source) \in Nat /\ read' \in Nat
      /\ read' <= Len(source)
  BY <1>2, <1>3, MarksAre DEF FileTypes
<1>7. /\ Len(rest) \in Nat /\ Len(whole) \in Nat /\ Len(rest) <= Len(whole)
       /\ \A i : i \in 1..Len(rest) => i \in 1..Len(whole) /\ i \in Nat
  <2>1. /\ skip \in {0, 3} /\ skip <= read' /\ Len(rest) = read' - skip
        /\ Len(whole) = Len(source) - skip
    BY <1>5
  <2>2. \A s \in {0, 3}, r \in Nat, m \in Nat : s <= r /\ r <= m =>
          r - s \in Nat /\ m - s \in Nat /\ r - s <= m - s
    OBVIOUS
  <2>3. Len(rest) \in Nat /\ Len(whole) \in Nat /\ Len(rest) <= Len(whole)
    BY <1>6, <2>1, <2>2
  <2> QED
    BY <2>3
<1>8. /\ inspected + Len(Inspects(rest)) \in 0..Window
      /\ HasNul(Inspects(rest)) => options.binary = "Skip"
      /\ options.binary = "Skip" =>
           /\ HasNul(Inspects(rest)) <=>
                \E i \in 1..Len(rest) : i + inspected <= Window /\ rest[i] = Nul
           /\ inspected + Len(Inspects(rest)) =
                IF inspected + Len(rest) < Window THEN inspected + Len(rest) ELSE Window
  BY <1>2, <1>5, <1>6, InspectsHas
<1>9. CASE /\ IsUtf16(bytes)
           /\ mode' = "buffered" /\ buffer' = bytes
           /\ UNCHANGED <<vars, inspected, base, warned>>
  <2>1. /\ Encoding(source)' = Encoding(source) /\ LinesOnly' = LinesOnly /\ phase' = "idle"
    BY <1>1, <1>3, <1>9, FileKeeps
  <2>2. FileTypes'
    BY <1>1, <1>2, <1>3, <1>5, <1>9 DEF FileTypes
  <2>3. Searcher'
    BY <1>1, <1>2, <1>3, <1>9, SearcherWaits
  <2>4. Gathered'
    <3>1. buffer' = SubSeq(source', 1, read')
      BY <1>1, <1>3, <1>9
    <3>2. Encoding(source)' # "Utf8"
      BY <1>5, <1>9, <2>1
    <3> QED
      BY <1>9, <3>1, <3>2 DEF Gathered
  <2>5. Streamed' /\ Decided' /\ Said'
    BY <1>2, <1>9, <2>1 DEF Streamed, Decided, Said, LinesBegun
  <2> QED
    BY <2>2, <2>3, <2>4, <2>5 DEF FileInv
<1>10. CASE /\ ~IsUtf16(bytes)
           /\ inspected' = inspected + Len(Inspects(rest))
           /\ buffer' = <<>>
           /\ HasNul(Inspects(rest))
           /\ Skip("binary")
           /\ UNCHANGED <<vars, base>>
  <2>1. mode' = "skipped" /\ warned' = <<"binary">>
    BY <1>2, <1>10 DEF Skip
  <2>2. Judged' = Judged /\ Spoiled' = Spoiled /\ phase' = "idle"
    BY <1>1, <1>3, <1>10, FileKeeps
  <2>3. Judged => Spoiled
    <3> SUFFICES ASSUME Judged PROVE Spoiled
      OBVIOUS
    <3>1. PICK i \in 1..Len(rest) : i + inspected <= Window /\ rest[i] = Nul
      BY <1>8, <1>10
    <3>2. i + 0 <= Window /\ whole[i] = Nul /\ i \in 1..Len(whole) /\ i \in Nat
      BY <1>2, <1>5, <1>7, <3>1
    <3>3. i <= Window
      BY <3>2
    <3>4. HasNul(Beginning(whole, Window))
      BY <1>5, <1>6, <3>2, <3>3, NulSeen
    <3> QED
      BY <1>5, <1>10, <3>4 DEF Judged, Spoiled
  <2>4. FileTypes'
    <3>1. buffer' \in Seq(Byte)
      BY <1>10, EmptySeq
    <3> QED
      BY <1>1, <1>2, <1>3, <1>8, <1>10, <2>1, <3>1 DEF FileTypes
  <2>5. Searcher'
    BY <1>1, <1>2, <1>3, <1>10, <2>1, SearcherWaits
  <2>6. Gathered' /\ Streamed'
    BY <2>1 DEF Gathered, Streamed
  <2>7. Decided' /\ Said'
    BY <2>1, <2>2, <2>3 DEF Decided, Said, LinesBegun, GivenUp
  <2> QED
    BY <2>4, <2>5, <2>6, <2>7 DEF FileInv
<1>11. CASE /\ ~IsUtf16(bytes)
            /\ inspected' = inspected + Len(Inspects(rest))
            /\ buffer' = <<>>
            /\ ~HasNul(Inspects(rest))
            /\ mode' = "streaming" /\ base' = skip
            /\ text' = whole
            /\ given' = Len(rest)
            /\ phase' = IF rest = <<>> THEN "idle" ELSE "push"
            /\ UNCHANGED <<options, at, lineVars, matchVars, tooLong, totalLines,
                           crossed, warned>>
  <2>1. /\ options' = options /\ warned' = <<>> /\ phase' \in {"idle", "push"}
        /\ totalLines' = totalLines
    BY <1>2, <1>11
  <2>2. given' \in 0..Len(text') /\ text' \in Seq(Byte)
    <3>1. given' = Len(rest) /\ text' = whole
      BY <1>11
    <3> QED
      BY <1>5, <1>7, <3>1
  <2>3. phase' = IF given' = 0 THEN "idle" ELSE "push"
    <3>1. rest = <<>> <=> Len(rest) = 0
      BY <1>5, EmptySeq
    <3> QED
      BY <1>11, <3>1
  <2>4. LineInv' /\ LineTypes'
    BY <1>2, <1>11, <2>1, <2>2, <2>3, BeginsWith
  <2>5. FileTypes'
    <3>1. buffer' \in Seq(Byte) /\ inspected' \in 0..Window
      BY <1>8, <1>11, EmptySeq
    <3>2. base' \in {0, 3, NoBase}
      BY <1>5, <1>11
    <3> QED
      BY <1>1, <1>2, <1>3, <1>11, <3>1, <3>2 DEF FileTypes
  <2>6. Searcher'
    BY <1>11, <2>1, <2>4 DEF Searcher
  <2>7. LinesOnly' = LinesOnly /\ Foreseen' = Foreseen /\ TextOf(source)' = TextOf(source)
    BY <1>1, <2>1, SameText
  <2>8. base' \in {0, 3} /\ base' <= read' /\ given' = read' - base'
        /\ text' = SubSeq(source', base' + 1, Len(source'))
    BY <1>1, <1>5, <1>11 DEF whole
  <2>9. ASSUME options.binary = "Skip"
        PROVE  /\ inspected' = IF given' < Window THEN given' ELSE Window
               /\ \A i \in 1..inspected' : text'[i] # Nul
    <3>1. /\ inspected' = 0 + Len(Inspects(rest)) /\ given' = Len(rest)
          /\ 0 + Len(Inspects(rest)) = IF 0 + Len(rest) < Window THEN 0 + Len(rest) ELSE Window
      BY <1>2, <1>8, <1>11, <2>9
    <3>2. inspected' = IF given' < Window THEN given' ELSE Window
      BY <1>7, <3>1
    <3>3. ASSUME NEW i \in 1..inspected' PROVE text'[i] # Nul
      <4>1. i \in 1..Len(rest) /\ i + 0 <= Window
        BY <1>6, <1>7, <3>2, <3>1
      <4>2. rest[i] # Nul
        BY <1>2, <1>8, <1>11, <2>9, <4>1
      <4> QED
        BY <1>5, <1>11, <4>1, <4>2
    <3> QED
      BY <3>2, <3>3
  <2>10. Foreseen => text' = TextOf(source)
    BY <1>5, <1>11
  <2>11. Streamed'
    BY <1>2, <2>1, <2>7, <2>8, <2>9, <2>10 DEF Streamed
  <2>12. Gathered' /\ Decided' /\ Said'
    BY <1>11, <2>1 DEF Gathered, Decided, Said, LinesBegun
  <2> QED
    BY <2>5, <2>6, <2>11, <2>12 DEF FileInv
<1> QED
  BY <1>1, <1>9, <1>10, <1>11, Zenon

\* An empty file has an empty text, however it is decoded as UTF-8.
LEMMA NoText ==
  ASSUME source = <<>>, Encoding(source) = "Utf8", LinesOnly
  PROVE  Decode(source).text = <<>> /\ TextOf(source) = <<>>
<1>1. Len(Utf8Mark) = 3 /\ Len(<<>>) = 0
  BY MarksAre
<1>2. ~StartsWith(<<>>, Utf8Mark)
  BY <1>1 DEF StartsWith, IsPrefix
<1>3. Without(<<>>, Utf8Mark) = <<>>
  BY <1>2 DEF Without
<1>4. ~Lossy(<<>>)
  BY <1>1 DEF Lossy
<1>5. DecodeUtf8(<<>>).text = <<>>
  BY <1>3, <1>4 DEF DecodeUtf8
<1>6. Decode(source) = DecodeUtf8(<<>>)
  BY DEF Decode
<1>7. TextOf(source) = <<>>
  BY <1>3 DEF TextOf, LinesOnly
<1> QED
  BY <1>5, <1>6, <1>7

\* What is decoded at the end is the whole file; as lines of UTF-8 only when it is empty.
LEMMA DecodedAtEnd ==
  ASSUME FileInv, mode \in {"undecided", "buffered"}, read = Len(source)
  PROVE  /\ buffer = source /\ warned = <<>> /\ LineInit
         /\ Foreseen /\ LinesOnly /\ Encoding(source) = "Utf8" => source = <<>>
         /\ Foreseen /\ LinesOnly => Decode(source).text = TextOf(source)
<1>1. /\ source \in Seq(Byte) /\ Len(source) \in Nat /\ expected \in Nat
      /\ buffer = SubSeq(source, 1, Len(source)) /\ warned = <<>> /\ LineInit
  BY DEF FileInv, FileTypes, Gathered, Said, Searcher
<1>2. buffer = source
  BY <1>1, SubSeqFull
<1>3. ASSUME Foreseen, LinesOnly, Encoding(source) = "Utf8" PROVE source = <<>>
  <2>1. mode = "undecided" /\ (read = 0 \/ read < expected)
    BY <1>3 DEF FileInv, Gathered
  <2>2. Min({3, Len(source)}) = IF 3 <= Len(source) THEN 3 ELSE Len(source)
    BY <1>1, Smaller
  <2>3. expected <= Len(source)
    BY <1>1, <1>3, <2>2 DEF Foreseen
  <2>4. Len(source) = 0
    BY <1>1, <2>1, <2>3
  <2> QED
    BY <1>1, <2>4, EmptySeq
<1>4. ASSUME Foreseen, LinesOnly PROVE Decode(source).text = TextOf(source)
  <2>1. CASE Encoding(source) = "Utf8"
    BY <1>3, <1>4, <2>1, NoText
  <2>2. CASE Encoding(source) # "Utf8"
    BY <2>2 DEF TextOf
  <2> QED
    BY <2>1, <2>2
<1> QED
  BY <1>1, <1>2, <1>3, <1>4

\* The end of a file that was buffered: it is decoded, and pushed as one.
LEMMA SearchCompleteKeeps ==
  ASSUME FileInv, SearchComplete
  PROVE  FileInv'
<1> DEFINE decoded == Decode(buffer)
           errors == IF decoded.errors THEN <<"encoding">> ELSE <<>>
           binary == options.binary = "Skip" /\ HasNul(Beginning(decoded.text, Window))
<1>1. /\ mode \in {"undecided", "buffered"} /\ phase = "idle" /\ read = Len(source)
      /\ ~options.archive
      /\ base' = (IF Encoding(buffer) = "Utf8" THEN BomLen(buffer) ELSE NoBase)
      /\ lossy' = decoded.errors
      /\ UNCHANGED <<source, expected, read, buffer, inspected>>
      /\ \/ /\ options.binary = "Skip" /\ HasNul(Beginning(decoded.text, Window))
            /\ mode' = "finished"
            /\ warned' = warned \o errors \o <<"binary">>
            /\ UNCHANGED vars
         \/ /\ options.binary = "Search" \/ ~HasNul(Beginning(decoded.text, Window))
            /\ warned' = warned \o errors
            /\ text' = decoded.text
            /\ \/ /\ options.mode = "Multiline" /\ mode' = "multiline"
                  /\ UNCHANGED <<given, phase>>
               \/ /\ options.mode # "Multiline" /\ mode' = "complete"
                  /\ given' = Len(decoded.text)
                  /\ phase' = IF decoded.text = <<>> THEN "idle" ELSE "push"
            /\ UNCHANGED <<options, at, lineVars, matchVars, tooLong, totalLines, crossed>>
  BY DEF SearchComplete, AtEnd
<1>2. /\ FileTypes /\ options \in Options
      /\ options.mode \in {"Line", "Multiline"} /\ Window \in Nat
  BY SettingTypes, MarksAre DEF FileInv, Searcher, LineTypes
<1>3. /\ buffer = source /\ warned = <<>> /\ LineInit
      /\ Foreseen /\ LinesOnly /\ Encoding(source) = "Utf8" => source = <<>>
      /\ Foreseen /\ LinesOnly => decoded.text = TextOf(source)
  <2>1. /\ buffer = source /\ warned = <<>> /\ LineInit
        /\ Foreseen /\ LinesOnly /\ Encoding(source) = "Utf8" => source = <<>>
        /\ Foreseen /\ LinesOnly => Decode(source).text = TextOf(source)
    BY <1>1, DecodedAtEnd
  <2> QED
    BY <2>1
<1>4. /\ decoded.text \in Seq(Byte) /\ decoded.errors \in BOOLEAN /\ source \in Seq(Byte)
  BY <1>2, <1>3, DecodeType DEF FileTypes
<1>5. /\ warned \o errors \in {<<>>, <<"encoding">>}
      /\ warned \o errors \o <<"binary">> \in GivenUp \cup {<<"encoding", "binary">>}
  <2> HIDE DEF decoded
  <2>1. <<>> \o <<>> = <<>> /\ <<>> \o <<"encoding">> = <<"encoding">>
        /\ <<>> \o <<"binary">> = <<"binary">>
        /\ <<"encoding">> \o <<"binary">> = <<"encoding", "binary">>
    <3> DEFINE Kind == {"encoding", "binary"}
    <3>1. \A s \in Seq(Kind) : <<>> \o s = s
      BY ConcatEmptySeq
    <3>2. <<"encoding">> \in Seq(Kind) /\ <<"binary">> \in Seq(Kind)
      OBVIOUS
    <3>3. <<>> \in Seq(Kind)
      BY EmptySeq
    <3>4. <<"encoding">> \o <<"binary">> = <<"encoding", "binary">>
      <4> DEFINE x == <<"encoding">> \o <<"binary">>
                 y == <<"encoding", "binary">>
      <4>1. x \in Seq(Kind) /\ Len(x) = 2 /\ x[1] = "encoding" /\ x[2] = "binary"
        <5>1. Len(<<"encoding">>) = 1 /\ Len(<<"binary">>) = 1
          OBVIOUS
        <5>2. /\ x \in Seq(Kind) /\ Len(x) = 1 + 1
              /\ \A i \in 1..(1 + 1) :
                   x[i] = IF i <= 1 THEN <<"encoding">>[i] ELSE <<"binary">>[i - 1]
          BY <3>2, <5>1, ConcatProperties
        <5> QED
          BY <5>2
      <4>2. y \in Seq(Kind) /\ Len(y) = 2 /\ y[1] = "encoding" /\ y[2] = "binary"
        OBVIOUS
      <4> HIDE DEF x, y
      <4>3. \A i \in 1..Len(x) : x[i] = y[i]
        BY <4>1, <4>2
      <4>4. x = y
        BY <4>1, <4>2, <4>3, SeqEqual
      <4> QED
        BY <4>4 DEF x, y
    <3> QED
      BY <3>1, <3>2, <3>4, <3>3
  <2>2. CASE decoded.errors
    BY <1>3, <2>1, <2>2
  <2>3. CASE ~decoded.errors
    BY <1>3, <2>1, <2>3 DEF GivenUp
  <2> QED
    BY <2>2, <2>3
<1> HIDE DEF decoded, errors
<1>6. Judged => TextOf(source) = <<>> /\ decoded.text = <<>>
  BY <1>3, NoText DEF Judged
<1>7. ~HasNul(Beginning(<<>>, Window))
  <2>1. <<>> \in Seq(Byte) /\ Len(<<>>) = 0
    BY EmptySeq
  <2>2. ~\E i \in 1..Len(<<>>) : i <= Window /\ <<>>[i] = Nul
    BY <2>1
  <2> QED
    BY <1>2, <2>1, <2>2, NulSeen
<1>8. expected = Len(source) => Foreseen
  <2>1. Len(source) \in Nat
    BY <1>4
  <2>2. Min({3, Len(source)}) = IF 3 <= Len(source) THEN 3 ELSE Len(source)
    BY <2>1, Smaller
  <2> QED
    BY <2>1, <2>2 DEF Foreseen
<1>9. FileTypes'
  <2>1. base' \in {0, 3, NoBase}
    BY <1>1 DEF BomLen
  <2>2. mode' \in {"finished", "multiline", "complete"}
    BY <1>1
  <2> QED
    BY <1>1, <1>2, <1>4, <2>1, <2>2 DEF FileTypes
<1>10. options' = options /\ totalLines' = totalLines /\ totalLines = Open
  BY <1>1, <1>3 DEF vars, searcherVars, LineInit
<1>11. Encoding(source)' = Encoding(source) /\ TextOf(source)' = TextOf(source)
       /\ Spoiled' = Spoiled /\ LinesOnly' = LinesOnly /\ Judged' = Judged
  BY <1>1, <1>10, SameText
<1>12. Gathered' /\ Streamed'
  BY <1>1 DEF Gathered, Streamed
<1>13. CASE /\ options.binary = "Skip" /\ HasNul(Beginning(decoded.text, Window))
            /\ mode' = "finished"
            /\ warned' = warned \o errors \o <<"binary">>
            /\ UNCHANGED vars
  <2>1. phase' = "idle"
    BY <1>1, <1>13 DEF vars, searcherVars
  <2>2. Searcher'
    BY <1>1, <1>13, SearcherWaits DEF FileInv
  <2>3. ~Judged
    BY <1>6, <1>7, <1>13
  <2>4. Decided' /\ Said'
    BY <1>5, <1>10, <1>11, <1>13, <2>1, <2>3 DEF Decided, Said, LinesBegun
  <2> QED
    BY <1>9, <1>12, <2>2, <2>4 DEF FileInv
<1>14. CASE /\ warned' = warned \o errors
            /\ text' = decoded.text
            /\ options.mode = "Multiline" /\ mode' = "multiline"
            /\ UNCHANGED <<given, phase>>
            /\ UNCHANGED <<options, at, lineVars, matchVars, tooLong, totalLines, crossed>>
  <2>1. given = 0 /\ Len(text') \in Nat /\ text' \in Seq(Byte)
    BY <1>3, <1>4, <1>14 DEF LineInit
  <2>2. LineInv' /\ LineTypes'
    BY <1>1, <1>3, <1>14, <2>1, BeginsWith
  <2>3. LineInit'
    BY <1>3, <1>14 DEF LineInit, matchVars
  <2>4. Searcher'
    BY <1>1, <1>14, <2>2, <2>3 DEF Searcher
  <2>5. Decided' /\ Said'
    BY <1>5, <1>14 DEF Decided, Said, LinesBegun
  <2> QED
    BY <1>9, <1>12, <2>4, <2>5 DEF FileInv
<1>15. CASE /\ warned' = warned \o errors
            /\ text' = decoded.text
            /\ options.mode # "Multiline" /\ mode' = "complete"
            /\ given' = Len(decoded.text)
            /\ phase' = IF decoded.text = <<>> THEN "idle" ELSE "push"
            /\ UNCHANGED <<options, at, lineVars, matchVars, tooLong, totalLines, crossed>>
  <2>1. LinesOnly
    BY <1>1, <1>2, <1>15 DEF LinesOnly
  <2>2. given' \in 0..Len(text') /\ text' \in Seq(Byte)
    BY <1>4, <1>15
  <2>3. phase' = IF given' = 0 THEN "idle" ELSE "push"
    <3>1. decoded.text = <<>> <=> Len(decoded.text) = 0
      BY <1>4, EmptySeq
    <3> QED
      BY <1>15, <3>1
  <2>4. LineInv' /\ LineTypes'
    BY <1>3, <1>15, <2>2, <2>3, BeginsWith
  <2>5. Searcher'
    BY <1>15, <2>3, <2>4 DEF Searcher
  <2>6. /\ LinesOnly' /\ (expected' = Len(source') => text' = TextOf(source)')
        /\ (Judged' => ~Spoiled')
    <3>1. expected = Len(source) => text' = TextOf(source)
      BY <1>3, <1>8, <1>15, <2>1
    <3>2. Judged => ~Spoiled
      BY <1>6, <1>7 DEF Spoiled
    <3> QED
      BY <1>1, <1>11, <2>1, <3>1, <3>2
  <2>7. Decided' /\ Said'
    BY <1>5, <1>15, <2>6 DEF Decided, Said, LinesBegun
  <2> QED
    BY <1>9, <1>12, <2>5, <2>7 DEF FileInv
<1> QED
  BY <1>1, <1>13, <1>14, <1>15, Zenon

\* The multiline search takes the decoded text as one.
LEMMA SearchMultilineKeeps ==
  ASSUME FileInv, SearchMultiline
  PROVE  FileInv'
<1>1. /\ mode = "multiline" /\ mode' = "finished"
      /\ totalLines' = Multi!LogicalLineCount(text)
      /\ UNCHANGED <<options, text, given, at, phase, lineVars, before, waiting>>
      /\ UNCHANGED <<source, expected, read, buffer, inspected, base, lossy, warned>>
  BY DEF SearchMultiline
<1>2. LineTypes /\ LineInit /\ phase = "idle" /\ options.mode = "Multiline"
      /\ warned \in {<<>>, <<"encoding">>}
  BY <1>1 DEF FileInv, Searcher, Decided, Said, LineInit
<1>3. totalLines' \in Nat
  <2> DEFINE B == {i \in 1..Len(text) : text[i] = Newline}
  <2>1. B = Breaks(text)
    BY DEF Breaks
  <2>2. IsFiniteSet(B)
    BY <1>2, <2>1, TextHas DEF LineTypes
  <2>3. Cardinality(B) \in Nat
    BY <2>2, FS_CardinalityType
  <2>4. Multi!LogicalLineCount(text) =
          IF text = <<>> THEN 0 ELSE Cardinality(B) + (IF Last(text) = Newline THEN 0 ELSE 1)
    <3>1. Multi!Cardinality(B) = Cardinality(B)
      BY Zenon DEF Multi!Cardinality, Cardinality
    <3>2. Multi!Last(text) = Last(text)
      BY Zenon DEF Multi!Last, Last
    <3> QED
      BY <3>1, <3>2 DEF Multi!LogicalLineCount
  <2> HIDE DEF B
  <2> QED
    BY <1>1, <2>3, <2>4
<1>4. FileTypes'
  BY <1>1 DEF FileInv, FileTypes
<1>5. Searcher'
  <2>1. LineTypes'
    BY <1>1, <1>2, <1>3 DEF LineTypes
  <2> QED
    BY <1>1, <1>2, <2>1 DEF Searcher
<1>6. Gathered' /\ Streamed'
  BY <1>1 DEF Gathered, Streamed
<1>7. totalLines' # Open
  BY <1>3, LineAssumption
<1>8. Decided' /\ Said'
  BY <1>1, <1>2, <1>7 DEF Decided, Said, LinesBegun
<1> QED
  BY <1>4, <1>5, <1>6, <1>8 DEF FileInv

-----------------------------------------------------------------------------
(* The results *)

\* Every step keeps the invariant.
LEMMA FileInvKept ==
  ASSUME FileInv, [FileNext]_allVars
  PROVE  FileInv'
<1>1. CASE UNCHANGED allVars
  BY <1>1, FileInvOfVars
<1>2. CASE FileNext
  <2>1. CASE \E n \in 0..Len(source) :
               KeepPrefix(n) \/ StartAuto(n) \/ PushLines(n) \/ PushBuffer(n) \/ PushSkipped(n)
    BY <2>1, KeepPrefixKeeps, StartAutoKeeps, PushLinesKeeps, PushBufferKeeps, PushSkippedKeeps
  <2>2. CASE LineStep /\ UNCHANGED fileVars
    <3> USE DEF allVars
    <3> QED
      BY <2>2, SearcherMoves
  <2>3. CASE FinishLines \/ SearchComplete \/ SearchMultiline \/ SearchArchive \/ FinishSkipped
    BY <2>3, FinishLinesKeeps, SearchCompleteKeeps, SearchMultilineKeeps, EndsKeep
  <2>4. CASE Finished /\ UNCHANGED allVars
    BY <2>4, FileInvOfVars
  <2> QED
    BY <1>2, <2>1, <2>2, <2>3, <2>4 DEF FileNext
<1> QED
  BY <1>1, <1>2

\* The invariant that the theorems below are read from.
THEOREM FileInvariant == FileSpec => []FileInv
BY FileInvAtStart, FileInvKept, PTL DEF FileSpec

\* The state of a file on its way through a search has its types: the processor's,
\* and those of the LineSearcher it feeds.
THEOREM FileTypeOK == FileSpec => []TypeOK
<1>1. FileInv => TypeOK
  BY DEF FileInv, FileTypes, Searcher, LineTypes, Phases, TypeOK
<1> QED
  BY <1>1, FileInvariant, PTL

\* Whatever the file and however it is cut into chunks, what is reported is the report of
\* the text of the file.
THEOREM FileReportIsThatOfSource == FileSpec => []ReportIsThatOfSource
<1>1. FileInv => ReportIsThatOfSource
  <2> SUFFICES ASSUME FileInv, phase = "done", expected = Len(source), ~crossed
               PROVE  text = TextOf(source) /\ IsReportOf(TextOf(source))
    BY DEF ReportIsThatOfSource
  <2>1. mode = "finished" /\ LineInv
    BY DEF FileInv, Searcher
  <2>2. text = TextOf(source)
    BY <2>1 DEF FileInv, Decided, LinesBegun
  <2>3. IsReportOf(text)
    BY <2>1 DEF LineInv, Reported
  <2> QED
    BY <2>2, <2>3
<1> QED
  BY <1>1, FileInvariant, PTL

\* A NUL in the window after the mark, and nothing else, makes a streamed file binary,
\* wherever the chunks end.
THEOREM FileBinaryIsNotCounted == FileSpec => []BinaryIsNotCounted
<1>1. FileInv => BinaryIsNotCounted
  <2> SUFFICES ASSUME FileInv, mode = "finished", ~options.archive, options.mode = "Line",
                      options.binary = "Skip", phase \in {"idle", "done"},
                      expected \in Min({3, Len(source)})..Len(source),
                      Encoding(source) = "Utf8"
               PROVE  totalLines = Open <=> HasNul(Beginning(TextOf(source), Window))
    BY DEF BinaryIsNotCounted
  <2>1. Judged
    BY DEF Judged, LinesOnly, Foreseen
  <2>2. CASE phase = "idle"
    BY <2>1, <2>2 DEF FileInv, Decided, Spoiled
  <2>3. CASE phase = "done"
    <3>1. totalLines # Open
      BY <2>3 DEF FileInv, Searcher, LineInv, Position
    <3>2. ~Spoiled
      BY <2>1, <2>3 DEF FileInv, Decided, LinesBegun
    <3> QED
      BY <3>1, <3>2 DEF Spoiled
  <2> QED
    BY <2>2, <2>3
<1> QED
  BY <1>1, FileInvariant, PTL

\* How many warnings of a list say that the file was not searched.
LEMMA WarningsCounted ==
  ASSUME NEW w
  PROVE  LET S == {i \in 1..Len(w) : w[i] \in {"limit", "binary", "archive"}}
         IN  /\ w \in GivenUp \cup {<<"encoding", "binary">>} => Cardinality(S) = 1
             /\ w \in {<<>>, <<"encoding">>} => Cardinality(S) = 0
<1> DEFINE S == {i \in 1..Len(w) : w[i] \in {"limit", "binary", "archive"}}
<1>1. w \in GivenUp => S = {1}
  BY DEF GivenUp
<1>2. w = <<"encoding", "binary">> => S = {2}
  OBVIOUS
<1>3. w \in {<<>>, <<"encoding">>} => S = {}
  OBVIOUS
<1>4. Cardinality({1}) = 1 /\ Cardinality({2}) = 1 /\ Cardinality({}) = 0
  BY FS_EmptySet, FS_Singleton
<1> HIDE DEF S
<1>5. /\ w \in GivenUp \cup {<<"encoding", "binary">>} => Cardinality(S) = 1
      /\ w \in {<<>>, <<"encoding">>} => Cardinality(S) = 0
  BY <1>1, <1>2, <1>3, <1>4
<1> QED
  BY <1>5 DEF S

\* No file is left out without a warning, and none is said to be that was searched.
THEOREM FileSkippedIsSaid == FileSpec => []SkippedIsSaid
<1>1. FileInv => SkippedIsSaid
  <2> SUFFICES ASSUME FileInv, mode = "finished", phase \in {"idle", "done"}
               PROVE  Cardinality({i \in 1..Len(warned) :
                                     warned[i] \in {"limit", "binary", "archive"}})
                        = IF totalLines = Open THEN 1 ELSE 0
    BY DEF SkippedIsSaid
  <2>1. IF totalLines = Open THEN warned \in GivenUp \cup {<<"encoding", "binary">>}
        ELSE warned \in {<<>>, <<"encoding">>}
    <3>1. CASE phase = "idle"
      BY <3>1 DEF FileInv, Said
    <3>2. CASE phase = "done"
      <4>1. totalLines # Open
        BY <3>2 DEF FileInv, Searcher, LineInv, Position
      <4>2. warned \in {<<>>, <<"encoding">>}
        BY <3>2 DEF FileInv, Said, LinesBegun
      <4> QED
        BY <4>1, <4>2
    <3> QED
      BY <3>1, <3>2
  <2>2. /\ warned \in GivenUp \cup {<<"encoding", "binary">>} =>
             Cardinality({i \in 1..Len(warned) :
                            warned[i] \in {"limit", "binary", "archive"}}) = 1
        /\ warned \in {<<>>, <<"encoding">>} =>
             Cardinality({i \in 1..Len(warned) :
                            warned[i] \in {"limit", "binary", "archive"}}) = 0
    BY WarningsCounted
  <2> QED
    BY <2>1, <2>2
<1> QED
  BY <1>1, FileInvariant, PTL

=============================================================================
