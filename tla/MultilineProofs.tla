--------------------------- MODULE MultilineProofs ---------------------------
(***************************************************************************)
(* What a multiline search reports is determined by the text and the       *)
(* matches: MultilineBlocksAreLines holds for every text and every list of *)
(* matches in order.                                                       *)
(*                                                                         *)
(* The loops of the search are recursive functions; each is shown to have  *)
(* a state in closed form after every turn: the cursor is at a line, the   *)
(* context is the lines with the numbers next to it, the blocks so far are *)
(* the maximal runs of matches that share lines.  A run touches an         *)
(* interval of lines, and no other match touches a line of it.             *)
(***************************************************************************)
EXTENDS FileProcessorProofs

-----------------------------------------------------------------------------
(* Definitions by recursion over numbers *)

\* The function g satisfies the recursion below k: step gives the value at n.
Solves(S, step, g, k) == \A n \in S : n < k => g[n] = step[n][g]

\* A step of the recursion looks at smaller numbers only.
LooksBack(S, V, step) ==
  \A n \in S : \A g, h \in [S -> V] :
    (\A m \in S : m < n => g[m] = h[m]) => step[n][g] = step[n][h]

\* step is a definition by recursion over the numbers S of a function to V, and f is one.
IsRecursion(S, V, step) ==
  /\ S \in SUBSET Nat /\ V # {}
  /\ step \in [S -> [[S -> V] -> V]]
  /\ LooksBack(S, V, step)
IsSolution(S, V, step, f) == f \in [S -> V] /\ \A n \in S : f[n] = step[n][f]

\* Two functions that satisfy a recursion below k are the same there.
LEMMA SolutionsAgree ==
  ASSUME NEW S \in SUBSET Nat, NEW V, NEW step, LooksBack(S, V, step),
         NEW k \in Nat, NEW l \in Nat, k <= l,
         NEW g \in [S -> V], NEW h \in [S -> V], Solves(S, step, g, k), Solves(S, step, h, l),
         NEW i \in S, i < k
  PROVE  g[i] = h[i]
<1> DEFINE differ == {n \in S : n < k /\ g[n] # h[n]}
           m == Min(differ)
<1>1. SUFFICES ASSUME differ # {} PROVE FALSE
  OBVIOUS
<1>2. m \in differ /\ \A j \in differ : m <= j
  BY <1>1, LeastExists
<1> HIDE DEF m
<1>3. \A j \in S : j < m => g[j] = h[j]
  BY <1>2
<1>4. step[m][g] = step[m][h]
  BY <1>2, <1>3 DEF LooksBack
<1>5. g[m] = step[m][g] /\ h[m] = step[m][h]
  BY <1>2 DEF Solves
<1> QED
  BY <1>2, <1>4, <1>5

\* A recursion that looks back has a solution below any number.
LEMMA SolvedBelow ==
  ASSUME NEW S \in SUBSET Nat, NEW V, V # {}, NEW step \in [S -> [[S -> V] -> V]],
         LooksBack(S, V, step), NEW l \in Nat
  PROVE  \E g \in [S -> V] : Solves(S, step, g, l)
<1> DEFINE unsolved == {k \in Nat : \A g \in [S -> V] : ~Solves(S, step, g, k)}
           k == Min(unsolved)
<1>1. SUFFICES ASSUME unsolved # {} PROVE FALSE
  OBVIOUS
<1>2. k \in unsolved /\ \A j \in unsolved : k <= j
  BY <1>1, LeastExists
<1>3. k \in Nat
  BY <1>2
<1> HIDE DEF k
<1>4. k # 0
  <2>1. PICK v \in V : TRUE
    OBVIOUS
  <2>2. [n \in S |-> v] \in [S -> V] /\ Solves(S, step, [n \in S |-> v], 0)
    BY DEF Solves
  <2> QED
    BY <1>2, <2>2
<1>5. PICK p \in Nat : k = p + 1
  BY <1>3, <1>4
<1>6. PICK g \in [S -> V] : Solves(S, step, g, p)
  <2>1. ~(k <= p)
    BY <1>5
  <2> QED
    BY <1>2, <2>1
<1> DEFINE h == [n \in S |-> IF n = p THEN step[p][g] ELSE g[n]]
<1>7. h \in [S -> V]
  OBVIOUS
<1>8. ASSUME NEW n \in S, n <= p PROVE step[n][h] = step[n][g]
  <2>1. \A m \in S : m < n => h[m] = g[m]
    BY <1>8
  <2> HIDE DEF h
  <2> QED
    BY <1>7, <2>1 DEF LooksBack
<1>9. Solves(S, step, h, k)
  <2> SUFFICES ASSUME NEW n \in S, n < k PROVE h[n] = step[n][h]
    BY DEF Solves
  <2>1. n <= p
    BY <1>5
  <2>2. h[n] = step[n][g]
    BY <1>6, <2>1 DEF Solves
  <2> QED
    BY <1>8, <2>1, <2>2
<1> QED
  BY <1>2, <1>7, <1>9

\* A definition by recursion over a set of numbers has a solution.
LEMMA RecursionSolved ==
  ASSUME NEW S, NEW V, NEW step, IsRecursion(S, V, step)
  PROVE  \E f : IsSolution(S, V, step, f)
<1> USE DEF IsRecursion
<1> DEFINE part(k) == CHOOSE g \in [S -> V] : Solves(S, step, g, k)
           f == [n \in S |-> part(n + 1)[n]]
<1>1. \A k \in Nat : part(k) \in [S -> V] /\ Solves(S, step, part(k), k)
  BY SolvedBelow
<1> HIDE DEF part
<1>2. f \in [S -> V]
  BY <1>1
<1>3. ASSUME NEW n \in S PROVE f[n] = step[n][f]
  <2> DEFINE g == part(n + 1)
  <2>1. n + 1 \in Nat /\ g \in [S -> V] /\ Solves(S, step, g, n + 1)
    BY <1>1
  <2>2. ASSUME NEW m \in S, m < n PROVE f[m] = g[m]
    <3>1. m + 1 \in Nat /\ m + 1 <= n + 1 /\ m < m + 1
      BY <2>2
    <3>2. part(m + 1) \in [S -> V] /\ Solves(S, step, part(m + 1), m + 1)
      BY <1>1, <3>1
    <3> HIDE DEF f, g
    <3>3. part(m + 1)[m] = g[m]
      BY <2>1, <3>1, <3>2, SolutionsAgree
    <3> QED
      BY <3>3 DEF f
  <2>3. step[n][f] = step[n][g]
    <3> HIDE DEF f, g
    <3> QED
      BY <1>2, <2>1, <2>2 DEF LooksBack
  <2>4. g[n] = step[n][g]
    BY <2>1 DEF Solves
  <2> QED
    BY <2>3, <2>4
<1> QED
  BY <1>2, <1>3 DEF IsSolution

\* What holds at first and after every step, always holds.
LEMMA StepByStep ==
  ASSUME NEW n \in Nat, NEW G, 0 \in G, \A k \in 1..n : k - 1 \in G => k \in G
  PROVE  \A k \in 0..n : k \in G
<1> DEFINE bad == {k \in 0..n : k \notin G}
           m == Min(bad)
<1>1. SUFFICES ASSUME bad # {} PROVE FALSE
  OBVIOUS
<1>2. m \in bad /\ \A j \in bad : m <= j
  BY <1>1, LeastExists
<1> HIDE DEF m
<1>3. m \in 1..n /\ m - 1 \in 0..n /\ ~(m <= m - 1)
  BY <1>2
<1>4. m - 1 \in G
  BY <1>2, <1>3
<1> QED
  BY <1>2, <1>3, <1>4

\* The states f of a loop of n turns: next[k] is what turn k makes of the state before.
AreStates(f, n, V, first, next) ==
  /\ f \in [0..n -> V]
  /\ \A k \in 0..n : f[k] = IF k = 0 THEN first ELSE next[k][f[k - 1]]

\* Every loop has its states.
LEMMA StatesExist ==
  ASSUME NEW n \in Nat, NEW V, NEW first \in V, NEW next \in [1..n -> [V -> V]]
  PROVE  \E f : AreStates(f, n, V, first, next)
<1> DEFINE S == 0..n
           step == [k \in S |-> [g \in [S -> V] |-> IF k = 0 THEN first ELSE next[k][g[k - 1]]]]
<1>1. \A k \in S : k # 0 => k \in 1..n /\ k - 1 \in S /\ k - 1 < k
  OBVIOUS
<1>2. ASSUME NEW k \in S, NEW g \in [S -> V]
      PROVE  (IF k = 0 THEN first ELSE next[k][g[k - 1]]) \in V
  <2>1. CASE k = 0
    BY <2>1
  <2>2. CASE k # 0
    <3>1. next[k] \in [V -> V] /\ g[k - 1] \in V
      BY <1>1, <2>2
    <3> QED
      BY <2>2, <3>1
  <2> QED
    BY <2>1, <2>2
<1>3. step \in [S -> [[S -> V] -> V]]
  BY <1>2
<1>4. ASSUME NEW k \in S, NEW g \in [S -> V], NEW h \in [S -> V],
             \A m \in S : m < k => g[m] = h[m]
      PROVE  step[k][g] = step[k][h]
  BY <1>1, <1>4
<1>5. S \in SUBSET Nat /\ V # {}
  OBVIOUS
<1>6. LooksBack(S, V, step)
  BY <1>4 DEF LooksBack
<1> HIDE DEF step
<1>7. IsRecursion(S, V, step)
  BY <1>3, <1>5, <1>6 DEF IsRecursion
<1>8. PICK f : IsSolution(S, V, step, f)
  BY <1>7, RecursionSolved
<1>9. f \in [S -> V] /\ \A k \in S : f[k] = step[k][f]
  BY <1>8 DEF IsSolution
<1>10. \A k \in S : f[k] = IF k = 0 THEN first ELSE next[k][f[k - 1]]
  BY <1>9 DEF step
<1> QED
  BY <1>9, <1>10 DEF AreStates

-----------------------------------------------------------------------------
(* The lines of a text *)

\* Where the line that begins at s ends: behind its newline, or with the text.
EndAt(t, s) == Min({b \in Breaks(t) : b > s} \cup {Len(t)})
Lines(t) == 1..Cardinality(StartsOf(t))

\* The first line begins at the beginning, every other behind a newline.
LEMMA StartsAre ==
  ASSUME NEW t \in Seq(Byte)
  PROVE  /\ StartsOf(t) \in SUBSET Nat /\ IsFiniteSet(StartsOf(t)) /\ 0 \in StartsOf(t)
         /\ \A s : s \in StartsOf(t) <=> s = 0 \/ (s \in Breaks(t) /\ s < Len(t))
         /\ \A s \in StartsOf(t) : s \in 0..Len(t) /\ s \in {0} \cup Breaks(t)
         /\ Cardinality(StartsOf(t)) \in Nat \ {0}
<1>1. Len(t) \in Nat /\ Breaks(t) \in SUBSET (1..Len(t)) /\ LineStarts(t) \in SUBSET Nat
      /\ IsFiniteSet(LineStarts(t))
  BY TextHas
<1>2. StartsOf(t) \in SUBSET Nat /\ 0 \in StartsOf(t)
  BY <1>1 DEF StartsOf
<1>3. IsFiniteSet(StartsOf(t))
  BY <1>1, FS_AddElement DEF StartsOf
<1>4. \A s : s \in StartsOf(t) <=> s = 0 \/ (s \in Breaks(t) /\ s < Len(t))
  BY <1>1 DEF StartsOf, LineStarts
<1>5. \A s \in StartsOf(t) : s \in 0..Len(t) /\ s \in {0} \cup Breaks(t)
  BY <1>1, <1>4
<1>6. Cardinality(StartsOf(t)) \in Nat \ {0}
  BY <1>2, <1>3, FS_CardinalityType, FS_EmptySet
<1> QED
  BY <1>2, <1>3, <1>4, <1>5, <1>6

\* Lines are numbered in their order.
LEMMA NumberIsRank ==
  ASSUME NEW t \in Seq(Byte), NEW s \in StartsOf(t)
  PROVE  NumberOf(t, s) = Rank(StartsOf(t), s)
<1> DEFINE A == {r \in StartsOf(t) : r < s}
           B == {b \in Breaks(t) : b <= s}
<1>1. /\ StartsOf(t) \in SUBSET Nat /\ IsFiniteSet(StartsOf(t)) /\ 0 \in StartsOf(t)
      /\ \A r : r \in StartsOf(t) <=> r = 0 \/ (r \in Breaks(t) /\ r < Len(t))
      /\ s \in 0..Len(t) /\ s \in {0} \cup Breaks(t)
  BY StartsAre
<1>2. Len(t) \in Nat /\ Breaks(t) \in SUBSET (1..Len(t))
  BY TextHas
<1>3. IsFiniteSet(A) /\ IsFiniteSet(B)
  BY <1>1, NumberType, FS_Subset
<1>4. Cardinality(A) = Cardinality(B)
  <2>1. CASE s = 0
    <3>1. A = {} /\ B = {}
      BY <1>1, <1>2, <2>1
    <3> QED
      BY <3>1
  <2>2. CASE s # 0
    <3> DEFINE C == {b \in Breaks(t) : b < s}
    <3>1. s \in Breaks(t) /\ s <= Len(t) /\ 0 < s
      BY <1>1, <1>2, <2>2
    <3>2. B = C \cup {s} /\ s \notin C
      BY <1>2, <3>1
    <3>3. \A b \in Breaks(t) : b \in Nat /\ b # 0 /\ (b < s => b < Len(t))
      BY <1>2, <3>1
    <3>4. A = C \cup {0} /\ 0 \notin C
      BY <1>1, <3>1, <3>3
    <3>5. IsFiniteSet(C)
      BY <1>3, <3>2, FS_Subset
    <3> HIDE DEF A, B, C
    <3> QED
      BY <3>2, <3>4, <3>5, FS_AddElement
  <2> QED
    BY <2>1, <2>2
<1>5. Cardinality(A) \in Nat /\ Cardinality(B) \in Nat
  BY <1>3, FS_CardinalityType
<1> QED
  BY <1>4, <1>5 DEF NumberOf, Rank

\* Numbers and beginnings of lines are in the same order.
LEMMA LinesAre ==
  ASSUME NEW t \in Seq(Byte)
  PROVE  /\ \A s \in StartsOf(t) : /\ NumberOf(t, s) \in Lines(t)
                                   /\ BeginOf(t, NumberOf(t, s)) = s
         /\ \A n \in Lines(t) : /\ BeginOf(t, n) \in StartsOf(t)
                                /\ NumberOf(t, BeginOf(t, n)) = n
         /\ \A r, s \in StartsOf(t) : r < s <=> NumberOf(t, r) < NumberOf(t, s)
         /\ NumberOf(t, 0) = 1
<1> DEFINE S == StartsOf(t)
<1>1. S \in SUBSET Nat /\ IsFiniteSet(S) /\ 0 \in S /\ Cardinality(S) \in Nat
  BY StartsAre
<1>2. \A s \in S : NumberOf(t, s) = Rank(S, s)
  BY NumberIsRank
<1> HIDE DEF S
<1>3. \A s \in S : Rank(S, s) \in 1..Cardinality(S)
  BY <1>1, RankType
<1>4. /\ \A i \in 1..Cardinality(S) : Nth(S, i) \in S /\ Rank(S, Nth(S, i)) = i
      /\ \A s \in S : Nth(S, Rank(S, s)) = s
  BY <1>1, NthIsOfRank
<1>5. \A r, s \in S : r < s => Rank(S, r) < Rank(S, s)
  BY <1>1, RanksGrow
<1>6. ASSUME NEW r \in S, NEW s \in S PROVE r < s <=> Rank(S, r) < Rank(S, s)
  <2>1. r \in Nat /\ s \in Nat /\ Rank(S, r) \in Nat /\ Rank(S, s) \in Nat
    BY <1>1, <1>3
  <2>2. s < r => Rank(S, s) < Rank(S, r)
    BY <1>5
  <2>3. r < s => Rank(S, r) < Rank(S, s)
    BY <1>5
  <2> QED
    BY <2>1, <2>2, <2>3
<1>7. Rank(S, 0) = 1
  <2>1. \A r \in S : ~(r < 0)
    BY <1>1
  <2>2. {r \in S : r < 0} = {}
    BY <2>1
  <2>3. Cardinality({r \in S : r < 0}) = 0
    BY <2>2, FS_EmptySet
  <2> QED
    BY <2>3 DEF Rank
<1> QED
  BY <1>1, <1>2, <1>3, <1>4, <1>6, <1>7 DEF S, BeginOf, Lines

\* The next line begins where one ends.
LEMMA EndIs ==
  ASSUME NEW t \in Seq(Byte), NEW s \in StartsOf(t)
  PROVE  LET e == EndAt(t, s)
         IN  /\ e \in s..Len(t) /\ (s < e \/ Len(t) = 0)
             /\ \A i \in (s + 1)..(e - 1) : t[i] # Newline
             /\ e = Len(t) \/ e \in Breaks(t)
             /\ e < Len(t) => e \in StartsOf(t) /\ NumberOf(t, e) = NumberOf(t, s) + 1
             /\ e = Len(t) => /\ \A r \in StartsOf(t) : r <= s
                              /\ NumberOf(t, s) = Cardinality(StartsOf(t))
             /\ Multi!NextLineEnd(t, s) = e
<1> DEFINE E == {b \in Breaks(t) : b > s} \cup {Len(t)}
           e == Min(E)
<1>1. /\ \A r : r \in StartsOf(t) <=> r = 0 \/ (r \in Breaks(t) /\ r < Len(t))
      /\ \A r \in StartsOf(t) : r \in 0..Len(t) /\ r \in {0} \cup Breaks(t)
      /\ s \in 0..Len(t) /\ Cardinality(StartsOf(t)) \in Nat
  BY StartsAre
<1>2. Len(t) \in Nat /\ Breaks(t) \in SUBSET (1..Len(t))
  BY TextHas
<1>3. E \in SUBSET Nat /\ E # {} /\ \A x \in E : x \in s..Len(t) /\ (x = Len(t) \/ x > s)
  BY <1>1, <1>2
<1>4. e \in E /\ \A y \in E : e <= y
  BY <1>3, LeastExists
<1>5. e \in s..Len(t) /\ (e = Len(t) \/ (e \in Breaks(t) /\ e > s))
  BY <1>3, <1>4
<1>6. Multi!NextLineEnd(t, s) = e
  <2>1. {i \in (s + 1)..Len(t) : t[i] = Newline} = {b \in Breaks(t) : b > s}
    BY <1>1, <1>2 DEF Breaks
  <2> QED
    BY <2>1 DEF Multi!NextLineEnd, Multi!Min, Min
<1>7. EndAt(t, s) = e
  BY DEF EndAt
<1> HIDE DEF e, E
<1>8. s < e \/ Len(t) = 0
  BY <1>1, <1>2, <1>5
<1>9. ASSUME NEW i \in (s + 1)..(e - 1) PROVE t[i] # Newline
  <2> SUFFICES ASSUME t[i] = Newline PROVE FALSE
    OBVIOUS
  <2>1. i \in 1..Len(t) /\ i > s /\ i < e
    BY <1>1, <1>2, <1>5
  <2>2. i \in E
    BY <2>1 DEF Breaks, E
  <2> QED
    BY <1>2, <1>4, <1>5, <2>1, <2>2
<1>10. ASSUME e < Len(t) PROVE e \in StartsOf(t) /\ NumberOf(t, e) = NumberOf(t, s) + 1
  <2>1. e \in Breaks(t) /\ s < e /\ s \in Nat
    BY <1>1, <1>2, <1>5, <1>10
  <2> QED
    BY <1>1, <1>9, <1>10, <2>1, NextNumber
<1>11. ASSUME e = Len(t)
       PROVE  /\ \A r \in StartsOf(t) : r <= s
              /\ NumberOf(t, s) = Cardinality(StartsOf(t))
  <2>1. ASSUME NEW r \in StartsOf(t) PROVE r <= s
    <3>1. r \in Breaks(t) /\ r < Len(t) => r \notin (s + 1)..(e - 1)
      BY <1>9 DEF Breaks
    <3> QED
      BY <1>1, <1>2, <1>11, <3>1
  <2>2. NumberOf(t, s) \in Lines(t)
    BY LinesAre
  <2>3. ASSUME NumberOf(t, s) # Cardinality(StartsOf(t)) PROVE FALSE
    <3> DEFINE n == Cardinality(StartsOf(t))
    <3>1. n \in Lines(t) /\ NumberOf(t, s) < n
      BY <1>1, <2>2, <2>3 DEF Lines
    <3>2. BeginOf(t, n) \in StartsOf(t) /\ NumberOf(t, BeginOf(t, n)) = n
      BY <3>1, LinesAre
    <3> PICK b \in StartsOf(t) : b = BeginOf(t, n)
      BY <3>2
    <3>3. s < b
      BY <3>1, <3>2, LinesAre
    <3>4. b <= s /\ b \in Nat /\ s \in Nat
      BY <1>1, <1>2, <2>1
    <3> QED
      BY <3>3, <3>4
  <2> QED
    BY <2>1, <2>3
<1> QED
  BY <1>5, <1>6, <1>7, <1>8, <1>9, <1>10, <1>11

\* The line of an offset.
LEMMA LineOfIn ==
  ASSUME NEW t \in Seq(Byte), NEW s \in StartsOf(t), NEW o \in Nat, s <= o,
         EndAt(t, s) = Len(t) \/ o < EndAt(t, s)
  PROVE  LineOf(t, o) = NumberOf(t, s)
<1> DEFINE e == EndAt(t, s)
           A == {b \in Breaks(t) : b <= s}
           B == {b \in Breaks(t) : b <= o}
<1>1. /\ e \in s..Len(t)
      /\ \A i \in (s + 1)..(e - 1) : t[i] # Newline
      /\ e = Len(t) => NumberOf(t, s) = Cardinality(StartsOf(t))
  BY EndIs
<1>2. Len(t) \in Nat /\ Breaks(t) \in SUBSET (1..Len(t)) /\ s \in 0..Len(t)
      /\ Cardinality(StartsOf(t)) \in Nat
  BY TextHas, StartsAre
<1>3. NumberOf(t, s) \in Lines(t)
  BY LinesAre
<1>4. IsFiniteSet(A) /\ IsFiniteSet(B) /\ Cardinality(A) \in Nat /\ Cardinality(B) \in Nat
  BY <1>2, NumberType, FS_CardinalityType
<1>5. NumberOf(t, o) \in Nat
  BY NumberType
<1>6. CASE e = Len(t)
  <2>1. A \in SUBSET B
    BY <1>2
  <2>2. NumberOf(t, s) <= NumberOf(t, o)
    BY <1>4, <2>1, FS_Subset DEF NumberOf
  <2>3. ~(NumberOf(t, o) <= Cardinality(StartsOf(t))) \/ NumberOf(t, o) = NumberOf(t, s)
    BY <1>1, <1>2, <1>5, <1>6, <2>2
  <2> QED
    BY <1>1, <1>2, <1>5, <1>6, <2>3, Smaller DEF LineOf
<1>7. CASE o < e
  <2>1. \A b \in Breaks(t) : b <= o <=> b <= s
    <3> TAKE b \in Breaks(t)
    <3>1. b \notin (s + 1)..(e - 1)
      BY <1>1 DEF Breaks
    <3> QED
      BY <1>1, <1>2, <1>7, <3>1
  <2>2. A = B
    BY <2>1
  <2>3. NumberOf(t, o) = NumberOf(t, s)
    BY <2>2 DEF NumberOf
  <2>4. NumberOf(t, o) <= Cardinality(StartsOf(t))
    BY <1>2, <1>3, <2>3 DEF Lines
  <2> QED
    BY <1>2, <1>5, <2>3, <2>4, Smaller DEF LineOf
<1> QED
  BY <1>6, <1>7

-----------------------------------------------------------------------------
(* The cursor *)

\* The cursor at the line that begins at s.
CursorAt(t, s) == [number |-> NumberOf(t, s), start |-> s, fullEnd |-> EndAt(t, s)]
Cursors(t) == {CursorAt(t, s) : s \in StartsOf(t)}

\* The line of offset o, for a cursor that is not behind it.
Reaches(t, s, o) == EndAt(t, s) = Len(t) \/ o < EndAt(t, s)

\* A turn goes to the next line, until the line of the offset is reached.
LEMMA NextLineIs ==
  ASSUME NEW t \in Seq(Byte), NEW s \in StartsOf(t), NEW o \in Nat
  PROVE  /\ Reaches(t, s, o) => Multi!NextLine(t, CursorAt(t, s), o) = CursorAt(t, s)
         /\ ~Reaches(t, s, o) =>
              \E r \in StartsOf(t) :
                s < r /\ r <= o /\ Multi!NextLine(t, CursorAt(t, s), o) = CursorAt(t, r)
<1> DEFINE e == EndAt(t, s)
           c == CursorAt(t, s)
<1>1. /\ e \in s..Len(t) /\ (s < e \/ Len(t) = 0)
      /\ e < Len(t) => e \in StartsOf(t) /\ NumberOf(t, e) = NumberOf(t, s) + 1
  BY EndIs
<1>2. c.fullEnd = e /\ c.number = NumberOf(t, s)
  BY DEF CursorAt
<1>3. Len(t) \in Nat /\ s \in Nat
  BY StartsAre
<1>4. Multi!NextLine(t, c, o) =
        IF e < Len(t) /\ o >= e
          THEN [number |-> NumberOf(t, s) + 1, start |-> e, fullEnd |-> Multi!NextLineEnd(t, e)]
          ELSE c
  BY <1>2 DEF Multi!NextLine
<1>5. ASSUME Reaches(t, s, o) PROVE Multi!NextLine(t, c, o) = c
  <2>1. ~(e < Len(t) /\ o >= e)
    BY <1>1, <1>3, <1>5 DEF Reaches
  <2> QED
    BY <1>4, <2>1
<1>6. ASSUME ~Reaches(t, s, o)
      PROVE  s < e /\ e <= o /\ e \in StartsOf(t) /\ Multi!NextLine(t, c, o) = CursorAt(t, e)
  <2>1. e < Len(t) /\ o >= e /\ s < e /\ e <= o
    BY <1>1, <1>3, <1>6 DEF Reaches
  <2>2. e \in StartsOf(t) /\ NumberOf(t, e) = NumberOf(t, s) + 1
    BY <1>1, <2>1
  <2>3. Multi!NextLineEnd(t, e) = EndAt(t, e)
    BY <2>2, EndIs
  <2> HIDE DEF e
  <2> QED
    BY <1>4, <2>1, <2>2, <2>3 DEF CursorAt
<1> QED
  BY <1>5, <1>6

\* The cursor after each turn.
LEMMA TurnsAre ==
  ASSUME NEW t \in Seq(Byte), NEW c \in Cursors(t), NEW o \in Nat
  PROVE  LET turn == Multi!Turns(t, c, o)
         IN  /\ turn[0] = c
             /\ \A k \in 1..Len(t) : turn[k] = Multi!NextLine(t, turn[k - 1], o)
<1> DEFINE n == Len(t)
           V == Cursors(t)
           Next1(f) == [k \in 0..n |-> IF k = 0 THEN c ELSE Multi!NextLine(t, f[k - 1], o)]
           turns == CHOOSE f : f = Next1(f)
           next == [k \in 1..n |-> [v \in V |-> Multi!NextLine(t, v, o)]]
<1>1. Multi!Turns(t, c, o) = turns
  BY Zenon DEF Multi!Turns
<1>2. \A v \in V : Multi!NextLine(t, v, o) \in V
  BY NextLineIs DEF Cursors
<1>3. next \in [1..n -> [V -> V]]
  BY <1>2
<1>4. PICK g : AreStates(g, n, V, c, next)
  <2>1. n \in Nat /\ c \in V
    OBVIOUS
  <2> HIDE DEF n, V, next
  <2> QED
    BY <1>3, <2>1, StatesExist
<1> USE DEF AreStates
<1>5. g = Next1(g)
  <2>1. n \in Nat
    OBVIOUS
  <2>2. ASSUME NEW k \in 0..n, k # 0 PROVE g[k] = Multi!NextLine(t, g[k - 1], o)
    <3>1. k \in 1..n /\ k - 1 \in 0..n
      BY <2>1, <2>2
    <3>2. g[k - 1] \in V
      BY <1>4, <3>1
    <3> HIDE DEF V, n
    <3>3. next[k][g[k - 1]] = Multi!NextLine(t, g[k - 1], o)
      BY <3>1, <3>2
    <3> HIDE DEF next
    <3> QED
      BY <1>4, <2>2, <3>3
  <2>3. \A k \in 0..n : g[k] = IF k = 0 THEN c ELSE Multi!NextLine(t, g[k - 1], o)
    BY <1>4, <2>2
  <2> HIDE DEF n, V, next
  <2> QED
    BY <1>4, <2>3
<1>6. turns = Next1(turns)
  <2>1. \E f : f = Next1(f)
    BY <1>5
  <2> HIDE DEF n
  <2> QED
    BY <2>1, Zenon
<1>7. 0 \in 0..n /\ \A k \in 1..n : k \in 0..n /\ k # 0
  OBVIOUS
<1> HIDE DEF turns, n
<1>8. /\ turns[0] = c
      /\ \A k \in 1..n : turns[k] = Multi!NextLine(t, turns[k - 1], o)
  BY <1>6, <1>7
<1> QED
  BY <1>1, <1>8 DEF n

\* advance_to reaches the line of the offset, or stays behind it.
LEMMA AdvanceIs ==
  ASSUME NEW t \in Seq(Byte), NEW s \in StartsOf(t), NEW o \in Nat
  PROVE  \E r \in StartsOf(t) :
           /\ Multi!AdvanceTo(t, CursorAt(t, s), o) = CursorAt(t, r)
           /\ s <= r /\ (r = s \/ r <= o) /\ Reaches(t, r, o)
<1> DEFINE turn == Multi!Turns(t, CursorAt(t, s), o)
           At(k) == \E r \in StartsOf(t) :
                      /\ turn[k] = CursorAt(t, r) /\ s <= r /\ (r = s \/ r <= o)
                      /\ Reaches(t, r, o) \/ r >= k
           G == {k \in Nat : At(k)}
<1>1. /\ turn[0] = CursorAt(t, s)
      /\ \A k \in 1..Len(t) : turn[k] = Multi!NextLine(t, turn[k - 1], o)
  BY TurnsAre DEF Cursors
<1>2. Len(t) \in Nat /\ \A r \in StartsOf(t) : r \in Nat /\ r \in 0..Len(t)
  BY StartsAre
<1> HIDE DEF turn
<1>3. 0 \in G
  BY <1>1, <1>2
<1>4. ASSUME NEW k \in 1..Len(t), k - 1 \in G PROVE k \in G
  <2>1. PICK r \in StartsOf(t) :
          /\ turn[k - 1] = CursorAt(t, r) /\ s <= r /\ (r = s \/ r <= o)
          /\ Reaches(t, r, o) \/ r >= k - 1
    BY <1>4
  <2>2. turn[k] = Multi!NextLine(t, CursorAt(t, r), o)
    BY <1>1, <2>1
  <2>3. CASE Reaches(t, r, o)
    <3>1. turn[k] = CursorAt(t, r)
      BY <2>2, <2>3, NextLineIs
    <3> QED
      BY <2>1, <2>3, <3>1
  <2>4. CASE ~Reaches(t, r, o)
    <3>1. PICK q \in StartsOf(t) : r < q /\ q <= o /\ turn[k] = CursorAt(t, q)
      BY <2>2, <2>4, NextLineIs
    <3>2. s <= q /\ q >= k
      BY <1>2, <2>1, <2>4, <3>1
    <3> QED
      BY <3>1, <3>2
  <2> QED
    BY <2>3, <2>4
<1>5. Len(t) \in G
  <2>1. \A k \in 0..Len(t) : k \in G
    <3> HIDE DEF G
    <3> QED
      BY <1>2, <1>3, <1>4, StepByStep
  <2> QED
    BY <1>2, <2>1
<1>6. PICK r \in StartsOf(t) :
        /\ turn[Len(t)] = CursorAt(t, r) /\ s <= r /\ (r = s \/ r <= o)
        /\ Reaches(t, r, o) \/ r >= Len(t)
  BY <1>5
<1>7. Reaches(t, r, o)
  <2>1. EndAt(t, r) \in r..Len(t)
    BY EndIs
  <2> QED
    BY <1>2, <1>6, <2>1 DEF Reaches
<1> QED
  BY <1>6, <1>7 DEF turn, Multi!AdvanceTo

\* For an offset that is not behind the cursor.
LEMMA AdvanceFinds ==
  ASSUME NEW t \in Seq(Byte), NEW s \in StartsOf(t), NEW o \in Nat, s <= o
  PROVE  \E r \in StartsOf(t) :
           /\ Multi!AdvanceTo(t, CursorAt(t, s), o) = CursorAt(t, r)
           /\ s <= r /\ r <= o /\ Reaches(t, r, o) /\ NumberOf(t, r) = LineOf(t, o)
<1>1. PICK r \in StartsOf(t) :
        /\ Multi!AdvanceTo(t, CursorAt(t, s), o) = CursorAt(t, r)
        /\ s <= r /\ (r = s \/ r <= o) /\ Reaches(t, r, o)
  BY AdvanceIs
<1>2. r <= o
  BY <1>1
<1>3. LineOf(t, o) = NumberOf(t, r)
  BY <1>1, <1>2, LineOfIn DEF Reaches
<1> QED
  BY <1>1, <1>2, <1>3

-----------------------------------------------------------------------------
(* The lines around a line *)

\* The lines between two lines.
LEMMA BetweenAre ==
  ASSUME NEW t \in Seq(Byte), NEW r \in StartsOf(t), NEW s \in StartsOf(t), r < s
  PROVE  Cardinality({q \in StartsOf(t) : r < q /\ q < s}) = NumberOf(t, s) - NumberOf(t, r) - 1
<1> DEFINE S == StartsOf(t)
           A == {q \in S : q < s}
<1>1. S \in SUBSET Nat /\ IsFiniteSet(S)
  BY StartsAre
<1>2. A \in SUBSET Nat /\ IsFiniteSet(A) /\ r \in A
  BY <1>1, FS_Subset
<1>3. Cardinality({q \in A : q > r}) = Cardinality(A) - Rank(A, r)
  BY <1>2, GreaterAreRest
<1>4. {q \in A : q > r} = {q \in S : r < q /\ q < s}
  BY <1>1
<1>5. Cardinality(A) \in Nat /\ Rank(S, s) = Cardinality(A) + 1
  BY <1>2, FS_CardinalityType DEF Rank
<1>6. {q \in A : q < r} = {q \in S : q < r}
  BY <1>1
<1>7. Rank(A, r) = Rank(S, r)
  BY <1>6 DEF Rank
<1>8. NumberOf(t, s) = Rank(S, s) /\ NumberOf(t, r) = Rank(S, r) /\ Rank(S, r) \in Nat
  BY <1>1, NumberIsRank, RankType
<1> DEFINE c == Cardinality({q \in S : r < q /\ q < s})
           a == Cardinality(A)
<1>9. c = a - Rank(A, r)
  BY <1>3, <1>4
<1> HIDE DEF c, a
<1>10. c = NumberOf(t, s) - NumberOf(t, r) - 1
  BY <1>5, <1>7, <1>8, <1>9 DEF a
<1> QED
  BY <1>10 DEF c

\* The lines next to a line, by their numbers.
LEMMA NextToAre ==
  ASSUME NEW t \in Seq(Byte), NEW s \in StartsOf(t), NEW n \in Nat
  PROVE  /\ Preceding(StartsOf(t), s, n) =
              {q \in StartsOf(t) : /\ NumberOf(t, q) < NumberOf(t, s)
                                   /\ NumberOf(t, s) <= NumberOf(t, q) + n}
         /\ Following(StartsOf(t), s, n) =
              {q \in StartsOf(t) : /\ NumberOf(t, s) < NumberOf(t, q)
                                   /\ NumberOf(t, q) <= NumberOf(t, s) + n}
<1>1. StartsOf(t) \in SUBSET Nat /\ \A q \in StartsOf(t) : NumberOf(t, q) \in Nat
  BY StartsAre, NumberType
<1>2. \A q \in StartsOf(t) : /\ q < s <=> NumberOf(t, q) < NumberOf(t, s)
                             /\ q > s <=> NumberOf(t, s) < NumberOf(t, q)
  BY <1>1, LinesAre
<1>3. ASSUME NEW q \in StartsOf(t), q < s
      PROVE  Cardinality({x \in StartsOf(t) : q < x /\ x < s}) < n
               <=> NumberOf(t, s) <= NumberOf(t, q) + n
  <2>1. Cardinality({x \in StartsOf(t) : q < x /\ x < s}) = NumberOf(t, s) - NumberOf(t, q) - 1
    BY <1>3, BetweenAre
  <2> QED
    BY <1>1, <1>3, <2>1
<1>4. ASSUME NEW q \in StartsOf(t), q > s
      PROVE  Cardinality({x \in StartsOf(t) : q > x /\ x > s}) < n
               <=> NumberOf(t, q) <= NumberOf(t, s) + n
  <2>1. Cardinality({x \in StartsOf(t) : s < x /\ x < q}) = NumberOf(t, q) - NumberOf(t, s) - 1
    BY <1>1, <1>4, BetweenAre
  <2>2. \A x \in StartsOf(t) : (q > x /\ x > s) <=> (s < x /\ x < q)
    BY <1>1
  <2>3. {x \in StartsOf(t) : q > x /\ x > s} = {x \in StartsOf(t) : s < x /\ x < q}
    BY <2>2
  <2> DEFINE c == Cardinality({x \in StartsOf(t) : q > x /\ x > s})
  <2>4. c = NumberOf(t, q) - NumberOf(t, s) - 1
    BY <2>1, <2>3
  <2> HIDE DEF c
  <2>5. c < n <=> NumberOf(t, q) <= NumberOf(t, s) + n
    BY <1>1, <2>4
  <2> QED
    BY <2>5 DEF c
<1>5. ASSUME NEW q \in StartsOf(t)
      PROVE  q \in Preceding(StartsOf(t), s, n)
               <=> NumberOf(t, q) < NumberOf(t, s) /\ NumberOf(t, s) <= NumberOf(t, q) + n
  BY <1>2, <1>3, <1>5 DEF Preceding
<1>6. ASSUME NEW q \in StartsOf(t)
      PROVE  q \in Following(StartsOf(t), s, n)
               <=> NumberOf(t, s) < NumberOf(t, q) /\ NumberOf(t, q) <= NumberOf(t, s) + n
  BY <1>2, <1>4, <1>6 DEF Following
<1>7. /\ Preceding(StartsOf(t), s, n) \in SUBSET StartsOf(t)
      /\ Following(StartsOf(t), s, n) \in SUBSET StartsOf(t)
  BY DEF Preceding, Following
<1> QED
  BY <1>5, <1>6, <1>7

\* Context with one more line, at the beginning.
LEMMA ContextPrepends ==
  ASSUME NEW t, NEW S \in SUBSET Nat, IsFiniteSet(S), NEW p \in Nat, \A s \in S : p < s
  PROVE  ContextAt(t, {p} \cup S) = <<Ctx(t, p)>> \o ContextAt(t, S)
<1> DEFINE R == {p} \cup S
           n == Cardinality(S)
           d == ContextAt(t, S)
<1>1. /\ R \in SUBSET Nat /\ p \notin S /\ n \in Nat
      /\ IsFiniteSet(R) /\ Cardinality(R) = n + 1
  <2>1. R = S \cup {p} /\ p \notin S
    OBVIOUS
  <2> QED
    BY <2>1, FS_AddElement, FS_CardinalityType
<1>2. /\ d \in Seq(Contexts(t)) /\ Len(d) = n
      /\ \A s \in S : d[Rank(S, s)] = Ctx(t, s)
  BY ContextHas
<1>3. Ctx(t, p) \in Contexts(t)
  BY DEF Contexts
<1>4. \A s \in S : Rank(R, s) = Rank(S, s) + 1 /\ Rank(S, s) \in 1..n
  <2> TAKE s \in S
  <2> DEFINE B == {r \in S : r < s}
  <2>1. {r \in R : r < s} = B \cup {p} /\ p \notin B
    OBVIOUS
  <2>2. Rank(S, s) \in 1..n
    BY RankType
  <2>3. IsFiniteSet(B)
    BY FS_Subset
  <2>4. Rank(S, s) = Cardinality(B) + 1
    BY DEF Rank
  <2> HIDE DEF B
  <2>5. Cardinality(B) \in Nat /\ Cardinality(B \cup {p}) = Cardinality(B) + 1
    BY <2>1, <2>3, FS_AddElement, FS_CardinalityType
  <2>6. Rank(R, s) = Cardinality(B \cup {p}) + 1
    BY <2>1 DEF Rank
  <2> HIDE DEF R
  <2> QED
    BY <2>2, <2>4, <2>5, <2>6
<1>5. Rank(R, p) = 1
  <2>1. \A r \in R : ~(r < p)
    OBVIOUS
  <2>2. {r \in R : r < p} = {}
    BY <2>1
  <2> QED
    BY <2>2, FS_EmptySet DEF Rank
<1> DEFINE e == <<Ctx(t, p)>> \o d
<1> HIDE DEF R, n, d
<1>6. /\ e \in Seq(Contexts(t)) /\ Len(e) = n + 1 /\ e[1] = Ctx(t, p)
      /\ \A i \in 1..n : e[i + 1] = d[i]
  BY <1>1, <1>2, <1>3
<1> HIDE DEF e
<1>7. \A s \in R : e[Rank(R, s)] = Ctx(t, s)
  <2> TAKE s \in R
  <2>1. CASE s \in S
    <3>1. Rank(R, s) = Rank(S, s) + 1 /\ Rank(S, s) \in 1..n /\ d[Rank(S, s)] = Ctx(t, s)
      BY <1>2, <1>4, <2>1
    <3> QED
      BY <1>6, <3>1
  <2>2. CASE s = p
    BY <1>5, <1>6, <2>2
  <2> QED
    BY <2>1, <2>2 DEF R
<1>8. e = ContextAt(t, R)
  BY <1>1, <1>6, <1>7, ContextIs
<1> QED
  BY <1>8 DEF e, d, R

\* Without its line end, the text of a line is what the line searcher has of it.
LEMMA TrimIs ==
  ASSUME NEW t \in Seq(Byte), NEW p \in StartsOf(t)
  PROVE  LET content == Multi!TrimLineEnd(t, EndAt(t, p))
         IN  /\ content \in p..EndAt(t, p)
             /\ SubSeq(t, p + 1, content) = Stripped(LineAt(t, p))
             /\ \A i \in (p + 1)..content : t[i] # Newline
<1> DEFINE e == EndAt(t, p)
           content == Multi!TrimLineEnd(t, e)
           u == IF e > 0 /\ t[e] = Newline THEN e - 1 ELSE e
<1>1. /\ p \in 0..Len(t) /\ p \in {0} \cup Breaks(t) /\ Len(t) \in Nat
      /\ \A r \in StartsOf(t) : r = 0 \/ (r \in Breaks(t) /\ r < Len(t))
  BY StartsAre, TextHas
<1>2. /\ e \in p..Len(t) /\ (p < e \/ Len(t) = 0)
      /\ \A i \in (p + 1)..(e - 1) : t[i] # Newline
      /\ e = Len(t) \/ e \in Breaks(t)
  BY EndIs
<1>3. PICK f \in (p + 1)..(Len(t) + 1) :
        /\ LineAt(t, p) = SubSeq(t, p + 1, f - 1)
        /\ \A i \in (p + 1)..(f - 1) : t[i] # Newline
        /\ f = Len(t) + 1 \/ f \in Breaks(t)
  BY <1>1, LineEnds
<1>4. p # 0 => t[p] = Newline
  BY <1>1 DEF Breaks
<1>5. content = IF u > 0 /\ t[u] = Return THEN u - 1 ELSE u
  BY DEF Multi!TrimLineEnd
<1> HIDE DEF content
<1>6. f \in Breaks(t) => t[f] = Newline /\ f \in 1..Len(t)
  BY DEF Breaks
<1>7. e \in Breaks(t) => t[e] = Newline /\ e \in 1..Len(t)
  BY DEF Breaks
<1> HIDE DEF e
<1>8. u = f - 1
  <2>1. CASE e > 0 /\ t[e] = Newline
    <3>1. p < e
      BY <1>1, <1>2, <2>1
    <3>2. ~(e \in (p + 1)..(f - 1))
      BY <1>3, <2>1
    <3>3. f <= e
      BY <1>1, <1>2, <3>1, <3>2
    <3>4. f = e
      BY <1>1, <1>2, <1>3, <1>6, <3>3
    <3> QED
      BY <1>1, <1>2, <2>1, <3>4
  <2>2. CASE ~(e > 0 /\ t[e] = Newline)
    <3>1. e = Len(t)
      BY <1>1, <1>2, <1>7, <2>2
    <3>2. \A i \in (p + 1)..Len(t) : t[i] # Newline
      BY <1>1, <1>2, <2>2, <3>1
    <3>3. f \notin Breaks(t)
      BY <1>1, <1>3, <1>6, <3>2
    <3> QED
      BY <1>1, <1>3, <2>2, <3>1, <3>3
  <2> QED
    BY <2>1, <2>2
<1> HIDE DEF u
<1>9. u \in p..Len(t) /\ u \in Nat /\ p \in Nat /\ u <= e
  <2>1. u <= e
    BY <1>1, <1>2 DEF u
  <2> QED
    BY <1>1, <1>2, <1>3, <1>8, <2>1
<1> DEFINE line == SubSeq(t, p + 1, u)
<1>10. line \in Seq(Byte) /\ Len(line) = u - p /\ \A i \in 1..(u - p) : line[i] = t[p + i]
  BY <1>1, <1>9, SubSeqHas
<1>11. LineAt(t, p) = line
  BY <1>1, <1>3, <1>8, <1>9
<1> HIDE DEF line
<1>12. Newline # Return
  BY ByteAssumption
<1>13. CASE u > 0 /\ t[u] = Return
  <2>1. p < u
    BY <1>1, <1>4, <1>9, <1>12, <1>13
  <2>2. line # <<>> /\ Last(line) = Return
    <3>1. u - p \in 1..(u - p) /\ p + (u - p) = u
      BY <1>9, <2>1
    <3>2. line[u - p] = Return
      BY <1>10, <1>13, <3>1
    <3> QED
      BY <1>10, <3>1, <3>2 DEF Last
  <2>3. Stripped(line) = Front(line)
    BY <2>2 DEF Stripped
  <2>4. Front(line) = SubSeq(line, 1, (u - p) - 1)
    BY <1>10 DEF Front
  <2>5. u - 1 \in p..Len(t) /\ (u - 1) - p \in Nat
    BY <1>1, <1>9, <2>1
  <2> DEFINE a == SubSeq(t, p + 1, u - 1)
             b == SubSeq(line, 1, (u - p) - 1)
  <2>6. a \in Seq(Byte) /\ Len(a) = (u - 1) - p /\ \A i \in 1..((u - 1) - p) : a[i] = t[p + i]
    BY <1>1, <2>5, SubSeqHas
  <2>7. b \in Seq(Byte) /\ Len(b) = (u - p) - 1 /\ \A i \in 1..((u - p) - 1) : b[i] = line[i]
    BY <1>9, <1>10, <2>1
  <2> HIDE DEF a, b
  <2>8. a = b
    <3>1. Len(a) = Len(b)
      BY <1>9, <2>6, <2>7
    <3>2. \A i \in 1..Len(a) : a[i] = b[i]
      BY <1>9, <1>10, <2>6, <2>7
    <3> QED
      BY <2>6, <2>7, <3>1, <3>2, SeqEqual
  <2>9. content = u - 1
    BY <1>5, <1>13
  <2>10. content \in p..e /\ \A i \in (p + 1)..content : t[i] # Newline
    BY <1>1, <1>2, <1>3, <1>8, <1>9, <2>1, <2>9
  <2> QED
    BY <1>11, <2>3, <2>4, <2>8, <2>9, <2>10 DEF a, b, e, content
<1>14. CASE ~(u > 0 /\ t[u] = Return)
  <2>1. ~(line # <<>> /\ Last(line) = Return)
    <3> SUFFICES ASSUME line # <<>>, Last(line) = Return PROVE FALSE
      OBVIOUS
    <3>1. Len(line) # 0 /\ Last(line) = line[Len(line)]
      BY <1>10 DEF Last
    <3>2. u - p \in 1..(u - p) /\ p + (u - p) = u /\ u > 0
      BY <1>9, <1>10, <3>1
    <3>3. t[u] = Return
      BY <1>10, <3>1, <3>2
    <3> QED
      BY <1>14, <3>2, <3>3
  <2>2. Stripped(line) = line
    BY <2>1 DEF Stripped
  <2>3. content = u
    BY <1>5, <1>14
  <2>4. content \in p..e /\ \A i \in (p + 1)..content : t[i] # Newline
    BY <1>1, <1>2, <1>3, <1>8, <1>9, <2>3
  <2> QED
    BY <1>11, <2>2, <2>3, <2>4 DEF line, e, content
<1> QED
  BY <1>13, <1>14

-----------------------------------------------------------------------------
(* The context of a block *)

\* The lines from number a to number b.
LinesFrom(t, a, b) == {q \in StartsOf(t) : a <= NumberOf(t, q) /\ NumberOf(t, q) <= b}

\* The state of the loop that goes backwards from line n, and forwards from it, at line m.
BackAt(t, n, m) ==
  [end |-> BeginOf(t, m), number |-> m, lines |-> ContextAt(t, LinesFrom(t, m, n - 1))]
AheadAt(t, n, m) ==
  [start |-> EndAt(t, BeginOf(t, m)), number |-> m,
   lines |-> ContextAt(t, LinesFrom(t, n + 1, m))]

\* Such lines are finitely many numbers.
LEMMA LinesFromType ==
  ASSUME NEW t \in Seq(Byte), NEW a, NEW b
  PROVE  LinesFrom(t, a, b) \in SUBSET Nat /\ IsFiniteSet(LinesFrom(t, a, b))
<1>1. StartsOf(t) \in SUBSET Nat /\ IsFiniteSet(StartsOf(t))
  BY StartsAre
<1>2. LinesFrom(t, a, b) \in SUBSET StartsOf(t)
  BY DEF LinesFrom
<1> QED
  BY <1>1, <1>2, FS_Subset

\* The line after line m - 1.
LEMMA LineAfter ==
  ASSUME NEW t \in Seq(Byte), NEW m \in Lines(t), m > 1
  PROVE  /\ m - 1 \in Lines(t)
         /\ EndAt(t, BeginOf(t, m - 1)) = BeginOf(t, m)
         /\ BeginOf(t, m - 1) < BeginOf(t, m)
<1>1. m - 1 \in Lines(t) /\ m \in Nat
  BY StartsAre DEF Lines
<1> DEFINE p == BeginOf(t, m - 1)
           r == BeginOf(t, m)
<1>2. p \in StartsOf(t) /\ r \in StartsOf(t) /\ NumberOf(t, p) = m - 1 /\ NumberOf(t, r) = m
  BY <1>1, LinesAre
<1> HIDE DEF p, r
<1>3. p < r /\ p \in Nat /\ r \in Nat
  BY <1>1, <1>2, LinesAre, StartsAre
<1>4. /\ EndAt(t, p) \in p..Len(t)
      /\ EndAt(t, p) < Len(t) => EndAt(t, p) \in StartsOf(t)
                                 /\ NumberOf(t, EndAt(t, p)) = NumberOf(t, p) + 1
      /\ EndAt(t, p) = Len(t) => \A q \in StartsOf(t) : q <= p
  BY <1>2, EndIs
<1>5. EndAt(t, p) # Len(t)
  BY <1>2, <1>3, <1>4
<1>6. EndAt(t, p) \in StartsOf(t) /\ NumberOf(t, EndAt(t, p)) = m
  BY <1>1, <1>2, <1>3, <1>4, <1>5, TextHas
<1>7. EndAt(t, p) = r
  BY <1>6, LinesAre DEF r
<1> QED
  BY <1>1, <1>3, <1>7 DEF p, r

\* One turn backwards takes the line before.
LEMMA BackwardIs ==
  ASSUME NEW t \in Seq(Byte), NEW n \in Lines(t), NEW m \in 1..n
  PROVE  Multi!Backward(t, BackAt(t, n, m)) = BackAt(t, n, IF m = 1 THEN 1 ELSE m - 1)
<1> DEFINE b == BackAt(t, n, m)
<1>1. /\ b.end = BeginOf(t, m) /\ b.number = m
      /\ b.lines = ContextAt(t, LinesFrom(t, m, n - 1))
  BY DEF BackAt
<1>2. n \in Nat /\ m \in Lines(t) /\ m \in Nat
  BY StartsAre DEF Lines
<1>3. CASE m = 1
  <2>1. Multi!Backward(t, b) = b
    BY <1>1, <1>3 DEF Multi!Backward
  <2> QED
    BY <1>3, <2>1
<1>4. CASE m # 1
  <2> DEFINE p == BeginOf(t, m - 1)
             content == Multi!TrimLineEnd(t, b.end)
             X == {i \in 1..content : t[i] = Newline} \cup {0}
             line == Multi!Max(X)
             A == LinesFrom(t, m, n - 1)
  <2>1. m - 1 \in Lines(t) /\ EndAt(t, p) = b.end /\ p < b.end /\ m > 1
    BY <1>1, <1>2, <1>4, LineAfter
  <2>2. p \in StartsOf(t) /\ NumberOf(t, p) = m - 1
    BY <2>1, LinesAre
  <2>3. p \in 0..Len(t) /\ p \in {0} \cup Breaks(t) /\ Len(t) \in Nat /\ b.end \in Nat
    <3>1. b.end \in StartsOf(t)
      BY <1>1, <1>2, LinesAre
    <3> QED
      BY <2>2, <3>1, StartsAre, TextHas
  <2>4. /\ content \in p..b.end
        /\ SubSeq(t, p + 1, content) = Stripped(LineAt(t, p))
        /\ \A i \in (p + 1)..content : t[i] # Newline
    BY <2>1, <2>2, TrimIs
  <2>5. line = p
    <3>1. p # 0 => t[p] = Newline
      BY <2>3 DEF Breaks
    <3> HIDE DEF p, content
    <3>2. p \in X /\ X \in SUBSET Nat
      BY <2>3, <2>4, <3>1
    <3>3. \A i \in X : i <= p
      BY <2>3, <2>4
    <3> HIDE DEF X
    <3>4. \E x \in X : \A y \in X : x >= y
      BY <3>2, <3>3
    <3>5. line \in X /\ \A y \in X : line >= y
      BY <3>4 DEF Multi!Max
    <3> HIDE DEF line
    <3> QED
      BY <3>2, <3>3, <3>5
  <2>6. Multi!Backward(t, b) =
          [end |-> p, number |-> m - 1,
           lines |-> <<[number |-> m - 1, text |-> SubSeq(t, p + 1, content)]>> \o b.lines]
    <3>1. ~(b.end = 0 \/ b.number <= 1)
      BY <1>1, <1>2, <1>4, <2>1, <2>3
    <3> HIDE DEF b, p
    <3> QED
      BY <1>1, <2>5, <3>1 DEF Multi!Backward
  <2>7. [number |-> m - 1, text |-> SubSeq(t, p + 1, content)] = Ctx(t, p)
    BY <2>2, <2>4 DEF Ctx
  <2>8. A \in SUBSET Nat /\ IsFiniteSet(A)
    BY LinesFromType
  <2>9. \A q \in StartsOf(t) : NumberOf(t, q) \in Nat
    BY StartsAre, NumberType
  <2>10. \A q \in A : p < q
    <3> HIDE DEF p
    <3> TAKE q \in A
    <3>1. q \in StartsOf(t) /\ m <= NumberOf(t, q)
      BY DEF LinesFrom
    <3> QED
      BY <1>2, <2>2, <2>9, <3>1, LinesAre
  <2>11. {p} \cup A = LinesFrom(t, m - 1, n - 1)
    <3>1. BeginOf(t, m - 1) = p
      OBVIOUS
    <3>2. \A q \in StartsOf(t) : NumberOf(t, q) = m - 1 => q = p
      BY LinesAre
    <3> HIDE DEF p
    <3> QED
      BY <1>2, <2>1, <2>2, <2>9, <3>2 DEF LinesFrom
  <2> HIDE DEF A, p, content, b
  <2>12. <<Ctx(t, p)>> \o b.lines = ContextAt(t, {p} \cup A)
    <3>1. p \in Nat
      BY <2>3
    <3>2. ContextAt(t, {p} \cup A) = <<Ctx(t, p)>> \o ContextAt(t, A)
      BY <2>8, <2>10, <3>1, ContextPrepends
    <3> QED
      BY <1>1, <3>2 DEF A
  <2>13. Multi!Backward(t, b) = BackAt(t, n, m - 1)
    BY <2>6, <2>7, <2>11, <2>12 DEF BackAt, p
  <2> QED
    BY <1>4, <2>13 DEF b
<1> QED
  BY <1>3, <1>4

\* One turn forwards takes the line behind, unless it is the last.
LEMMA ForwardIs ==
  ASSUME NEW t \in Seq(Byte), NEW n \in Lines(t), NEW m \in Lines(t), n <= m
  PROVE  Multi!Forward(t, AheadAt(t, n, m))
           = AheadAt(t, n, IF m = Cardinality(StartsOf(t)) THEN m ELSE m + 1)
<1> DEFINE b == AheadAt(t, n, m)
           r == BeginOf(t, m)
           C == Cardinality(StartsOf(t))
<1>1. /\ b.start = EndAt(t, r) /\ b.number = m
      /\ b.lines = ContextAt(t, LinesFrom(t, n + 1, m))
  BY DEF AheadAt
<1>2. n \in Nat /\ m \in Nat /\ C \in Nat /\ m <= C /\ Len(t) \in Nat
  BY StartsAre, TextHas DEF Lines
<1>3. r \in StartsOf(t) /\ NumberOf(t, r) = m
  BY LinesAre
<1>4. /\ EndAt(t, r) \in r..Len(t)
      /\ EndAt(t, r) < Len(t) => EndAt(t, r) \in StartsOf(t)
                                 /\ NumberOf(t, EndAt(t, r)) = NumberOf(t, r) + 1
      /\ EndAt(t, r) = Len(t) => NumberOf(t, r) = C
  BY <1>3, EndIs
<1>5. r \in Nat
  BY <1>3, StartsAre
<1> HIDE DEF b, C, r
<1>6. CASE m = C
  <2>1. b.start >= Len(t)
    <3> SUFFICES ASSUME ~(b.start >= Len(t)) PROVE FALSE
      OBVIOUS
    <3>1. EndAt(t, r) < Len(t)
      BY <1>1, <1>2, <1>4, <1>5
    <3>2. EndAt(t, r) \in StartsOf(t) /\ NumberOf(t, EndAt(t, r)) = m + 1
      BY <1>3, <1>4, <3>1
    <3>3. m + 1 \in Lines(t)
      BY <3>2, LinesAre
    <3> QED
      BY <1>2, <1>6, <3>3 DEF Lines, C
  <2>2. Multi!Forward(t, b) = b
    BY <2>1 DEF Multi!Forward
  <2> QED
    BY <1>6, <2>2 DEF b, C
<1>7. CASE m # C
  <2> DEFINE p == EndAt(t, r)
             A == LinesFrom(t, n + 1, m)
  <2>1. p < Len(t)
    BY <1>2, <1>3, <1>4, <1>5, <1>7
  <2>2. p \in StartsOf(t) /\ NumberOf(t, p) = m + 1 /\ p = BeginOf(t, m + 1)
    BY <1>3, <1>4, <2>1, LinesAre
  <2>3. /\ SubSeq(t, p + 1, Multi!TrimLineEnd(t, EndAt(t, p))) = Stripped(LineAt(t, p))
        /\ Multi!NextLineEnd(t, p) = EndAt(t, p)
    BY <2>2, TrimIs, EndIs
  <2> HIDE DEF p
  <2>4. ~(p >= Len(t)) /\ b.start = p
    BY <1>1, <1>2, <2>1, <2>2, StartsAre DEF p
  <2>5. Multi!Forward(t, b) =
          [start |-> EndAt(t, p), number |-> m + 1,
           lines |-> Append(b.lines, [number |-> m + 1,
                       text |-> SubSeq(t, p + 1, Multi!TrimLineEnd(t, EndAt(t, p)))])]
    BY <1>1, <2>3, <2>4 DEF Multi!Forward
  <2>6. Multi!Forward(t, b) =
          [start |-> EndAt(t, p), number |-> m + 1, lines |-> Append(b.lines, Ctx(t, p))]
    BY <2>2, <2>3, <2>5 DEF Ctx
  <2>7. A \in SUBSET Nat /\ IsFiniteSet(A) /\ p \in Nat
    BY <2>2, LinesFromType, StartsAre
  <2>8. \A q \in StartsOf(t) : NumberOf(t, q) \in Nat
    BY StartsAre, NumberType
  <2>9. \A q \in A : q < p
    <3> TAKE q \in A
    <3>1. q \in StartsOf(t) /\ NumberOf(t, q) <= m
      BY DEF LinesFrom
    <3> QED
      BY <1>2, <2>2, <2>8, <3>1, LinesAre
  <2>10. A \cup {p} = LinesFrom(t, n + 1, m + 1)
    <3>1. \A q \in StartsOf(t) : NumberOf(t, q) = m + 1 => q = p
      BY <2>2, LinesAre
    <3> QED
      BY <1>2, <2>2, <2>8, <3>1 DEF LinesFrom
  <2> HIDE DEF A
  <2>11. Append(b.lines, Ctx(t, p)) = ContextAt(t, A \cup {p})
    BY <1>1, <2>7, <2>9, ContextGrows DEF A
  <2>12. Multi!Forward(t, b) = AheadAt(t, n, m + 1)
    BY <2>2, <2>6, <2>10, <2>11 DEF AheadAt
  <2> QED
    BY <1>7, <2>12 DEF b, C
<1> QED
  BY <1>6, <1>7

\* The lines before a block are those next to its first.
LEMMA BeforeIs ==
  ASSUME NEW t \in Seq(Byte), NEW s \in StartsOf(t), NEW count \in Nat
  PROVE  Multi!ContextBefore(t, s, NumberOf(t, s), count)
           = ContextAt(t, Preceding(StartsOf(t), s, count))
<1> DEFINE n == NumberOf(t, s)
           first == [end |-> s, number |-> n, lines |-> <<>>]
           At(k) == BackAt(t, n, IF k < n THEN n - k ELSE 1)
           g == [k \in 0..count |-> At(k)]
           Next1(f) == [k \in 0..count |-> IF k = 0 THEN first ELSE Multi!Backward(t, f[k - 1])]
           turns == CHOOSE f : f = Next1(f)
<1>1. Multi!LinesBefore(t, s, n, count) = turns
  BY Zenon DEF Multi!LinesBefore
<1>2. n \in Lines(t) /\ BeginOf(t, n) = s
  BY LinesAre
<1>3. n \in Nat /\ n >= 1
  BY <1>2, StartsAre DEF Lines
<1> HIDE DEF n
<1>4. first = At(0)
  <2>1. LinesFrom(t, n, n - 1) = {}
    <3>1. \A q \in StartsOf(t) : NumberOf(t, q) \in Nat
      BY StartsAre, NumberType
    <3> QED
      BY <1>3, <3>1 DEF LinesFrom
  <2>2. At(0) = BackAt(t, n, n)
    BY <1>3
  <2> QED
    BY <1>2, <2>1, <2>2, NoContext DEF BackAt
<1>5. ASSUME NEW k \in 1..count PROVE At(k) = Multi!Backward(t, At(k - 1))
  <2> DEFINE m == IF k - 1 < n THEN n - (k - 1) ELSE 1
  <2>1. m \in 1..n
    BY <1>3
  <2>2. (IF m = 1 THEN 1 ELSE m - 1) = IF k < n THEN n - k ELSE 1
    BY <1>3
  <2> HIDE DEF m
  <2>3. Multi!Backward(t, BackAt(t, n, m)) = BackAt(t, n, IF m = 1 THEN 1 ELSE m - 1)
    BY <1>2, <2>1, BackwardIs
  <2> QED
    BY <2>2, <2>3 DEF m
<1> HIDE DEF At, first
<1>6. g = Next1(g)
  <2>1. \A k \in 0..count : k # 0 => k \in 1..count /\ k - 1 \in 0..count
    OBVIOUS
  <2>2. \A k \in 0..count : g[k] = IF k = 0 THEN first ELSE Multi!Backward(t, g[k - 1])
    BY <1>4, <1>5, <2>1
  <2> QED
    BY <2>2
<1>7. ASSUME NEW f, f = Next1(f) PROVE \A k \in 0..count : f[k] = g[k]
  <2> DEFINE G == {k \in 0..count : f[k] = g[k]}
  <2>1. 0 \in G
    BY <1>4, <1>7
  <2>2. ASSUME NEW k \in 1..count, k - 1 \in G PROVE k \in G
    <3>1. k \in 0..count /\ k # 0 /\ k - 1 \in 0..count
      BY <2>2
    <3>2. f[k] = Multi!Backward(t, f[k - 1])
      BY <1>7, <3>1
    <3>3. f[k - 1] = At(k - 1) /\ g[k] = At(k)
      BY <2>2, <3>1
    <3> HIDE DEF g
    <3> QED
      BY <1>5, <3>1, <3>2, <3>3
  <2> HIDE DEF G
  <2>3. \A k \in 0..count : k \in G
    BY <2>1, <2>2, StepByStep
  <2> QED
    BY <2>3 DEF G
<1>8. turns = Next1(turns)
  <2>1. \E f : f = Next1(f)
    BY <1>6
  <2> QED
    BY <2>1, Zenon
<1> HIDE DEF turns
<1>9. turns[count] = At(count)
  BY <1>7, <1>8
<1> HIDE DEF g
<1>10. Multi!ContextBefore(t, s, n, count) = At(count).lines
  BY <1>1, <1>9 DEF Multi!ContextBefore
<1>11. At(count).lines = ContextAt(t, LinesFrom(t, IF count < n THEN n - count ELSE 1, n - 1))
  BY DEF At, BackAt
<1>12. LinesFrom(t, IF count < n THEN n - count ELSE 1, n - 1) = Preceding(StartsOf(t), s, count)
  <2>1. \A q \in StartsOf(t) : NumberOf(t, q) \in Nat \ {0}
    BY StartsAre, NumberType
  <2>2. Preceding(StartsOf(t), s, count)
          = {q \in StartsOf(t) : NumberOf(t, q) < n /\ n <= NumberOf(t, q) + count}
    BY NextToAre DEF n
  <2> QED
    BY <1>3, <2>1, <2>2 DEF LinesFrom
<1> QED
  BY <1>10, <1>11, <1>12 DEF n

\* The lines behind a block are those next to its last.
LEMMA AfterIs ==
  ASSUME NEW t \in Seq(Byte), NEW s \in StartsOf(t), NEW count \in Nat
  PROVE  Multi!ContextAfter(t, EndAt(t, s), NumberOf(t, s), count)
           = ContextAt(t, Following(StartsOf(t), s, count))
<1> DEFINE n == NumberOf(t, s)
           C == Cardinality(StartsOf(t))
           first == [start |-> EndAt(t, s), number |-> n, lines |-> <<>>]
           At(k) == AheadAt(t, n, IF n + k < C THEN n + k ELSE C)
           g == [k \in 0..count |-> At(k)]
           Next1(f) == [k \in 0..count |-> IF k = 0 THEN first ELSE Multi!Forward(t, f[k - 1])]
           turns == CHOOSE f : f = Next1(f)
<1>1. Multi!LinesAfter(t, EndAt(t, s), n, count) = turns
  BY Zenon DEF Multi!LinesAfter
<1>2. n \in Lines(t) /\ BeginOf(t, n) = s
  BY LinesAre
<1>3. n \in Nat /\ n >= 1 /\ C \in Nat /\ n <= C /\ Lines(t) = 1..C
  BY <1>2, StartsAre DEF Lines
<1> HIDE DEF n, C
<1>4. first = At(0)
  <2>1. LinesFrom(t, n + 1, n) = {}
    <3>1. \A q \in StartsOf(t) : NumberOf(t, q) \in Nat
      BY StartsAre, NumberType
    <3> QED
      BY <1>3, <3>1 DEF LinesFrom
  <2>2. At(0) = AheadAt(t, n, n)
    BY <1>3
  <2> QED
    BY <1>2, <2>1, <2>2, NoContext DEF AheadAt
<1>5. ASSUME NEW k \in 1..count PROVE At(k) = Multi!Forward(t, At(k - 1))
  <2> DEFINE m == IF n + (k - 1) < C THEN n + (k - 1) ELSE C
  <2>1. m \in Lines(t) /\ n <= m
    BY <1>3
  <2>2. (IF m = C THEN m ELSE m + 1) = IF n + k < C THEN n + k ELSE C
    BY <1>3
  <2> HIDE DEF m
  <2>3. Multi!Forward(t, AheadAt(t, n, m)) = AheadAt(t, n, IF m = C THEN m ELSE m + 1)
    BY <1>2, <2>1, ForwardIs DEF C
  <2> QED
    BY <2>2, <2>3 DEF m
<1> HIDE DEF At, first
<1>6. g = Next1(g)
  <2>1. \A k \in 0..count : k # 0 => k \in 1..count /\ k - 1 \in 0..count
    OBVIOUS
  <2>2. \A k \in 0..count : g[k] = IF k = 0 THEN first ELSE Multi!Forward(t, g[k - 1])
    BY <1>4, <1>5, <2>1
  <2> QED
    BY <2>2
<1>7. ASSUME NEW f, f = Next1(f) PROVE \A k \in 0..count : f[k] = g[k]
  <2> DEFINE G == {k \in 0..count : f[k] = g[k]}
  <2>1. 0 \in G
    BY <1>4, <1>7
  <2>2. ASSUME NEW k \in 1..count, k - 1 \in G PROVE k \in G
    <3>1. k \in 0..count /\ k # 0 /\ k - 1 \in 0..count
      BY <2>2
    <3>2. f[k] = Multi!Forward(t, f[k - 1])
      BY <1>7, <3>1
    <3>3. f[k - 1] = At(k - 1) /\ g[k] = At(k)
      BY <2>2, <3>1
    <3> HIDE DEF g
    <3> QED
      BY <1>5, <3>1, <3>2, <3>3
  <2> HIDE DEF G
  <2>3. \A k \in 0..count : k \in G
    BY <2>1, <2>2, StepByStep
  <2> QED
    BY <2>3 DEF G
<1>8. turns = Next1(turns)
  <2>1. \E f : f = Next1(f)
    BY <1>6
  <2> QED
    BY <2>1, Zenon
<1> HIDE DEF turns
<1>9. turns[count] = At(count)
  BY <1>7, <1>8
<1> HIDE DEF g
<1>10. Multi!ContextAfter(t, EndAt(t, s), n, count) = At(count).lines
  BY <1>1, <1>9 DEF Multi!ContextAfter
<1>11. At(count).lines = ContextAt(t, LinesFrom(t, n + 1, IF n + count < C THEN n + count ELSE C))
  BY DEF At, AheadAt
<1>12. LinesFrom(t, n + 1, IF n + count < C THEN n + count ELSE C)
         = Following(StartsOf(t), s, count)
  <2>1. \A q \in StartsOf(t) : NumberOf(t, q) \in 1..C
    BY <1>3, LinesAre
  <2>2. Following(StartsOf(t), s, count)
          = {q \in StartsOf(t) : n < NumberOf(t, q) /\ NumberOf(t, q) <= n + count}
    BY NextToAre DEF n
  <2> QED
    BY <1>3, <2>1, <2>2 DEF LinesFrom
<1> QED
  BY <1>10, <1>11, <1>12 DEF n

-----------------------------------------------------------------------------
(* The lines of a match *)

\* The byte whose line is the last of a match, and the first and last line of a match.
LastByte(s) == Max({s.start, s.end - 1})
FirstLine(t, s) == LineOf(t, s.start)
LastLineOf(t, s) == LineOf(t, LastByte(s))

\* The matches of a text are in order.
AreSpans(t, l) ==
  /\ l \in Seq(SpansOf(t)) /\ \A i \in 1..Len(l) : l[i].start <= l[i].end
  /\ \A i \in 2..Len(l) : l[i].start >= l[i - 1].end

\* The larger of two numbers, by both definitions of Max.
LEMMA LargerOfTwo ==
  ASSUME NEW a \in Int, NEW b \in Int
  PROVE  /\ Max({a, b}) = IF a >= b THEN a ELSE b
         /\ Multi!Max({a, b}) = IF a >= b THEN a ELSE b
<1> DEFINE m == IF a >= b THEN a ELSE b
<1>1. m \in {a, b} /\ \A y \in {a, b} : m >= y
  OBVIOUS
<1>2. \A x \in {a, b} : (\A y \in {a, b} : x >= y) => x = m
  OBVIOUS
<1> HIDE DEF m
<1>3. Max({a, b}) = m
  BY <1>1, <1>2 DEF Max
<1>4. Multi!Max({a, b}) = m
  BY <1>1, <1>2 DEF Multi!Max
<1> QED
  BY <1>3, <1>4 DEF m

\* The last byte of a match, or its position if it is empty, is in the text.
LEMMA LastByteIs ==
  ASSUME NEW t \in Seq(Byte), NEW s \in SpansOf(t), s.start <= s.end
  PROVE  /\ s.start \in 0..Len(t) /\ s.end \in 0..Len(t) /\ Len(t) \in Nat
         /\ LastByte(s) = IF s.start = s.end THEN s.start ELSE s.end - 1
         /\ Multi!Max({s.start, s.end - 1}) = LastByte(s)
         /\ LastByte(s) \in Nat /\ s.start <= LastByte(s) /\ LastByte(s) <= s.end
<1>1. s.start \in 0..Len(t) /\ s.end \in 0..Len(t) /\ Len(t) \in Nat
  BY DEF SpansOf
<1>2. s.start \in Int /\ s.end - 1 \in Int
  BY <1>1
<1>3. /\ LastByte(s) = IF s.start >= s.end - 1 THEN s.start ELSE s.end - 1
      /\ Multi!Max({s.start, s.end - 1}) = LastByte(s)
  BY <1>2, LargerOfTwo DEF LastByte
<1> QED
  BY <1>1, <1>3

\* The line of an offset is the last that begins there or before it.
LEMMA LineOfIs ==
  ASSUME NEW t \in Seq(Byte), NEW o \in Nat
  PROVE  LET r == BeginOf(t, LineOf(t, o))
         IN  /\ r \in StartsOf(t) /\ r <= o /\ Reaches(t, r, o)
             /\ NumberOf(t, r) = LineOf(t, o) /\ LineOf(t, o) \in Lines(t)
<1>1. 0 \in StartsOf(t) /\ 0 <= o
  BY StartsAre
<1>2. PICK r \in StartsOf(t) : r <= o /\ Reaches(t, r, o) /\ NumberOf(t, r) = LineOf(t, o)
  BY <1>1, AdvanceFinds
<1>3. BeginOf(t, LineOf(t, o)) = r /\ LineOf(t, o) \in Lines(t)
  BY <1>2, LinesAre
<1> QED
  BY <1>2, <1>3

\* The cursor goes to the line of an offset that is not behind it.
LEMMA AdvanceGoes ==
  ASSUME NEW t \in Seq(Byte), NEW s \in StartsOf(t), NEW o \in Nat, s <= o
  PROVE  /\ Multi!AdvanceTo(t, CursorAt(t, s), o) = CursorAt(t, BeginOf(t, LineOf(t, o)))
         /\ NumberOf(t, s) <= LineOf(t, o)
<1>1. PICK r \in StartsOf(t) :
        /\ Multi!AdvanceTo(t, CursorAt(t, s), o) = CursorAt(t, r)
        /\ s <= r /\ NumberOf(t, r) = LineOf(t, o)
  BY AdvanceFinds
<1>2. BeginOf(t, LineOf(t, o)) = r
  BY <1>1, LinesAre
<1>3. NumberOf(t, s) \in Nat /\ NumberOf(t, r) \in Nat /\ s \in Nat /\ r \in Nat
  BY StartsAre, NumberType
<1>4. NumberOf(t, s) <= NumberOf(t, r)
  BY <1>1, <1>3, LinesAre
<1> QED
  BY <1>1, <1>2, <1>4

\* Lines follow the order of offsets.
LEMMA LinesInOrder ==
  ASSUME NEW t \in Seq(Byte), NEW a \in Nat, NEW b \in Nat, a <= b
  PROVE  LineOf(t, a) <= LineOf(t, b)
<1>1. LET r == BeginOf(t, LineOf(t, a))
      IN  r \in StartsOf(t) /\ r <= a /\ NumberOf(t, r) = LineOf(t, a)
  BY LineOfIs
<1>2. PICK r \in StartsOf(t) : r <= a /\ NumberOf(t, r) = LineOf(t, a)
  BY <1>1
<1>3. r <= b
  BY <1>2, StartsAre
<1>4. NumberOf(t, r) <= LineOf(t, b)
  BY <1>3, AdvanceGoes
<1> QED
  BY <1>2, <1>4

\* Every match has lines, which come no earlier than those of the match before.
LEMMA SpansInOrder ==
  ASSUME NEW t \in Seq(Byte), NEW l, AreSpans(t, l)
  PROVE  /\ \A i \in 1..Len(l) : /\ FirstLine(t, l[i]) \in Lines(t)
                                 /\ LastLineOf(t, l[i]) \in Lines(t)
                                 /\ FirstLine(t, l[i]) <= LastLineOf(t, l[i])
         /\ \A i, j \in 1..Len(l) : i < j =>
              /\ LastByte(l[i]) <= l[j].start
              /\ LastLineOf(t, l[i]) <= FirstLine(t, l[j])
<1>1. Len(l) \in Nat /\ \A i \in 1..Len(l) : l[i] \in SpansOf(t) /\ l[i].start <= l[i].end
  BY DEF AreSpans
<1>2. \A i \in 1..Len(l) : /\ l[i].start \in 0..Len(t) /\ l[i].end \in 0..Len(t)
                           /\ Len(t) \in Nat /\ LastByte(l[i]) \in Nat
                           /\ l[i].start <= LastByte(l[i]) /\ LastByte(l[i]) <= l[i].end
  BY <1>1, LastByteIs
<1>3. ASSUME NEW i \in 1..Len(l)
      PROVE  /\ FirstLine(t, l[i]) \in Lines(t) /\ LastLineOf(t, l[i]) \in Lines(t)
             /\ FirstLine(t, l[i]) <= LastLineOf(t, l[i])
  BY <1>2, LineOfIs, LinesInOrder DEF FirstLine, LastLineOf
<1>4. ASSUME NEW i \in 1..Len(l), NEW j \in 1..Len(l), i < j
      PROVE  LastByte(l[i]) <= l[j].start
  <2> DEFINE G == {k \in 0..Len(l) : i < k => l[i].end <= l[k].start}
  <2>1. 0 \in G
    BY <1>1
  <2>2. ASSUME NEW k \in 1..Len(l), k - 1 \in G PROVE k \in G
    <3> SUFFICES ASSUME i < k PROVE l[i].end <= l[k].start
      BY <1>1
    <3>1. k \in 2..Len(l) /\ k - 1 \in 1..Len(l)
      BY <1>1
    <3>2. l[k].start >= l[k - 1].end
      BY <3>1 DEF AreSpans
    <3> DEFINE q == k - 1
    <3>3. l[q].start \in Int /\ l[q].end \in Int /\ l[q].start <= l[q].end /\ l[i].end \in Int
      <4>1. q \in 1..Len(l)
        BY <3>1
      <4> HIDE DEF q
      <4> QED
        BY <1>1, <1>2, <4>1
    <3>4. l[k].start \in Int /\ l[k].start >= l[q].end
      BY <1>2, <3>2
    <3>5. i < q => l[i].end <= l[q].start
      BY <2>2
    <3>6. i = q \/ i < q
      BY <1>1
    <3> HIDE DEF q
    <3>7. l[i].end <= l[q].end
      BY <3>3, <3>5, <3>6
    <3> QED
      BY <3>3, <3>4, <3>7
  <2> HIDE DEF G
  <2>3. \A k \in 0..Len(l) : k \in G
    BY <1>1, <2>1, <2>2, StepByStep
  <2>4. l[i].end <= l[j].start
    BY <1>1, <1>4, <2>3 DEF G
  <2> QED
    BY <1>2, <2>4
<1>5. ASSUME NEW i \in 1..Len(l), NEW j \in 1..Len(l), i < j
      PROVE  LastLineOf(t, l[i]) <= FirstLine(t, l[j])
  BY <1>2, <1>4, <1>5, LinesInOrder DEF FirstLine, LastLineOf
<1> QED
  BY <1>3, <1>4, <1>5

-----------------------------------------------------------------------------
(* Lists *)

\* A list of n members.
IsList(b, n) == b = [m \in 1..n |-> b[m]]

\* Another member at the end of a list, and another instead of its last.
LEMMA ListGrows ==
  ASSUME NEW n \in Nat, NEW b, IsList(b, n), NEW e
  PROVE  /\ Append(b, e) = [m \in 1..(n + 1) |-> IF m = n + 1 THEN e ELSE b[m]]
         /\ n > 0 => /\ b # <<>> /\ Multi!Last(b) = b[n]
                     /\ Append(Multi!Front(b), e) = [m \in 1..n |-> IF m = n THEN e ELSE b[m]]
         /\ n = 0 => b = <<>>
<1> DEFINE V == {b[m] : m \in 1..n} \cup {e}
           c == [m \in 1..(n + 1) |-> IF m = n + 1 THEN e ELSE b[m]]
           d == [m \in 1..n |-> IF m = n THEN e ELSE b[m]]
<1>1. b \in Seq(V) /\ Len(b) = n /\ e \in V /\ \A m \in 1..n : b[m] \in V
  <2>1. e \in V /\ \A m \in 1..n : b[m] \in V
    OBVIOUS
  <2> DEFINE a == [m \in 1..n |-> b[m]]
  <2> HIDE DEF V
  <2>2. a \in Seq(V) /\ Len(a) = n
    BY <2>1
  <2> HIDE DEF a
  <2>3. a = b
    BY DEF a, IsList
  <2> QED
    BY <2>1, <2>2, <2>3
<1> HIDE DEF V
<1>2. Append(b, e) = c
  <2>1. c \in Seq(V) /\ Len(c) = n + 1
    <3> DEFINE k == n + 1
               x(m) == IF m = k THEN e ELSE b[m]
    <3>1. k \in Nat /\ \A m \in 1..k : x(m) \in V
      BY <1>1
    <3> HIDE DEF k, x
    <3>2. [m \in 1..k |-> x(m)] \in Seq(V) /\ Len([m \in 1..k |-> x(m)]) = k
      BY <3>1
    <3> QED
      BY <3>2 DEF k, x
  <2>2. Append(b, e) \in Seq(V) /\ Len(Append(b, e)) = n + 1
    BY <1>1
  <2>3. \A i \in 1..(n + 1) : Append(b, e)[i] = c[i]
    BY <1>1
  <2> HIDE DEF c
  <2> QED
    BY <2>1, <2>2, <2>3, SeqEqual
<1>3. ASSUME n > 0
      PROVE  b # <<>> /\ Multi!Last(b) = b[n] /\ Append(Multi!Front(b), e) = d
  <2>1. b # <<>> /\ Multi!Last(b) = b[n]
    BY <1>1, <1>3 DEF Multi!Last
  <2> DEFINE a == SubSeq(b, 1, n - 1)
  <2>2. Multi!Front(b) = a
    BY <1>1 DEF Multi!Front
  <2>3. a \in Seq(V) /\ Len(a) = n - 1 /\ \A i \in 1..(n - 1) : a[i] = b[i]
    BY <1>1, <1>3
  <2> HIDE DEF a
  <2>4. d \in Seq(V) /\ Len(d) = n
    BY <1>1
  <2>5. Append(a, e) \in Seq(V) /\ Len(Append(a, e)) = n
    BY <1>1, <1>3, <2>3
  <2>6. \A i \in 1..n : Append(a, e)[i] = d[i]
    BY <1>1, <2>3
  <2> HIDE DEF d
  <2>7. Append(a, e) = d
    BY <2>4, <2>5, <2>6, SeqEqual
  <2> QED
    BY <2>1, <2>2, <2>7 DEF d
<1>4. n = 0 => b = <<>>
  BY <1>1
<1> QED
  BY <1>2, <1>3, <1>4

\* The members of a set keep their places when one behind them is added.
LEMMA NthStays ==
  ASSUME NEW S \in SUBSET Nat, IsFiniteSet(S), NEW p \in Nat, \A s \in S : s < p
  PROVE  LET n == Cardinality(S)
         IN  /\ n \in Nat /\ IsFiniteSet(S \cup {p}) /\ Cardinality(S \cup {p}) = n + 1
             /\ \A i \in 1..n : Nth(S \cup {p}, i) = Nth(S, i) /\ Nth(S, i) \in S
             /\ Nth(S \cup {p}, n + 1) = p
<1> DEFINE R == S \cup {p}
           n == Cardinality(S)
<1>1. /\ R \in SUBSET Nat /\ p \notin S /\ n \in Nat /\ p \in R
      /\ IsFiniteSet(R) /\ Cardinality(R) = n + 1
  BY FS_AddElement, FS_CardinalityType
<1>2. ASSUME NEW s \in S PROVE Rank(R, s) = Rank(S, s) /\ s \in R
  <2>1. {r \in R : r < s} = {r \in S : r < s}
    OBVIOUS
  <2> QED
    BY <2>1 DEF Rank
<1>3. Rank(R, p) = n + 1
  <2>1. \A r \in R : r < p <=> r \in S
    OBVIOUS
  <2>2. {r \in R : r < p} = S
    BY <2>1
  <2> QED
    BY <2>2 DEF Rank
<1> HIDE DEF R
<1>4. \A i \in 1..n : Nth(S, i) \in S /\ Rank(S, Nth(S, i)) = i
  BY NthIsOfRank
<1>5. \A s \in R : Nth(R, Rank(R, s)) = s
  BY <1>1, NthIsOfRank
<1>6. \A i \in 1..n : Nth(R, i) = Nth(S, i) /\ Nth(S, i) \in S
  BY <1>2, <1>4, <1>5
<1>7. Nth(R, n + 1) = p
  BY <1>1, <1>3, <1>5
<1> QED
  BY <1>1, <1>6, <1>7 DEF R

-----------------------------------------------------------------------------
(* Blocks of matches *)

\* The matches among the first k that begin a block, and the last match of block m.
Begins(t, l, k) == {i \in 1..k : i = 1 \/ LastLineOf(t, l[i - 1]) < FirstLine(t, l[i])}
From(t, l, k, m) == Nth(Begins(t, l, k), m)
To(t, l, k, m) ==
  IF m = Cardinality(Begins(t, l, k)) THEN k ELSE Nth(Begins(t, l, k), m + 1) - 1

\* The block of matches i to j, the blocks of the first k, and the state after them.
BlockOver(t, l, i, j) ==
  [startLine |-> FirstLine(t, l[i]), endLine |-> LastLineOf(t, l[j]),
   startByte |-> BeginOf(t, FirstLine(t, l[i])),
   endByte |-> EndAt(t, BeginOf(t, LastLineOf(t, l[j]))),
   spans |-> SubSeq(l, i, j)]
BlocksAt(t, l, k) ==
  [m \in 1..Cardinality(Begins(t, l, k)) |->
     BlockOver(t, l, From(t, l, k, m), To(t, l, k, m))]
StateAt(t, l, k) ==
  [cursor |-> CursorAt(t, IF k = 0 THEN 0 ELSE BeginOf(t, LastLineOf(t, l[k]))),
   blocks |-> BlocksAt(t, l, k)]

\* A match either begins a block or goes to the block of the match before.
LEMMA BeginsGrow ==
  ASSUME NEW t, NEW l \in Seq(SpansOf(t)), NEW k \in 0..Len(l)
  PROVE  /\ Begins(t, l, k) \in SUBSET Nat /\ IsFiniteSet(Begins(t, l, k))
         /\ Cardinality(Begins(t, l, k)) \in Nat
         /\ \A i \in Begins(t, l, k) : i \in 1..k
         /\ Cardinality(Begins(t, l, k)) = 0 <=> k = 0
         /\ k # 0 => Begins(t, l, k) = Begins(t, l, k - 1) \cup
              IF k = 1 \/ LastLineOf(t, l[k - 1]) < FirstLine(t, l[k]) THEN {k} ELSE {}
<1> DEFINE B == Begins(t, l, k)
<1>1. Len(l) \in Nat /\ k \in Nat
  OBVIOUS
<1>2. B \in SUBSET (1..k)
  BY DEF Begins
<1>3. B \in SUBSET Nat /\ IsFiniteSet(B)
  <2>1. IsFiniteSet(1..k)
    BY <1>1, FS_Interval
  <2> QED
    BY <1>1, <1>2, <2>1, FS_Subset
<1>4. k = 0 => B = {}
  BY <1>2
<1>5. k # 0 => 1 \in B
  BY <1>1 DEF Begins
<1>6. Cardinality(B) \in Nat /\ (Cardinality(B) = 0 <=> k = 0)
  BY <1>3, <1>4, <1>5, FS_CardinalityType, FS_EmptySet
<1>7. ASSUME k # 0
      PROVE  B = Begins(t, l, k - 1) \cup
               IF k = 1 \/ LastLineOf(t, l[k - 1]) < FirstLine(t, l[k]) THEN {k} ELSE {}
  <2>1. \A i : i \in 1..k <=> i \in 1..(k - 1) \/ i = k
    BY <1>1, <1>7
  <2> QED
    BY <2>1 DEF Begins
<1> QED
  BY <1>2, <1>3, <1>6, <1>7

\* Where the blocks of the first matches begin and end.
LEMMA PartsAre ==
  ASSUME NEW t, NEW l \in Seq(SpansOf(t)), NEW k \in 0..Len(l),
         NEW m \in 1..Cardinality(Begins(t, l, k))
  PROVE  LET n == Cardinality(Begins(t, l, k))
             i == From(t, l, k, m)
             j == To(t, l, k, m)
         IN  /\ i \in 1..k /\ j \in i..k /\ i \in Begins(t, l, k)
             /\ m < n => From(t, l, k, m + 1) = j + 1 /\ j + 1 \in Begins(t, l, k)
             /\ m = n => j = k
             /\ m = 1 => i = 1
             /\ \A x \in (i + 1)..j : x \notin Begins(t, l, k)
<1> DEFINE B == Begins(t, l, k)
           n == Cardinality(B)
           i == From(t, l, k, m)
           j == To(t, l, k, m)
           r == Nth(B, m + 1)
<1>1. B \in SUBSET Nat /\ IsFiniteSet(B) /\ n \in Nat /\ \A x \in B : x \in 1..k
  BY BeginsGrow
<1>2. i = Nth(B, m) /\ j = IF m = n THEN k ELSE r - 1
  BY DEF From, To
<1>3. k \in Nat /\ k # 0 => 1 \in B
  BY DEF Begins
<1> HIDE DEF B, i, j, n, r
<1>4. /\ \A x \in 1..n : Nth(B, x) \in B /\ Rank(B, Nth(B, x)) = x
      /\ \A s \in B : Nth(B, Rank(B, s)) = s /\ Rank(B, s) \in 1..n
  BY <1>1, NthIsOfRank, RankType DEF n
<1>5. \A r1, s \in B : r1 < s => Rank(B, r1) < Rank(B, s)
  BY <1>1, RanksGrow
<1>6. m \in 1..n /\ i \in B /\ Rank(B, i) = m /\ i \in 1..k /\ i \in Nat /\ k \in Nat
  BY <1>1, <1>2, <1>4 DEF n, B
<1>7. ASSUME NEW x \in B, NEW y \in B, Rank(B, x) < Rank(B, y) PROVE x < y
  <2>1. x \in Nat /\ y \in Nat /\ Rank(B, x) \in Nat /\ Rank(B, y) \in Nat
    BY <1>1, <1>4
  <2>2. ~(y < x) /\ x # y
    BY <1>5, <1>7, <2>1
  <2> QED
    BY <2>1, <2>2
<1>8. m < n => r \in B /\ Rank(B, r) = m + 1 /\ i < r /\ r \in 1..k /\ r \in Nat
  <2> SUFFICES ASSUME m < n PROVE r \in B /\ Rank(B, r) = m + 1 /\ i < r /\ r \in 1..k /\ r \in Nat
    OBVIOUS
  <2>1. m + 1 \in 1..n /\ m < m + 1
    BY <1>1, <1>6
  <2>2. r \in B /\ Rank(B, r) = m + 1
    BY <1>4, <2>1 DEF r
  <2> QED
    BY <1>1, <1>6, <1>7, <2>1, <2>2
<1>9. m = n \/ m < n
  BY <1>1, <1>6
<1>10. j \in i..k /\ (m < n => j + 1 = r)
  BY <1>2, <1>6, <1>8, <1>9
<1>11. m = 1 => i = 1
  <2> SUFFICES ASSUME m = 1, i # 1 PROVE FALSE
    OBVIOUS
  <2>1. 1 \in B /\ 1 < i
    BY <1>3, <1>6
  <2>2. Rank(B, 1) < 1 /\ Rank(B, 1) \in 1..n
    BY <1>4, <1>5, <1>6, <2>1
  <2> QED
    BY <2>2
<1>12. ASSUME NEW x \in (i + 1)..j, x \in B PROVE FALSE
  <2>1. i < x /\ x <= j /\ x \in Nat
    BY <1>6, <1>10
  <2>2. m < Rank(B, x) /\ Rank(B, x) \in 1..n
    BY <1>4, <1>5, <1>6, <1>12, <2>1
  <2>3. m < n
    BY <1>1, <1>6, <2>2
  <2>4. x < r
    BY <1>8, <1>10, <2>1, <2>3
  <2>5. Rank(B, x) < m + 1
    BY <1>5, <1>8, <1>12, <2>3, <2>4
  <2> QED
    BY <1>1, <1>6, <2>2, <2>5
<1>13. From(t, l, k, m + 1) = r
  BY DEF From, r, B
<1> QED
  BY <1>2, <1>6, <1>8, <1>9, <1>10, <1>11, <1>12, <1>13 DEF B, n, i, j

-----------------------------------------------------------------------------
(* The visit of a match *)

\* A later line ends later.
LEMMA EndsGrow ==
  ASSUME NEW t \in Seq(Byte), NEW m \in Lines(t), NEW n \in Lines(t), m <= n
  PROVE  /\ EndAt(t, BeginOf(t, m)) \in Nat /\ EndAt(t, BeginOf(t, n)) \in Nat
         /\ EndAt(t, BeginOf(t, m)) <= EndAt(t, BeginOf(t, n))
<1> DEFINE r == BeginOf(t, m)
           s == BeginOf(t, n)
<1>1. r \in StartsOf(t) /\ s \in StartsOf(t) /\ NumberOf(t, r) = m /\ NumberOf(t, s) = n
  BY LinesAre
<1> HIDE DEF r, s
<1>2. r \in Nat /\ s \in Nat /\ m \in Nat /\ n \in Nat /\ Len(t) \in Nat
  BY <1>1, StartsAre, TextHas DEF Lines
<1>3. /\ EndAt(t, r) \in r..Len(t)
      /\ EndAt(t, r) < Len(t) => /\ EndAt(t, r) \in StartsOf(t)
                                 /\ NumberOf(t, EndAt(t, r)) = NumberOf(t, r) + 1
      /\ EndAt(t, r) = Len(t) => \A q \in StartsOf(t) : q <= r
  BY <1>1, EndIs
<1>4. EndAt(t, s) \in s..Len(t)
  BY <1>1, EndIs
<1> DEFINE e == EndAt(t, r)
           f == EndAt(t, s)
<1> HIDE DEF e, f
<1>5. e \in Nat /\ f \in Nat /\ s <= f
  BY <1>2, <1>3, <1>4 DEF e, f
<1>6. CASE m = n
  <2>1. r = s
    BY <1>6 DEF r, s
  <2> QED
    BY <1>5, <2>1 DEF e, f, r, s
<1>7. CASE m < n
  <2>1. r < s
    BY <1>1, <1>7, LinesAre
  <2>2. e < Len(t)
    <3>1. e # Len(t)
      BY <1>1, <1>2, <1>3, <2>1 DEF e
    <3> QED
      BY <1>2, <1>3, <3>1 DEF e
  <2>3. e \in StartsOf(t) /\ NumberOf(t, e) = m + 1
    BY <1>1, <1>3, <2>2 DEF e
  <2>4. ~(s < e)
    <3>1. s < e => NumberOf(t, s) < NumberOf(t, e)
      BY <1>1, <2>3, LinesAre
    <3> QED
      BY <1>1, <1>2, <1>7, <2>3, <3>1
  <2>5. e <= f
    BY <1>2, <1>5, <2>4
  <2> QED
    BY <1>5, <2>5 DEF e, f, r, s
<1> QED
  BY <1>2, <1>6, <1>7

\* The cursor goes over the lines of a match, and the block ends with the last of them.
LEMMA CursorGoes ==
  ASSUME NEW t \in Seq(Byte), NEW s \in SpansOf(t), s.start <= s.end,
         NEW c \in StartsOf(t), c <= s.start
  PROVE  LET first == Multi!AdvanceTo(t, CursorAt(t, c), s.start)
             last == Multi!AdvanceTo(t, first, Multi!Max({s.start, s.end - 1}))
         IN  /\ first = CursorAt(t, BeginOf(t, FirstLine(t, s)))
             /\ last = CursorAt(t, BeginOf(t, LastLineOf(t, s)))
             /\ first.number = FirstLine(t, s) /\ last.number = LastLineOf(t, s)
             /\ first.start = BeginOf(t, FirstLine(t, s))
             /\ Multi!Max({last.fullEnd, s.end}) = EndAt(t, BeginOf(t, LastLineOf(t, s)))
<1> DEFINE a == BeginOf(t, FirstLine(t, s))
           b == BeginOf(t, LastLineOf(t, s))
<1>1. /\ s.start \in Nat /\ s.end \in Nat /\ s.end <= Len(t) /\ Len(t) \in Nat
      /\ LastByte(s) = IF s.start = s.end THEN s.start ELSE s.end - 1
      /\ Multi!Max({s.start, s.end - 1}) = LastByte(s)
      /\ LastByte(s) \in Nat /\ s.start <= LastByte(s)
  BY LastByteIs
<1>2. /\ a \in StartsOf(t) /\ a <= s.start /\ NumberOf(t, a) = FirstLine(t, s)
      /\ b \in StartsOf(t) /\ NumberOf(t, b) = LastLineOf(t, s) /\ Reaches(t, b, LastByte(s))
  BY <1>1, LineOfIs DEF FirstLine, LastLineOf
<1>3. Multi!AdvanceTo(t, CursorAt(t, c), s.start) = CursorAt(t, a)
  BY <1>1, AdvanceGoes DEF FirstLine
<1>4. Multi!AdvanceTo(t, CursorAt(t, a), LastByte(s)) = CursorAt(t, b)
  <2>1. a <= LastByte(s)
    BY <1>1, <1>2, StartsAre
  <2> HIDE DEF a
  <2> QED
    BY <1>1, <1>2, <2>1, AdvanceGoes DEF LastLineOf
<1> HIDE DEF a, b
<1>5. Multi!Max({EndAt(t, b), s.end}) = EndAt(t, b)
  <2>1. EndAt(t, b) \in b..Len(t) /\ b \in Nat
    BY <1>2, EndIs, StartsAre
  <2> DEFINE e == EndAt(t, b)
  <2>2. e = Len(t) \/ LastByte(s) < e
    BY <1>2 DEF Reaches
  <2> HIDE DEF e
  <2>3. e \in Int /\ e >= s.end
    <3>1. s.start = s.end => s.start < e \/ e = Len(t)
      BY <1>1, <2>2
    <3> QED
      BY <1>1, <2>1, <2>2, <3>1 DEF e
  <2>4. s.end \in Int
    BY <1>1
  <2>5. Multi!Max({e, s.end}) = e
    BY <2>3, <2>4, LargerOfTwo
  <2> QED
    BY <2>5 DEF e
<1>6. /\ CursorAt(t, a).number = FirstLine(t, s) /\ CursorAt(t, a).start = a
      /\ CursorAt(t, b).number = LastLineOf(t, s) /\ CursorAt(t, b).fullEnd = EndAt(t, b)
  BY <1>2 DEF CursorAt
<1> QED
  BY <1>1, <1>3, <1>4, <1>5, <1>6 DEF a, b

\* One visit takes the state after k - 1 matches to that after k.
LEMMA VisitIs ==
  ASSUME NEW t \in Seq(Byte), NEW l, AreSpans(t, l), NEW k \in 1..Len(l)
  PROVE  Multi!Visit(t, StateAt(t, l, k - 1), l[k]) = StateAt(t, l, k)
<1> DEFINE s == l[k]
           state == StateAt(t, l, k - 1)
           first == Multi!AdvanceTo(t, state.cursor, s.start)
           last == Multi!AdvanceTo(t, first, Multi!Max({s.start, s.end - 1}))
           endByte == Multi!Max({last.fullEnd, s.end})
           block == [startLine |-> first.number, endLine |-> last.number,
                     startByte |-> first.start, endByte |-> endByte, spans |-> <<s>>]
           current == Multi!Last(state.blocks)
           extended == [current EXCEPT !.endLine = Multi!Max({@, last.number}),
                                       !.endByte = Multi!Max({@, endByte}),
                                       !.spans = Append(@, s)]
           B == Begins(t, l, k - 1)
           n == Cardinality(B)
           begins == k = 1 \/ LastLineOf(t, l[k - 1]) < FirstLine(t, l[k])
           old == state.blocks
<1>1. /\ l \in Seq(SpansOf(t)) /\ Len(l) \in Nat /\ k \in Nat
      /\ s \in SpansOf(t) /\ s.start <= s.end
      /\ k - 1 \in 0..Len(l) /\ (k # 1 => k - 1 \in 1..Len(l))
  BY DEF AreSpans
<1>2. /\ FirstLine(t, s) \in Lines(t) /\ LastLineOf(t, s) \in Lines(t)
      /\ FirstLine(t, s) <= LastLineOf(t, s)
      /\ k # 1 => /\ LastByte(l[k - 1]) <= s.start
                  /\ LastLineOf(t, l[k - 1]) <= FirstLine(t, s)
                  /\ LastLineOf(t, l[k - 1]) \in Lines(t)
  <2>1. k # 1 => k - 1 < k
    BY <1>1
  <2> QED
    BY <1>1, <2>1, SpansInOrder
<1>3. Lines(t) \in SUBSET Nat
  BY StartsAre DEF Lines
<1> DEFINE c == IF k - 1 = 0 THEN 0 ELSE BeginOf(t, LastLineOf(t, l[k - 1]))
<1>4. c \in StartsOf(t) /\ c <= s.start
  <2>1. s.start \in Nat
    BY <1>1 DEF SpansOf
  <2>2. CASE k = 1
    BY <2>1, <2>2, StartsAre
  <2>3. CASE k # 1
    <3> DEFINE p == l[k - 1]
    <3>1. p \in SpansOf(t) /\ p.start <= p.end
      BY <1>1, <2>3 DEF AreSpans
    <3>2. LastByte(p) \in Nat
      BY <3>1, LastByteIs
    <3>3. BeginOf(t, LastLineOf(t, p)) \in StartsOf(t)
          /\ BeginOf(t, LastLineOf(t, p)) <= LastByte(p)
      BY <3>2, LineOfIs DEF LastLineOf
    <3>4. BeginOf(t, LastLineOf(t, p)) \in Nat
      BY <3>3, StartsAre
    <3>5. c = BeginOf(t, LastLineOf(t, p))
      BY <1>1, <2>3
    <3> QED
      BY <1>2, <2>1, <2>3, <3>2, <3>3, <3>4, <3>5
  <2> QED
    BY <2>2, <2>3
<1>5. state.cursor = CursorAt(t, c) /\ old = BlocksAt(t, l, k - 1)
  BY DEF StateAt
<1> HIDE DEF c
<1>6. /\ last = CursorAt(t, BeginOf(t, LastLineOf(t, s)))
      /\ first.number = FirstLine(t, s) /\ last.number = LastLineOf(t, s)
      /\ first.start = BeginOf(t, FirstLine(t, s))
      /\ endByte = EndAt(t, BeginOf(t, LastLineOf(t, s)))
  <2> HIDE DEF s, state
  <2>1. /\ last = CursorAt(t, BeginOf(t, LastLineOf(t, s)))
        /\ first = CursorAt(t, BeginOf(t, FirstLine(t, s)))
        /\ endByte = EndAt(t, BeginOf(t, LastLineOf(t, s)))
        /\ CursorAt(t, BeginOf(t, FirstLine(t, s))).number = FirstLine(t, s)
        /\ CursorAt(t, BeginOf(t, LastLineOf(t, s))).number = LastLineOf(t, s)
        /\ CursorAt(t, BeginOf(t, FirstLine(t, s))).start = BeginOf(t, FirstLine(t, s))
    BY <1>1, <1>4, <1>5, CursorGoes
  <2> HIDE DEF first, last, endByte
  <2> QED
    BY <2>1
<1>7. /\ B \in SUBSET Nat /\ IsFiniteSet(B) /\ n \in Nat /\ \A i \in B : i \in 1..(k - 1)
      /\ n = 0 <=> k - 1 = 0
  BY <1>1, BeginsGrow
<1>8. Begins(t, l, k) = B \cup IF begins THEN {k} ELSE {}
  BY <1>1, BeginsGrow
<1>9. Multi!Visit(t, state, s) =
        [cursor |-> last,
         blocks |-> IF old # <<>> /\ first.number <= current.endLine
                      THEN Append(Multi!Front(old), extended)
                      ELSE Append(old, block)]
  BY DEF Multi!Visit
<1>10. block = BlockOver(t, l, k, k)
  <2>1. SubSeq(l, k, k) = <<s>>
    <3> DEFINE a == SubSeq(l, k, k)
    <3>1. k \in Int /\ \A x \in k..k : l[x] \in SpansOf(t)
      BY <1>1
    <3>2. /\ a \in Seq(SpansOf(t)) /\ Len(a) = (IF k <= k THEN k - k + 1 ELSE 0)
          /\ \A x \in 1..(k - k + 1) : a[x] = l[k + x - 1]
      BY <3>1, SubSeqProperties
    <3> HIDE DEF a
    <3>3. a \in Seq(SpansOf(t)) /\ Len(a) = 1 /\ a[1] = s
      BY <1>1, <3>2
    <3>4. a = <<s>>
      <4> HIDE DEF s
      <4> QED
        BY <3>3
    <3> QED
      BY <3>4 DEF a
  <2> QED
    BY <1>6, <2>1 DEF BlockOver
<1>11. StateAt(t, l, k) = [cursor |-> last, blocks |-> BlocksAt(t, l, k)]
  BY <1>1, <1>6 DEF StateAt
<1>12. ASSUME n > 0
       PROVE  /\ current = BlockOver(t, l, From(t, l, k - 1, n), k - 1)
              /\ current.endLine = LastLineOf(t, l[k - 1])
              /\ old # <<>>
  <2>1. old[n] = BlockOver(t, l, From(t, l, k - 1, n), k - 1)
    BY <1>5, <1>7, <1>12 DEF BlocksAt, To
  <2>2. old = [m \in 1..n |-> old[m]]
    BY <1>5 DEF BlocksAt
  <2>3. current = old[n] /\ old # <<>>
    <3>1. IsList(old, n)
      BY <2>2 DEF IsList
    <3>2. current = Multi!Last(old)
      OBVIOUS
    <3> HIDE DEF n, old, current
    <3> QED
      BY <1>7, <1>12, <3>1, <3>2, ListGrows
  <2> HIDE DEF current, old
  <2> QED
    BY <2>1, <2>3 DEF BlockOver
<1> HIDE DEF last, first, endByte, current, state
<1>13. CASE begins
  <2>1. ~(old # <<>> /\ first.number <= current.endLine)
    <3> SUFFICES ASSUME old # <<>>, first.number <= current.endLine PROVE FALSE
      OBVIOUS
    <3>1. n # 0
      <4>1. old = [m \in 1..n |-> old[m]]
        BY <1>5 DEF BlocksAt
      <4> HIDE DEF n, old
      <4>2. IsList(old, n)
        BY <4>1 DEF IsList
      <4>3. n = 0 => old = <<>>
        BY <1>7, <4>2, ListGrows
      <4> QED
        BY <4>3
    <3>2. n > 0 /\ k # 1
      BY <1>7, <3>1
    <3> HIDE DEF n, B
    <3>3. LastLineOf(t, l[k - 1]) < FirstLine(t, s)
      BY <1>13, <3>2
    <3> QED
      BY <1>2, <1>3, <1>6, <1>12, <3>2, <3>3
  <2>2. \A x \in B : x < k
    BY <1>1, <1>7
  <2> DEFINE D == B \cup {k}
  <2>3. Begins(t, l, k) = D
    BY <1>8, <1>13
  <2>4. /\ Cardinality(D) = n + 1 /\ Nth(D, n + 1) = k
        /\ \A i \in 1..n : Nth(D, i) = Nth(B, i)
    BY <1>1, <1>7, <2>2, NthStays
  <2> HIDE DEF D, B
  <2>5. ASSUME NEW m \in 1..n PROVE BlockOver(t, l, From(t, l, k, m), To(t, l, k, m)) = old[m]
    <3>1. From(t, l, k, m) = From(t, l, k - 1, m)
      BY <2>3, <2>4 DEF From, B
    <3>2. To(t, l, k, m) = To(t, l, k - 1, m)
      <4>1. To(t, l, k, m) = Nth(D, m + 1) - 1
        BY <1>7, <2>3, <2>4 DEF To
      <4>2. CASE m = n
        BY <2>4, <4>1, <4>2 DEF To, B
      <4>3. CASE m # n
        <5>1. m + 1 \in 1..n
          BY <1>7, <4>3
        <5> QED
          BY <2>4, <4>1, <4>3, <5>1 DEF To, B
      <4> QED
        BY <4>2, <4>3
    <3>3. old[m] = BlockOver(t, l, From(t, l, k - 1, m), To(t, l, k - 1, m))
      BY <1>5 DEF BlocksAt, B
    <3> QED
      BY <3>1, <3>2, <3>3
  <2>6. BlockOver(t, l, From(t, l, k, n + 1), To(t, l, k, n + 1)) = block
    BY <1>10, <2>3, <2>4 DEF From, To
  <2>7. Append(old, block) = [m \in 1..(n + 1) |-> IF m = n + 1 THEN block ELSE old[m]]
    <3>1. old = [m \in 1..n |-> old[m]]
      BY <1>5 DEF BlocksAt, B
    <3> HIDE DEF n, old, block
    <3>2. IsList(old, n)
      BY <3>1 DEF IsList
    <3> QED
      BY <1>7, <3>2, ListGrows
  <2>8. BlocksAt(t, l, k) = Append(old, block)
    <3> HIDE DEF block, old, n
    <3>1. \A m \in 1..(n + 1) : BlockOver(t, l, From(t, l, k, m), To(t, l, k, m))
                                  = IF m = n + 1 THEN block ELSE old[m]
      BY <1>7, <2>5, <2>6
    <3>2. BlocksAt(t, l, k) =
            [m \in 1..(n + 1) |-> BlockOver(t, l, From(t, l, k, m), To(t, l, k, m))]
      BY <2>3, <2>4 DEF BlocksAt
    <3> DEFINE D1 == 1..(n + 1)
    <3> HIDE DEF D1
    <3>3. \A m \in D1 : BlockOver(t, l, From(t, l, k, m), To(t, l, k, m))
                          = IF m = n + 1 THEN block ELSE old[m]
      BY <3>1 DEF D1
    <3>4. [m \in D1 |-> BlockOver(t, l, From(t, l, k, m), To(t, l, k, m))]
            = [m \in D1 |-> IF m = n + 1 THEN block ELSE old[m]]
      BY <3>3
    <3> QED
      BY <2>7, <3>2, <3>4 DEF D1
  <2> QED
    BY <1>9, <1>11, <2>1, <2>8 DEF state
<1>14. CASE ~begins
  <2>1. k # 1 /\ n > 0 /\ LastLineOf(t, l[k - 1]) = FirstLine(t, s)
    <3>1. k # 1 /\ ~(LastLineOf(t, l[k - 1]) < FirstLine(t, s))
      BY <1>14
    <3>2. n > 0
      BY <1>1, <1>7, <3>1
    <3> QED
      BY <1>2, <1>3, <3>1, <3>2
  <2>2. old # <<>> /\ first.number <= current.endLine
    <3> HIDE DEF old, n
    <3> QED
      BY <1>2, <1>3, <1>6, <1>12, <2>1
  <2>3. Begins(t, l, k) = B
    BY <1>8, <1>14
  <2> DEFINE i == From(t, l, k - 1, n)
  <2>4. i \in 1..(k - 1)
    <3>1. n \in 1..n
      BY <1>7, <2>1
    <3> HIDE DEF n
    <3>2. n = Cardinality(Begins(t, l, k - 1))
      BY DEF n
    <3> QED
      BY <1>1, <3>1, <3>2, PartsAre
  <2> HIDE DEF B
  <2>5. extended = BlockOver(t, l, i, k)
    <3> DEFINE p == LastLineOf(t, l[k - 1])
               q == LastLineOf(t, s)
    <3>1. current = BlockOver(t, l, i, k - 1)
      BY <1>12, <2>1
    <3>2. p \in Int /\ q \in Int /\ p \in Lines(t) /\ q \in Lines(t) /\ p <= q
      BY <1>2, <1>3, <2>1
    <3>3. Multi!Max({p, q}) = q
      <4> HIDE DEF p, q
      <4>1. Multi!Max({p, q}) = IF p >= q THEN p ELSE q
        BY <3>2, LargerOfTwo
      <4> QED
        BY <3>2, <4>1
    <3> DEFINE e == EndAt(t, BeginOf(t, p))
               f == EndAt(t, BeginOf(t, q))
    <3>4. Multi!Max({e, f}) = f
      <4>1. e \in Int /\ f \in Int /\ e <= f
        <5> HIDE DEF p, q
        <5> QED
          BY <3>2, EndsGrow
      <4> HIDE DEF e, f
      <4>2. Multi!Max({e, f}) = IF e >= f THEN e ELSE f
        BY <4>1, LargerOfTwo
      <4> QED
        BY <4>1, <4>2
    <3>5. Append(SubSeq(l, i, k - 1), s) = SubSeq(l, i, k)
      <4> HIDE DEF i, s
      <4>1. i \in 1..Len(l) /\ k \in i..Len(l) /\ k - 1 \in i..Len(l)
        BY <1>1, <2>4
      <4>2. SubSeq(l, i, k) = SubSeq(l, i, k - 1) \o <<l[k]>>
        BY <1>1, <4>1, SubSeqRecursiveSecond
      <4>3. SubSeq(l, i, k - 1) \in Seq(SpansOf(t))
        <5> DEFINE j == k - 1
        <5>1. i \in Int /\ j \in Int /\ \A x \in i..j : l[x] \in SpansOf(t)
          BY <1>1, <4>1
        <5> HIDE DEF j
        <5>2. SubSeq(l, i, j) \in Seq(SpansOf(t))
          BY <5>1, SubSeqProperties
        <5> QED
          BY <5>2 DEF j
      <4>4. Append(SubSeq(l, i, k - 1), l[k]) = SubSeq(l, i, k - 1) \o <<l[k]>>
        BY <1>1, <4>3, AppendIsConcat DEF s
      <4> QED
        BY <4>2, <4>4 DEF s
    <3>6. last.number = q /\ endByte = f
      BY <1>6
    <3> HIDE DEF p, q, i, s
    <3>7. BlockOver(t, l, i, k - 1) =
            [startLine |-> FirstLine(t, l[i]), endLine |-> p,
             startByte |-> BeginOf(t, FirstLine(t, l[i])), endByte |-> e,
             spans |-> SubSeq(l, i, k - 1)]
      BY DEF BlockOver, p
    <3>8. BlockOver(t, l, i, k) =
            [startLine |-> FirstLine(t, l[i]), endLine |-> q,
             startByte |-> BeginOf(t, FirstLine(t, l[i])), endByte |-> f,
             spans |-> SubSeq(l, i, k)]
      BY DEF BlockOver, q, s
    <3> HIDE DEF e, f
    <3> DEFINE a == FirstLine(t, l[i])
               x == SubSeq(l, i, k - 1)
    <3>9. current = [startLine |-> a, endLine |-> p, startByte |-> BeginOf(t, a),
                     endByte |-> e, spans |-> x]
      BY <3>1, <3>7
    <3>10. extended = [startLine |-> a, endLine |-> Multi!Max({p, q}),
                       startByte |-> BeginOf(t, a), endByte |-> Multi!Max({e, f}),
                       spans |-> Append(x, s)]
      <4> HIDE DEF a, x
      <4>1. current.endLine = p /\ current.endByte = e /\ current.spans = x
        BY <3>9
      <4>2. /\ Multi!Max({current.endLine, last.number}) = Multi!Max({p, q})
            /\ Multi!Max({current.endByte, endByte}) = Multi!Max({e, f})
        BY <3>6, <4>1
      <4> DEFINE u == Multi!Max({current.endLine, last.number})
                 v == Multi!Max({current.endByte, endByte})
                 w == Append(current.spans, s)
      <4>3. u = Multi!Max({p, q}) /\ v = Multi!Max({e, f}) /\ w = Append(x, s)
        BY <4>1, <4>2
      <4> HIDE DEF u, v, w
      <4>4. [current EXCEPT !.endLine = u, !.endByte = v, !.spans = w]
              = [startLine |-> a, endLine |-> u, startByte |-> BeginOf(t, a),
                 endByte |-> v, spans |-> w]
        <5> DEFINE y == BeginOf(t, a)
        <5>1. current = [startLine |-> a, endLine |-> p, startByte |-> y,
                         endByte |-> e, spans |-> x]
          BY <3>9
        <5> HIDE DEF y
        <5>2. [current EXCEPT !.endLine = u, !.endByte = v, !.spans = w]
                = [startLine |-> a, endLine |-> u, startByte |-> y, endByte |-> v, spans |-> w]
          <6> DEFINE c1 == [current EXCEPT !.endLine = u]
                     c2 == [c1 EXCEPT !.endByte = v]
                     c3 == [c2 EXCEPT !.spans = w]
          <6>1. [current EXCEPT !.endLine = u, !.endByte = v, !.spans = w] = c3
            OBVIOUS
          <6>2. c1 = [startLine |-> a, endLine |-> u, startByte |-> y,
                      endByte |-> e, spans |-> x]
            BY <5>1
          <6> HIDE DEF c1
          <6>3. c2 = [startLine |-> a, endLine |-> u, startByte |-> y,
                      endByte |-> v, spans |-> x]
            BY <6>2
          <6> HIDE DEF c2
          <6>4. c3 = [startLine |-> a, endLine |-> u, startByte |-> y,
                      endByte |-> v, spans |-> w]
            BY <6>3
          <6> HIDE DEF c3
          <6> QED
            BY <6>1, <6>4
        <5> QED
          BY <5>2 DEF y
      <4> QED
        BY <4>3, <4>4 DEF u, v, w
    <3> QED
      BY <3>3, <3>4, <3>5, <3>8, <3>10
  <2>6. ASSUME NEW m \in 1..n
        PROVE  BlockOver(t, l, From(t, l, k, m), To(t, l, k, m))
                 = IF m = n THEN extended ELSE old[m]
    <3>1. From(t, l, k, m) = From(t, l, k - 1, m)
      BY <2>3 DEF From, B
    <3>2. CASE m = n
      <4>1. To(t, l, k, m) = k
        BY <2>3, <3>2 DEF To
      <4> HIDE DEF extended
      <4> QED
        BY <2>5, <3>1, <3>2, <4>1
    <3>3. CASE m # n
      <4>1. To(t, l, k, m) = To(t, l, k - 1, m)
        BY <2>3, <3>3 DEF To, B
      <4>2. old[m] = BlockOver(t, l, From(t, l, k - 1, m), To(t, l, k - 1, m))
        BY <1>5 DEF BlocksAt, B
      <4> QED
        BY <3>1, <3>3, <4>1, <4>2
    <3> QED
      BY <3>2, <3>3
  <2>7. Append(Multi!Front(old), extended) = [m \in 1..n |-> IF m = n THEN extended ELSE old[m]]
    <3>1. old = [m \in 1..n |-> old[m]]
      BY <1>5 DEF BlocksAt, B
    <3>2. n \in Nat /\ n > 0
      BY <1>7, <2>1
    <3> HIDE DEF n, old, extended
    <3>3. IsList(old, n)
      BY <3>1 DEF IsList
    <3> QED
      BY <3>2, <3>3, ListGrows
  <2> HIDE DEF extended, old, block
  <2>8. BlocksAt(t, l, k) = Append(Multi!Front(old), extended)
    <3>1. BlocksAt(t, l, k) =
            [m \in 1..n |-> BlockOver(t, l, From(t, l, k, m), To(t, l, k, m))]
      BY <2>3 DEF BlocksAt
    <3> HIDE DEF n
    <3>2. \A m \in 1..n : BlockOver(t, l, From(t, l, k, m), To(t, l, k, m))
                             = IF m = n THEN extended ELSE old[m]
      BY <2>6
    <3>3. [m \in 1..n |-> BlockOver(t, l, From(t, l, k, m), To(t, l, k, m))]
            = [m \in 1..n |-> IF m = n THEN extended ELSE old[m]]
      BY <3>2
    <3> QED
      BY <2>7, <3>1, <3>3
  <2> QED
    BY <1>9, <1>11, <2>2, <2>8 DEF state
<1> QED
  BY <1>13, <1>14

-----------------------------------------------------------------------------
(* All blocks *)

\* The visits of all matches leave their blocks.
LEMMA BlocksAre ==
  ASSUME NEW t \in Seq(Byte), NEW l, AreSpans(t, l)
  PROVE  Multi!Blocks(t, l) = BlocksAt(t, l, Len(l))
<1> DEFINE n == Len(l)
           first == [cursor |-> Multi!NewCursor(t), blocks |-> <<>>]
           g == [k \in 0..n |-> StateAt(t, l, k)]
           Next1(f) == [k \in 0..n |-> IF k = 0 THEN first ELSE Multi!Visit(t, f[k - 1], l[k])]
           states == CHOOSE f : f = Next1(f)
<1>1. Multi!Visits(t, l) = states
  BY Zenon DEF Multi!Visits
<1>2. n \in Nat /\ l \in Seq(SpansOf(t))
  BY DEF AreSpans
<1>3. first = StateAt(t, l, 0)
  <2>1. Multi!NewCursor(t) = CursorAt(t, 0)
    <3>1. 0 \in StartsOf(t) /\ NumberOf(t, 0) = 1
      BY StartsAre, LinesAre
    <3>2. Multi!NextLineEnd(t, 0) = EndAt(t, 0)
      BY <3>1, EndIs
    <3> QED
      BY <3>1, <3>2 DEF Multi!NewCursor, CursorAt
  <2>2. BlocksAt(t, l, 0) = <<>>
    <3>1. Cardinality(Begins(t, l, 0)) = 0
      BY <1>2, BeginsGrow
    <3>2. IsList(BlocksAt(t, l, 0), 0)
      BY <3>1 DEF IsList, BlocksAt
    <3> QED
      BY <3>2, ListGrows
  <2> QED
    BY <2>1, <2>2 DEF StateAt
<1>4. \A k \in 1..n : StateAt(t, l, k) = Multi!Visit(t, StateAt(t, l, k - 1), l[k])
  BY VisitIs
<1> HIDE DEF first, n
<1>5. g = Next1(g)
  <2>1. \A k \in 0..n : k # 0 => k \in 1..n /\ k - 1 \in 0..n
    BY <1>2
  <2>2. \A k \in 0..n : g[k] = IF k = 0 THEN first ELSE Multi!Visit(t, g[k - 1], l[k])
    BY <1>3, <1>4, <2>1
  <2> QED
    BY <2>2
<1>6. ASSUME NEW f, f = Next1(f) PROVE \A k \in 0..n : f[k] = g[k]
  <2> DEFINE G == {k \in 0..n : f[k] = g[k]}
  <2>1. 0 \in G
    BY <1>2, <1>3, <1>6
  <2>2. ASSUME NEW k \in 1..n, k - 1 \in G PROVE k \in G
    <3>1. k \in 0..n /\ k # 0 /\ k - 1 \in 0..n
      BY <1>2, <2>2
    <3>2. f[k] = Multi!Visit(t, f[k - 1], l[k])
      BY <1>6, <3>1
    <3>3. f[k - 1] = StateAt(t, l, k - 1) /\ g[k] = StateAt(t, l, k)
      BY <2>2, <3>1
    <3> HIDE DEF g
    <3> QED
      BY <1>4, <3>1, <3>2, <3>3
  <2> HIDE DEF G
  <2>3. \A k \in 0..n : k \in G
    BY <1>2, <2>1, <2>2, StepByStep
  <2> QED
    BY <2>3 DEF G
<1>7. states = Next1(states)
  <2>1. \E f : f = Next1(f)
    BY <1>5
  <2> QED
    BY <2>1, Zenon
<1> HIDE DEF states
<1>8. states[n] = StateAt(t, l, n)
  BY <1>2, <1>6, <1>7
<1> QED
  BY <1>1, <1>8 DEF Multi!Blocks, StateAt, n

\* Blocks are apart: each begins behind the last match of the one before.
LEMMA PartsInOrder ==
  ASSUME NEW t, NEW l \in Seq(SpansOf(t)), NEW k \in 0..Len(l),
         NEW m \in 1..Cardinality(Begins(t, l, k)),
         NEW q \in 1..Cardinality(Begins(t, l, k)), m < q
  PROVE  To(t, l, k, m) < From(t, l, k, q)
<1> DEFINE B == Begins(t, l, k)
           n == Cardinality(B)
<1>1. B \in SUBSET Nat /\ IsFiniteSet(B) /\ n \in Nat
  BY BeginsGrow
<1>2. /\ To(t, l, k, m) \in From(t, l, k, m)..k /\ From(t, l, k, m) \in 1..k
      /\ \A x \in (From(t, l, k, m) + 1)..To(t, l, k, m) : x \notin B
  BY PartsAre
<1>3. From(t, l, k, q) \in B /\ From(t, l, k, q) \in 1..k
  BY PartsAre
<1>4. From(t, l, k, m) < From(t, l, k, q)
  <2> HIDE DEF B
  <2>1. /\ From(t, l, k, m) = Nth(B, m) /\ From(t, l, k, q) = Nth(B, q)
    BY DEF From, B
  <2>2. \A x \in 1..n : Nth(B, x) \in B /\ Rank(B, Nth(B, x)) = x
    BY <1>1, NthIsOfRank
  <2>3. m \in 1..n /\ q \in 1..n
    BY DEF B
  <2>4. Nth(B, q) < Nth(B, m) => q < m
    BY <1>1, <2>2, <2>3, RanksGrow
  <2>5. Nth(B, m) \in Nat /\ Nth(B, q) \in Nat /\ Nth(B, m) # Nth(B, q)
    <3>1. Nth(B, m) \in B /\ Nth(B, q) \in B
      BY <2>2, <2>3
    <3>2. Rank(B, Nth(B, m)) = m /\ Rank(B, Nth(B, q)) = q /\ m # q
      BY <2>2, <2>3
    <3> QED
      BY <1>1, <3>1, <3>2
  <2> QED
    BY <1>1, <2>1, <2>3, <2>4, <2>5
<1> QED
  BY <1>2, <1>3, <1>4

\* Every match is in a block.
LEMMA PartExists ==
  ASSUME NEW t, NEW l \in Seq(SpansOf(t)), NEW k \in 0..Len(l), NEW i \in 1..k
  PROVE  \E m \in 1..Cardinality(Begins(t, l, k)) :
           i \in From(t, l, k, m)..To(t, l, k, m)
<1> DEFINE n == Cardinality(Begins(t, l, k))
           A == {m \in 1..n : i <= To(t, l, k, m)}
           m == Min(A)
<1>1. n \in Nat /\ n # 0 /\ k \in Nat
  BY BeginsGrow
<1>2. ASSUME NEW x \in 1..n
      PROVE  /\ From(t, l, k, x) \in Nat /\ To(t, l, k, x) \in Nat
             /\ x < n => From(t, l, k, x + 1) = To(t, l, k, x) + 1
             /\ x = n => To(t, l, k, x) = k
             /\ x = 1 => From(t, l, k, x) = 1
  <2>1. /\ From(t, l, k, x) \in 1..k /\ To(t, l, k, x) \in From(t, l, k, x)..k
        /\ x < n => From(t, l, k, x + 1) = To(t, l, k, x) + 1
        /\ x = n => To(t, l, k, x) = k
        /\ x = 1 => From(t, l, k, x) = 1
    BY PartsAre
  <2> HIDE DEF n
  <2> QED
    BY <1>1, <2>1
<1> HIDE DEF n
<1>3. n \in A /\ A \in SUBSET Nat
  BY <1>1, <1>2
<1>4. m \in A /\ \A y \in A : m <= y
  BY <1>3, LeastExists
<1> HIDE DEF m
<1>5. m \in 1..n /\ i <= To(t, l, k, m)
  BY <1>4
<1>6. From(t, l, k, m) <= i
  <2>1. CASE m = 1
    BY <1>2, <1>5, <2>1
  <2>2. CASE m # 1
    <3> DEFINE p == m - 1
    <3>1. p \in 1..n /\ p < n /\ p + 1 = m /\ ~(m <= p)
      BY <1>1, <1>5, <2>2
    <3> HIDE DEF p
    <3>2. p \notin A
      BY <1>4, <3>1
    <3>3. ~(i <= To(t, l, k, p)) /\ From(t, l, k, m) = To(t, l, k, p) + 1
          /\ To(t, l, k, p) \in Nat
      BY <1>2, <3>1, <3>2
    <3> QED
      BY <3>3
  <2> QED
    BY <2>1, <2>2
<1>7. From(t, l, k, m) \in Nat /\ To(t, l, k, m) \in Nat
  BY <1>2, <1>5
<1> QED
  BY <1>5, <1>6, <1>7 DEF n

\* The lines of a match.
LEMMA TouchedIs ==
  ASSUME NEW t, NEW s
  PROVE  Touched(t, s) = FirstLine(t, s)..LastLineOf(t, s)
BY DEF Touched, FirstLine, LastLineOf, LastByte

\* Matches that come later have no earlier lines.
LEMMA LinesRise ==
  ASSUME NEW t \in Seq(Byte), NEW l, AreSpans(t, l),
         NEW i \in 1..Len(l), NEW j \in 1..Len(l), i <= j
  PROVE  /\ FirstLine(t, l[i]) \in Nat /\ LastLineOf(t, l[i]) \in Nat
         /\ FirstLine(t, l[j]) \in Nat /\ LastLineOf(t, l[j]) \in Nat
         /\ FirstLine(t, l[i]) <= FirstLine(t, l[j])
         /\ LastLineOf(t, l[i]) <= LastLineOf(t, l[j])
         /\ FirstLine(t, l[i]) <= LastLineOf(t, l[j])
<1>1. Lines(t) \in SUBSET Nat
  BY StartsAre DEF Lines
<1>2. \A x \in 1..Len(l) : /\ FirstLine(t, l[x]) \in Nat /\ LastLineOf(t, l[x]) \in Nat
                           /\ FirstLine(t, l[x]) <= LastLineOf(t, l[x])
  BY <1>1, SpansInOrder
<1>3. i < j => LastLineOf(t, l[i]) <= FirstLine(t, l[j])
  BY SpansInOrder
<1>4. i = j \/ i < j
  OBVIOUS
<1> QED
  BY <1>2, <1>3, <1>4

\* The matches i to j make a block: no other begins or ends on their lines.
IsBlock(t, l, i, j) ==
  /\ i \in 1..Len(l) /\ j \in i..Len(l)
  /\ \A x \in (i + 1)..j : LastLineOf(t, l[x - 1]) = FirstLine(t, l[x])
  /\ \A x \in 1..(i - 1) : LastLineOf(t, l[x]) < FirstLine(t, l[i])
  /\ \A x \in (j + 1)..Len(l) : LastLineOf(t, l[j]) < FirstLine(t, l[x])

\* Each of the blocks is one.
LEMMA PartIsBlock ==
  ASSUME NEW t \in Seq(Byte), NEW l, AreSpans(t, l),
         NEW m \in 1..Cardinality(Begins(t, l, Len(l)))
  PROVE  IsBlock(t, l, From(t, l, Len(l), m), To(t, l, Len(l), m))
<1> DEFINE k == Len(l)
           n == Cardinality(Begins(t, l, k))
           i == From(t, l, k, m)
           j == To(t, l, k, m)
<1>1. l \in Seq(SpansOf(t)) /\ k \in Nat /\ k \in 0..Len(l)
  BY DEF AreSpans
<1>2. /\ i \in 1..k /\ j \in i..k /\ i \in Begins(t, l, k)
      /\ m < n => j + 1 \in Begins(t, l, k)
      /\ m = n => j = k
      /\ \A x \in (i + 1)..j : x \notin Begins(t, l, k)
  BY <1>1, PartsAre
<1>3. n \in Nat
  BY <1>1, BeginsGrow
<1>4. m = n \/ m < n
  BY <1>3
<1>5. k = Len(l)
  OBVIOUS
<1> HIDE DEF i, j, k, n
<1>6. \A x \in Begins(t, l, k) : x = 1 \/ LastLineOf(t, l[x - 1]) < FirstLine(t, l[x])
  BY DEF Begins
<1>7. ASSUME NEW x \in (i + 1)..j PROVE LastLineOf(t, l[x - 1]) = FirstLine(t, l[x])
  <2>1. x \in 1..k /\ x # 1 /\ x - 1 \in 1..k /\ x - 1 <= x /\ x - 1 < x
    BY <1>1, <1>2
  <2>2. ~(LastLineOf(t, l[x - 1]) < FirstLine(t, l[x]))
    BY <1>2, <2>1 DEF Begins
  <2>3. LastLineOf(t, l[x - 1]) <= FirstLine(t, l[x])
    BY <1>5, <2>1, SpansInOrder
  <2>4. LastLineOf(t, l[x - 1]) \in Nat /\ FirstLine(t, l[x]) \in Nat
    BY <1>5, <2>1, LinesRise
  <2> QED
    BY <2>2, <2>3, <2>4
<1>8. ASSUME NEW x \in 1..(i - 1) PROVE LastLineOf(t, l[x]) < FirstLine(t, l[i])
  <2> DEFINE p == i - 1
  <2>1. x \in 1..k /\ p \in 1..k /\ x <= p /\ i # 1
    BY <1>1, <1>2
  <2>2. LastLineOf(t, l[p]) < FirstLine(t, l[i])
    BY <1>2, <1>6, <2>1
  <2> HIDE DEF p
  <2>3. LastLineOf(t, l[x]) <= LastLineOf(t, l[p])
        /\ LastLineOf(t, l[x]) \in Nat /\ LastLineOf(t, l[p]) \in Nat
    BY <1>5, <2>1, LinesRise
  <2>4. FirstLine(t, l[i]) \in Nat
    BY <1>2, <1>5, LinesRise
  <2> QED
    BY <2>2, <2>3, <2>4
<1>9. ASSUME NEW x \in (j + 1)..k PROVE LastLineOf(t, l[j]) < FirstLine(t, l[x])
  <2> DEFINE q == j + 1
  <2>1. x \in 1..k /\ q \in 1..k /\ q <= x /\ q # 1 /\ q - 1 = j /\ j # k /\ j \in 1..k
    BY <1>1, <1>2
  <2>2. q \in Begins(t, l, k)
    BY <1>2, <1>4, <2>1
  <2> HIDE DEF q
  <2>3. LastLineOf(t, l[q - 1]) < FirstLine(t, l[q])
    BY <1>6, <2>1, <2>2
  <2>4. FirstLine(t, l[q]) <= FirstLine(t, l[x])
        /\ FirstLine(t, l[x]) \in Nat /\ FirstLine(t, l[q]) \in Nat
    BY <1>5, <2>1, LinesRise
  <2>5. LastLineOf(t, l[j]) \in Nat
    <3>1. j \in 1..Len(l) /\ j <= j
      BY <1>2, <1>5, <2>1
    <3> QED
      BY <3>1, LinesRise
  <2> QED
    BY <2>1, <2>3, <2>4, <2>5
<1> QED
  BY <1>2, <1>7, <1>8, <1>9 DEF IsBlock, k, i, j

-----------------------------------------------------------------------------
(* The lines of a block *)

\* A line of a block is one of a match, and goes on to the next in one of its matches.
LEMMA LinesOfBlock ==
  ASSUME NEW t \in Seq(Byte), NEW l, AreSpans(t, l), NEW i, NEW j, IsBlock(t, l, i, j),
         NEW x \in FirstLine(t, l[i])..LastLineOf(t, l[j])
  PROVE  \E p \in i..j : /\ p \in 1..Len(l) /\ x \in Touched(t, l[p])
                         /\ FirstLine(t, l[p]) < x \/ p = i
<1> DEFINE P == {p \in i..j : x <= LastLineOf(t, l[p])}
           p == Min(P)
<1>1. /\ i \in 1..Len(l) /\ j \in i..Len(l) /\ Len(l) \in Nat
      /\ \A y \in (i + 1)..j : LastLineOf(t, l[y - 1]) = FirstLine(t, l[y])
  BY DEF IsBlock, AreSpans
<1>2. \A y \in i..j : /\ y \in 1..Len(l) /\ FirstLine(t, l[y]) \in Nat
                      /\ LastLineOf(t, l[y]) \in Nat
  <2> TAKE y \in i..j
  <2>1. y \in 1..Len(l) /\ y <= y
    BY <1>1
  <2> QED
    BY <2>1, LinesRise
<1>3. i \in i..j /\ j \in i..j
  BY <1>1
<1>4. x \in Nat /\ FirstLine(t, l[i]) <= x /\ x <= LastLineOf(t, l[j])
  BY <1>2, <1>3
<1>5. P \in SUBSET Nat /\ j \in P
  BY <1>1, <1>3, <1>4
<1>6. p \in P /\ \A y \in P : p <= y
  BY <1>5, LeastExists
<1> HIDE DEF p
<1>7. p \in i..j /\ x <= LastLineOf(t, l[p])
  BY <1>6
<1>8. p # i => FirstLine(t, l[p]) < x
  <2> SUFFICES ASSUME p # i PROVE FirstLine(t, l[p]) < x
    OBVIOUS
  <2> DEFINE q == p - 1
  <2>1. q \in i..j /\ p \in (i + 1)..j /\ ~(p <= q)
    BY <1>1, <1>7
  <2>2. LastLineOf(t, l[q]) = FirstLine(t, l[p])
    BY <1>1, <2>1
  <2> HIDE DEF q
  <2>3. ~(x <= LastLineOf(t, l[q]))
    BY <1>6, <2>1
  <2> QED
    BY <1>2, <1>4, <2>1, <2>2, <2>3
<1>9. FirstLine(t, l[p]) <= x
  <2>1. FirstLine(t, l[p]) \in Nat
    BY <1>2, <1>7
  <2> QED
    BY <1>4, <1>8, <2>1
<1>10. x \in Touched(t, l[p])
  <2>1. FirstLine(t, l[p]) \in Nat /\ LastLineOf(t, l[p]) \in Nat
    BY <1>2, <1>7
  <2> QED
    BY <1>4, <1>7, <1>9, <2>1, TouchedIs
<1> QED
  BY <1>2, <1>7, <1>8, <1>10

\* A match is in a block, or all of it is before or behind.
LEMMA MatchInBlock ==
  ASSUME NEW t \in Seq(Byte), NEW l, AreSpans(t, l), NEW i, NEW j, IsBlock(t, l, i, j),
         NEW p \in 1..Len(l)
  PROVE  /\ FirstLine(t, l[p]) \in Nat /\ LastLineOf(t, l[p]) \in Nat
         /\ FirstLine(t, l[i]) \in Nat /\ LastLineOf(t, l[j]) \in Nat
         /\ FirstLine(t, l[p]) <= LastLineOf(t, l[p])
         /\ FirstLine(t, l[i]) <= LastLineOf(t, l[j])
         /\ p \in i..j => /\ FirstLine(t, l[i]) <= FirstLine(t, l[p])
                          /\ LastLineOf(t, l[p]) <= LastLineOf(t, l[j])
         /\ p \notin i..j => \/ LastLineOf(t, l[p]) < FirstLine(t, l[i])
                             \/ LastLineOf(t, l[j]) < FirstLine(t, l[p])
<1>1. /\ i \in 1..Len(l) /\ j \in i..Len(l) /\ Len(l) \in Nat /\ i <= j
      /\ \A x \in 1..(i - 1) : LastLineOf(t, l[x]) < FirstLine(t, l[i])
      /\ \A x \in (j + 1)..Len(l) : LastLineOf(t, l[j]) < FirstLine(t, l[x])
  <2>1. Len(l) \in Nat
    BY DEF AreSpans
  <2> QED
    BY <2>1 DEF IsBlock
<1>2. j \in 1..Len(l) /\ p <= p
  BY <1>1
<1>3. /\ FirstLine(t, l[p]) \in Nat /\ LastLineOf(t, l[p]) \in Nat
      /\ FirstLine(t, l[p]) <= LastLineOf(t, l[p])
  BY <1>2, LinesRise
<1>4. /\ FirstLine(t, l[i]) \in Nat /\ LastLineOf(t, l[j]) \in Nat
      /\ FirstLine(t, l[i]) <= LastLineOf(t, l[j])
  BY <1>1, <1>2, LinesRise
<1>5. ASSUME p \in i..j
      PROVE  /\ FirstLine(t, l[i]) <= FirstLine(t, l[p])
             /\ LastLineOf(t, l[p]) <= LastLineOf(t, l[j])
  <2>1. i <= p /\ p <= j
    BY <1>1, <1>5
  <2>2. FirstLine(t, l[i]) <= FirstLine(t, l[p])
    BY <1>1, <2>1, LinesRise
  <2>3. LastLineOf(t, l[p]) <= LastLineOf(t, l[j])
    BY <1>2, <2>1, LinesRise
  <2> QED
    BY <2>2, <2>3
<1>6. ASSUME p \notin i..j
      PROVE  \/ LastLineOf(t, l[p]) < FirstLine(t, l[i])
             \/ LastLineOf(t, l[j]) < FirstLine(t, l[p])
  <2>1. p \in 1..(i - 1) \/ p \in (j + 1)..Len(l)
    BY <1>1, <1>6
  <2> QED
    BY <1>1, <2>1
<1> QED
  BY <1>3, <1>4, <1>5, <1>6

\* The lines of a block belong together, and with no other.
LEMMA TogetherIs ==
  ASSUME NEW t \in Seq(Byte), NEW l, AreSpans(t, l), NEW i, NEW j, IsBlock(t, l, i, j),
         NEW n \in FirstLine(t, l[i])..LastLineOf(t, l[j])
  PROVE  /\ n \in Covered(t, ToSet(l))
         /\ Together(t, ToSet(l), n) = FirstLine(t, l[i])..LastLineOf(t, l[j])
<1> DEFINE S == ToSet(l)
           a == FirstLine(t, l[i])
           b == LastLineOf(t, l[j])
<1>1. \A s : s \in S <=> \E p \in 1..Len(l) : s = l[p]
  BY DEF ToSet
<1>2. i \in 1..Len(l)
  BY DEF IsBlock
<1>3. a \in Nat /\ b \in Nat /\ a <= b
  BY <1>2, MatchInBlock
<1>4. \A x : x \in Covered(t, S) <=> \E p \in 1..Len(l) : x \in Touched(t, l[p])
  BY <1>1 DEF Covered
<1>5. \A x : Bridged(t, S, x) <=> \E p \in 1..Len(l) : x \in Touched(t, l[p])
                                                       /\ x + 1 \in Touched(t, l[p])
  BY <1>1 DEF Bridged
<1> HIDE DEF S, a, b
<1>6. \A p \in 1..Len(l) : Touched(t, l[p]) \in SUBSET Nat
  <2> TAKE p \in 1..Len(l)
  <2>1. FirstLine(t, l[p]) \in Nat /\ LastLineOf(t, l[p]) \in Nat
    BY MatchInBlock
  <2> QED
    BY <2>1, TouchedIs
<1>7. ASSUME NEW x \in a..b PROVE x \in Covered(t, S)
  <2>1. \E p \in i..j : p \in 1..Len(l) /\ x \in Touched(t, l[p])
    BY LinesOfBlock DEF a, b
  <2> QED
    BY <1>4, <2>1
<1>8. ASSUME NEW x \in Nat, x \in a..(b - 1) PROVE Bridged(t, S, x)
  <2> DEFINE y == x + 1
  <2>1. y \in a..b /\ x >= a
    BY <1>3, <1>8
  <2> HIDE DEF y
  <2>2. PICK p \in i..j : /\ p \in 1..Len(l) /\ y \in Touched(t, l[p])
                          /\ FirstLine(t, l[p]) < y \/ p = i
    BY <2>1, LinesOfBlock DEF a, b
  <2>3. FirstLine(t, l[p]) \in Nat /\ LastLineOf(t, l[p]) \in Nat
    BY <2>2, MatchInBlock
  <2>4. FirstLine(t, l[p]) <= x
    <3>1. CASE FirstLine(t, l[p]) < y
      BY <2>3, <3>1 DEF y
    <3>2. CASE p = i
      BY <1>3, <2>1, <3>2 DEF a
    <3> QED
      BY <2>2, <3>1, <3>2
  <2>5. x \in Touched(t, l[p])
    BY <2>2, <2>3, <2>4, TouchedIs DEF y
  <2> QED
    BY <1>5, <2>2, <2>5 DEF y
<1>9. ASSUME NEW x \in Nat, x = b \/ x + 1 = a PROVE ~Bridged(t, S, x)
  <2> SUFFICES ASSUME Bridged(t, S, x) PROVE FALSE
    OBVIOUS
  <2>1. PICK p \in 1..Len(l) : x \in Touched(t, l[p]) /\ x + 1 \in Touched(t, l[p])
    BY <1>5
  <2> DEFINE f == FirstLine(t, l[p])
             g == LastLineOf(t, l[p])
  <2>2. /\ f \in Nat /\ g \in Nat
        /\ p \in i..j => a <= f /\ g <= b
        /\ p \notin i..j => g < a \/ b < f
    BY MatchInBlock DEF a, b
  <2>3. f <= x /\ x + 1 <= g
    <3>1. x \in f..g /\ x + 1 \in f..g
      BY <2>1, TouchedIs
    <3> QED
      BY <2>2, <3>1
  <2> HIDE DEF f, g
  <2> QED
    BY <1>3, <1>9, <2>2, <2>3
<1>10. n \in Nat /\ n \in a..b /\ a <= n /\ n <= b
  BY <1>3 DEF a, b
<1>11. \A x : x \in Covered(t, S) => x \in Nat
  BY <1>4, <1>6
<1>12. ASSUME NEW x \in Nat
       PROVE  /\ Min({x, n}) = IF x <= n THEN x ELSE n
              /\ Max({x, n}) = IF x >= n THEN x ELSE n
  <2>1. x \in Int /\ n \in Int
    BY <1>10
  <2> QED
    BY <1>10, <2>1, Smaller, LargerOfTwo
<1>13. ASSUME NEW x \in a..b PROVE x \in Together(t, S, n)
  <2>1. x \in Nat
    BY <1>3
  <2>2. \A k \in Min({x, n})..(Max({x, n}) - 1) : k \in Nat /\ k \in a..(b - 1)
    BY <1>3, <1>10, <1>12, <2>1
  <2>3. \A k \in Min({x, n})..(Max({x, n}) - 1) : Bridged(t, S, k)
    BY <1>8, <2>2
  <2> QED
    BY <1>7, <2>3 DEF Together
<1>14. ASSUME NEW x \in Together(t, S, n) PROVE x \in a..b
  <2>1. x \in Covered(t, S) /\ \A k \in Min({x, n})..(Max({x, n}) - 1) : Bridged(t, S, k)
    BY DEF Together
  <2>2. x \in Nat
    BY <1>11, <2>1
  <2>3. ~(b < x)
    <3> SUFFICES ASSUME b < x PROVE FALSE
      OBVIOUS
    <3>1. b \in Min({x, n})..(Max({x, n}) - 1)
      BY <1>3, <1>10, <1>12, <2>2
    <3> QED
      BY <1>3, <1>9, <2>1, <3>1
  <2>4. ~(x < a)
    <3> SUFFICES ASSUME x < a PROVE FALSE
      OBVIOUS
    <3> DEFINE c == a - 1
    <3>1. c \in Min({x, n})..(Max({x, n}) - 1) /\ c \in Nat /\ c + 1 = a
      BY <1>3, <1>10, <1>12, <2>2
    <3> HIDE DEF c
    <3> QED
      BY <1>9, <2>1, <3>1
  <2> QED
    BY <1>3, <2>2, <2>3, <2>4
<1>15. Together(t, S, n) = a..b
  BY <1>13, <1>14
<1> QED
  BY <1>7, <1>10, <1>15 DEF S, a, b

-----------------------------------------------------------------------------
(* The totals *)

\* What is known of the blocks of all matches.
LEMMA BlocksHave ==
  ASSUME NEW t \in Seq(Byte), NEW l, AreSpans(t, l)
  PROVE  LET b == BlocksAt(t, l, Len(l))
             n == Cardinality(Begins(t, l, Len(l)))
             i(m) == From(t, l, Len(l), m)
             j(m) == To(t, l, Len(l), m)
         IN  /\ n \in Nat /\ Len(b) = n /\ (n = 0 <=> Len(l) = 0) /\ IsList(b, n)
             /\ \A m \in 1..n : /\ b[m] = BlockOver(t, l, i(m), j(m))
                                /\ IsBlock(t, l, i(m), j(m))
<1> DEFINE b == BlocksAt(t, l, Len(l))
           n == Cardinality(Begins(t, l, Len(l)))
<1>1. l \in Seq(SpansOf(t)) /\ Len(l) \in Nat /\ Len(l) \in 0..Len(l)
  BY DEF AreSpans
<1>2. n \in Nat /\ (n = 0 <=> Len(l) = 0)
  BY <1>1, BeginsGrow
<1>3. \A m \in 1..n : IsBlock(t, l, From(t, l, Len(l), m), To(t, l, Len(l), m))
  BY PartIsBlock
<1>4. b = [m \in 1..n |-> BlockOver(t, l, From(t, l, Len(l), m), To(t, l, Len(l), m))]
  BY DEF BlocksAt
<1> HIDE DEF b, n
<1>5. IsList(b, n) /\ Len(b) = n
  BY <1>2, <1>4 DEF IsList
<1> QED
  BY <1>2, <1>3, <1>4, <1>5 DEF b, n

\* Every match counts once.
LEMMA OccurrencesAre ==
  ASSUME NEW t \in Seq(Byte), NEW l, AreSpans(t, l)
  PROVE  Multi!Occurrences(BlocksAt(t, l, Len(l))) = Len(l)
<1> DEFINE b == BlocksAt(t, l, Len(l))
           n == Len(b)
           At(k) == IF k = 0 THEN 0 ELSE To(t, l, Len(l), k)
           g == [k \in 0..n |-> At(k)]
           Next1(f) == [k \in 0..n |-> IF k = 0 THEN 0 ELSE f[k - 1] + Len(b[k].spans)]
           sums == CHOOSE f : f = Next1(f)
<1>1. Multi!SpanTotals(b) = sums
  BY Zenon DEF Multi!SpanTotals
<1>2. l \in Seq(SpansOf(t)) /\ Len(l) \in Nat /\ Len(l) \in 0..Len(l)
  BY DEF AreSpans
<1>3. /\ n \in Nat /\ n = Cardinality(Begins(t, l, Len(l))) /\ (n = 0 <=> Len(l) = 0)
      /\ \A m \in 1..n : b[m] = BlockOver(t, l, From(t, l, Len(l), m), To(t, l, Len(l), m))
  BY BlocksHave
<1> HIDE DEF b, n
<1>4. ASSUME NEW m \in 1..n
      PROVE  /\ From(t, l, Len(l), m) \in 1..Len(l)
             /\ To(t, l, Len(l), m) \in From(t, l, Len(l), m)..Len(l)
             /\ m < n => From(t, l, Len(l), m + 1) = To(t, l, Len(l), m) + 1
             /\ m = n => To(t, l, Len(l), m) = Len(l)
             /\ m = 1 => From(t, l, Len(l), m) = 1
  BY <1>2, <1>3, PartsAre
<1>5. ASSUME NEW k \in 1..n PROVE At(k) = At(k - 1) + Len(b[k].spans)
  <2> DEFINE i == From(t, l, Len(l), k)
             j == To(t, l, Len(l), k)
  <2>1. i \in 1..Len(l) /\ j \in i..Len(l)
    BY <1>4
  <2>2. At(k - 1) = i - 1
    <3>1. CASE k = 1
      BY <1>4, <3>1
    <3>2. CASE k # 1
      <4> DEFINE p == k - 1
      <4>1. p \in 1..n /\ p < n /\ p + 1 = k /\ p # 0
        BY <1>3, <3>2
      <4> HIDE DEF p
      <4>2. From(t, l, Len(l), k) = To(t, l, Len(l), p) + 1
        BY <1>4, <4>1
      <4>3. To(t, l, Len(l), p) \in Nat /\ At(p) = To(t, l, Len(l), p)
        BY <1>4, <4>1
      <4> QED
        BY <4>2, <4>3 DEF p
    <3> QED
      BY <3>1, <3>2
  <2>3. b[k].spans = SubSeq(l, i, j)
    <3>1. b[k] = BlockOver(t, l, i, j)
      BY <1>3
    <3> DEFINE a == FirstLine(t, l[i])
               e == LastLineOf(t, l[j])
               c == BeginOf(t, a)
               d == EndAt(t, BeginOf(t, e))
               x == SubSeq(l, i, j)
    <3>2. BlockOver(t, l, i, j) =
            [startLine |-> a, endLine |-> e, startByte |-> c, endByte |-> d, spans |-> x]
      BY DEF BlockOver
    <3> HIDE DEF a, e, c, d, x, i, j
    <3>3. b[k].spans = x
      BY <3>1, <3>2
    <3> QED
      BY <3>3 DEF x
  <2>4. At(k) = j
    BY <1>3
  <2> HIDE DEF i, j, At
  <2>5. Len(SubSeq(l, i, j)) = j - i + 1
    <3>1. i \in Int /\ j \in Int /\ i <= j /\ \A x \in i..j : l[x] \in SpansOf(t)
      BY <1>2, <2>1
    <3> QED
      BY <3>1, SubSeqProperties
  <2> QED
    BY <1>2, <2>1, <2>2, <2>3, <2>4, <2>5
<1>6. At(0) = 0
  OBVIOUS
<1> HIDE DEF At
<1>7. g = Next1(g)
  <2>1. \A k \in 0..n : k # 0 => k \in 1..n /\ k - 1 \in 0..n
    BY <1>3
  <2>2. \A k \in 0..n : g[k] = IF k = 0 THEN 0 ELSE g[k - 1] + Len(b[k].spans)
    BY <1>5, <1>6, <2>1
  <2> QED
    BY <2>2
<1>8. ASSUME NEW f, f = Next1(f) PROVE \A k \in 0..n : f[k] = g[k]
  <2> DEFINE G == {k \in 0..n : f[k] = g[k]}
  <2>1. 0 \in G
    BY <1>3, <1>6, <1>8
  <2>2. ASSUME NEW k \in 1..n, k - 1 \in G PROVE k \in G
    <3>1. k \in 0..n /\ k # 0 /\ k - 1 \in 0..n
      BY <1>3, <2>2
    <3>2. f[k] = f[k - 1] + Len(b[k].spans)
      BY <1>8, <3>1
    <3>3. f[k - 1] = At(k - 1) /\ g[k] = At(k)
      BY <2>2, <3>1
    <3> HIDE DEF g
    <3> QED
      BY <1>5, <3>1, <3>2, <3>3
  <2> HIDE DEF G
  <2>3. \A k \in 0..n : k \in G
    BY <1>3, <2>1, <2>2, StepByStep
  <2> QED
    BY <2>3 DEF G
<1>9. sums = Next1(sums)
  <2>1. \E f : f = Next1(f)
    BY <1>7
  <2> QED
    BY <2>1, Zenon
<1> HIDE DEF sums
<1>10. sums[n] = At(n)
  <2>1. \A k \in 0..n : sums[k] = g[k]
    BY <1>8, <1>9
  <2>2. n \in 0..n
    BY <1>3
  <2> QED
    BY <2>1, <2>2
<1>11. At(n) = Len(l)
  <2>1. n # 0 => n \in 1..n
    BY <1>3
  <2> QED
    BY <1>3, <1>4, <2>1 DEF At
<1> QED
  BY <1>1, <1>10, <1>11 DEF Multi!Occurrences, b, n

\* Every line that a match touches counts once.
LEMMA MatchingLinesAre ==
  ASSUME NEW t \in Seq(Byte), NEW l, AreSpans(t, l)
  PROVE  Multi!MatchingLines(BlocksAt(t, l, Len(l))) = Cardinality(Covered(t, ToSet(l)))
<1> DEFINE b == BlocksAt(t, l, Len(l))
           n == Len(b)
           i(m) == From(t, l, Len(l), m)
           j(m) == To(t, l, Len(l), m)
           first(m) == FirstLine(t, l[i(m)])
           last(m) == LastLineOf(t, l[j(m)])
           Till(k) == UNION {first(m)..last(m) : m \in 1..k}
           At(k) == Cardinality(Till(k))
           g == [k \in 0..n |-> At(k)]
           Next1(f) ==
             [k \in 0..n |->
                IF k = 0 THEN 0 ELSE f[k - 1] + (b[k].endLine - b[k].startLine) + 1]
           sums == CHOOSE f : f = Next1(f)
<1>1. Multi!LineTotals(b) = sums
  BY Zenon DEF Multi!LineTotals
<1>2. l \in Seq(SpansOf(t)) /\ Len(l) \in Nat /\ Len(l) \in 0..Len(l)
  BY DEF AreSpans
<1>3. /\ n \in Nat /\ n = Cardinality(Begins(t, l, Len(l))) /\ (n = 0 <=> Len(l) = 0)
      /\ \A m \in 1..n : b[m] = BlockOver(t, l, i(m), j(m)) /\ IsBlock(t, l, i(m), j(m))
  BY BlocksHave
<1> HIDE DEF b, n
<1>4. ASSUME NEW m \in 1..n
      PROVE  /\ b[m].startLine = first(m) /\ b[m].endLine = last(m)
             /\ first(m) \in Nat /\ last(m) \in Nat /\ first(m) <= last(m)
             /\ i(m) \in 1..Len(l) /\ j(m) \in 1..Len(l)
  <2>1. IsBlock(t, l, i(m), j(m)) /\ b[m] = BlockOver(t, l, i(m), j(m))
    BY <1>3
  <2> HIDE DEF i, j
  <2>2. i(m) \in 1..Len(l) /\ j(m) \in i(m)..Len(l)
    BY <2>1 DEF IsBlock
  <2>3. first(m) \in Nat /\ last(m) \in Nat /\ first(m) <= last(m)
    BY <2>1, <2>2, MatchInBlock
  <2> QED
    BY <1>2, <2>1, <2>2, <2>3 DEF BlockOver
<1>5. ASSUME NEW m \in 1..n, NEW q \in 1..n, m < q PROVE last(m) < first(q)
  <2>1. j(m) < i(q)
    BY <1>2, <1>3, <1>5, PartsInOrder
  <2>2. IsBlock(t, l, i(q), j(q)) /\ j(m) \in 1..Len(l) /\ i(q) \in 1..Len(l)
    BY <1>3, <1>4
  <2> HIDE DEF i, j
  <2>3. j(m) \in 1..(i(q) - 1)
    BY <2>1, <2>2
  <2> QED
    BY <2>2, <2>3 DEF IsBlock
<1> HIDE DEF i, j
<1>6. ASSUME NEW k \in 0..n
      PROVE  /\ IsFiniteSet(Till(k)) /\ At(k) \in Nat
             /\ k # 0 => At(k) = At(k - 1) + (last(k) - first(k)) + 1
  <2> DEFINE G == {k1 \in 0..n : IsFiniteSet(Till(k1))}
  <2>1. Till(0) = {}
    BY <1>3
  <2>2. 0 \in G
    BY <1>3, <2>1, FS_EmptySet
  <2>3. ASSUME NEW k1 \in 1..n
        PROVE  /\ Till(k1) = Till(k1 - 1) \cup (first(k1)..last(k1))
               /\ Till(k1 - 1) \cap (first(k1)..last(k1)) = {}
               /\ IsFiniteSet(first(k1)..last(k1))
               /\ Cardinality(first(k1)..last(k1)) = (last(k1) - first(k1)) + 1
    <3>1. \A m : m \in 1..k1 <=> m \in 1..(k1 - 1) \/ m = k1
      BY <1>3
    <3> HIDE DEF first, last
    <3>2. Till(k1) = Till(k1 - 1) \cup (first(k1)..last(k1))
      BY <3>1
    <3>3. ASSUME NEW m \in 1..(k1 - 1), NEW x \in first(m)..last(m),
                 x \in first(k1)..last(k1)
          PROVE  FALSE
      <4>1. m \in 1..n /\ m < k1
        BY <1>3
      <4>2. last(m) < first(k1) /\ last(m) \in Nat /\ first(k1) \in Nat
            /\ first(m) \in Nat /\ last(k1) \in Nat
        BY <1>4, <1>5, <4>1
      <4> QED
        BY <3>3, <4>2
    <3>4. Till(k1 - 1) \cap (first(k1)..last(k1)) = {}
      BY <3>3
    <3>5. first(k1) \in Int /\ last(k1) \in Int /\ first(k1) <= last(k1)
      BY <1>4
    <3>6. /\ IsFiniteSet(first(k1)..last(k1))
          /\ Cardinality(first(k1)..last(k1))
               = IF first(k1) > last(k1) THEN 0 ELSE last(k1) - first(k1) + 1
      BY <3>5, FS_Interval
    <3> QED
      BY <3>2, <3>4, <3>5, <3>6
  <2> HIDE DEF Till, first, last
  <2>4. ASSUME NEW k1 \in 1..n, k1 - 1 \in G PROVE k1 \in G
    <3>1. IsFiniteSet(Till(k1 - 1)) /\ k1 \in 0..n
      BY <1>3, <2>4
    <3> DEFINE A == Till(k1 - 1)
               B == first(k1)..last(k1)
    <3>2. Till(k1) = A \cup B /\ IsFiniteSet(B)
      BY <2>3
    <3> HIDE DEF B
    <3>3. IsFiniteSet(A)
      BY <3>1
    <3> HIDE DEF A
    <3>4. IsFiniteSet(Till(k1))
      BY <3>2, <3>3, FS_Union
    <3> QED
      BY <3>1, <3>4
  <2>5. \A k1 \in 0..n : k1 \in G
    <3> HIDE DEF G
    <3> QED
      BY <1>3, <2>2, <2>4, StepByStep
  <2>6. \A k1 \in 0..n : IsFiniteSet(Till(k1)) /\ At(k1) \in Nat
    BY <2>5, FS_CardinalityType
  <2>7. ASSUME k # 0 PROVE At(k) = At(k - 1) + (last(k) - first(k)) + 1
    <3> DEFINE A == Till(k - 1)
               B == first(k)..last(k)
    <3>1. k \in 1..n /\ k - 1 \in 0..n
      BY <1>3, <2>7
    <3>2. /\ Till(k) = A \cup B /\ A \cap B = {} /\ IsFiniteSet(B)
          /\ Cardinality(B) = (last(k) - first(k)) + 1
      BY <2>3, <3>1
    <3>3. IsFiniteSet(A) /\ Cardinality(A) \in Nat
      BY <2>6, <3>1
    <3>4. last(k) \in Nat /\ first(k) \in Nat
      BY <1>4, <3>1
    <3> HIDE DEF A, B
    <3>5. Cardinality(A \cup B) = Cardinality(A) + Cardinality(B) - Cardinality(A \cap B)
      BY <3>2, <3>3, FS_Union
    <3>6. Cardinality(A \cap B) = 0
      BY <3>2, FS_EmptySet
    <3>7. Cardinality(A \cup B) = Cardinality(A) + (last(k) - first(k)) + 1
      BY <3>2, <3>3, <3>4, <3>5, <3>6
    <3> QED
      BY <3>2, <3>7 DEF A
  <2> QED
    BY <2>6, <2>7
<1>7. At(0) = 0
  <2>1. Till(0) = {}
    BY <1>3
  <2> QED
    BY <2>1, FS_EmptySet
<1>8. Till(n) = Covered(t, ToSet(l))
  <2>1. ASSUME NEW x \in Till(n) PROVE x \in Covered(t, ToSet(l))
    <3>1. PICK m \in 1..n : x \in first(m)..last(m)
      OBVIOUS
    <3> QED
      BY <1>3, <3>1, TogetherIs
  <2>2. ASSUME NEW x \in Covered(t, ToSet(l)) PROVE x \in Till(n)
    <3>1. PICK p \in 1..Len(l) : x \in Touched(t, l[p])
      BY <1>2 DEF Covered, ToSet
    <3>2. PICK m \in 1..n : p \in i(m)..j(m)
      BY <1>2, <1>3, PartExists DEF i, j
    <3>3. IsBlock(t, l, i(m), j(m))
      BY <1>3
    <3>4. /\ FirstLine(t, l[p]) \in Nat /\ LastLineOf(t, l[p]) \in Nat
          /\ first(m) \in Nat /\ last(m) \in Nat
          /\ first(m) <= FirstLine(t, l[p]) /\ LastLineOf(t, l[p]) <= last(m)
      BY <3>2, <3>3, MatchInBlock
    <3> HIDE DEF first, last
    <3>5. x \in first(m)..last(m)
      BY <3>1, <3>4, TouchedIs
    <3> QED
      BY <3>5
  <2> QED
    BY <2>1, <2>2
<1> HIDE DEF At, Till, first, last
<1>9. \A k \in 1..n : At(k) = At(k - 1) + (b[k].endLine - b[k].startLine) + 1
  <2> TAKE k \in 1..n
  <2>1. k \in 0..n /\ k # 0
    BY <1>3
  <2> QED
    BY <1>4, <1>6, <2>1
<1>10. g = Next1(g)
  <2>1. \A k \in 0..n : k # 0 => k \in 1..n /\ k - 1 \in 0..n
    BY <1>3
  <2>2. \A k \in 0..n :
          g[k] = IF k = 0 THEN 0 ELSE g[k - 1] + (b[k].endLine - b[k].startLine) + 1
    BY <1>7, <1>9, <2>1
  <2> QED
    BY <2>2
<1>11. ASSUME NEW f, f = Next1(f) PROVE \A k \in 0..n : f[k] = g[k]
  <2> DEFINE G == {k \in 0..n : f[k] = g[k]}
  <2>1. 0 \in G
    BY <1>3, <1>7, <1>11
  <2>2. ASSUME NEW k \in 1..n, k - 1 \in G PROVE k \in G
    <3>1. k \in 0..n /\ k # 0 /\ k - 1 \in 0..n
      BY <1>3, <2>2
    <3>2. f[k] = f[k - 1] + (b[k].endLine - b[k].startLine) + 1
      BY <1>11, <3>1
    <3>3. f[k - 1] = At(k - 1) /\ g[k] = At(k)
      BY <2>2, <3>1
    <3> HIDE DEF g
    <3> QED
      BY <1>9, <3>1, <3>2, <3>3
  <2> HIDE DEF G
  <2>3. \A k \in 0..n : k \in G
    BY <1>3, <2>1, <2>2, StepByStep
  <2> QED
    BY <2>3 DEF G
<1>12. sums = Next1(sums)
  <2>1. \E f : f = Next1(f)
    BY <1>10
  <2> QED
    BY <2>1, Zenon
<1> HIDE DEF sums
<1>13. sums[n] = At(n)
  <2>1. \A k \in 0..n : sums[k] = g[k]
    BY <1>11, <1>12
  <2>2. n \in 0..n
    BY <1>3
  <2> QED
    BY <2>1, <2>2
<1> QED
  BY <1>1, <1>8, <1>13 DEF Multi!MatchingLines, At, b, n

-----------------------------------------------------------------------------
(* What is reported of a block *)

\* The least and the greatest of the numbers a to b.
LEMMA EndsOfInterval ==
  ASSUME NEW a \in Nat, NEW b \in Nat, a <= b
  PROVE  Min(a..b) = a /\ Max(a..b) = b
<1> DEFINE A == a..b
<1>1. a \in A /\ b \in A /\ \A x \in A : x \in Nat /\ a <= x /\ x <= b
  OBVIOUS
<1> HIDE DEF A
<1>2. Min(A) \in A /\ \A y \in A : Min(A) <= y
  BY <1>1, LeastExists
<1> DEFINE k == Min(A)
<1> HIDE DEF k
<1>3. k = a
  <2>1. k \in A /\ k <= a
    BY <1>1, <1>2 DEF k
  <2> QED
    BY <1>1, <2>1
<1>4. \E x \in A : \A y \in A : x >= y
  BY <1>1
<1>5. Max(A) \in A /\ \A y \in A : Max(A) >= y
  BY <1>4 DEF Max
<1> DEFINE m == Max(A)
<1> HIDE DEF m
<1>6. m \in A /\ m >= b
  BY <1>1, <1>5 DEF m
<1>7. m = b
  BY <1>1, <1>6
<1> QED
  BY <1>3, <1>7 DEF A, k, m

\* The matches on the lines of a block are those it is made of.
LEMMA SpansOfBlock ==
  ASSUME NEW t \in Seq(Byte), NEW l, AreSpans(t, l), NEW i, NEW j, IsBlock(t, l, i, j)
  PROVE  LET part == SubSeq(l, i, j)
             lines == FirstLine(t, l[i])..LastLineOf(t, l[j])
         IN  ToSet(part) = {r \in ToSet(l) : Touched(t, r) \subseteq lines}
<1> DEFINE part == SubSeq(l, i, j)
           a == FirstLine(t, l[i])
           b == LastLineOf(t, l[j])
           R == {r \in ToSet(l) : Touched(t, r) \subseteq a..b}
<1>1. l \in Seq(SpansOf(t)) /\ Len(l) \in Nat
  BY DEF AreSpans
<1>2. i \in 1..Len(l) /\ j \in i..Len(l) /\ i \in Nat /\ j \in Nat /\ i <= j
  BY <1>1 DEF IsBlock
<1>3. /\ part \in Seq(SpansOf(t)) /\ Len(part) = j - i + 1
      /\ \A x \in 1..(j - i + 1) : part[x] = l[i + x - 1]
  <2>1. \A x \in i..j : l[x] \in SpansOf(t)
    BY <1>1, <1>2
  <2> QED
    BY <1>2, <2>1, SubSeqProperties
<1> HIDE DEF part
<1>4. ToSet(l) = {l[p] : p \in 1..Len(l)}
  BY <1>1 DEF ToSet
<1>5. ToSet(part) = {part[x] : x \in 1..(j - i + 1)}
  <2>1. part \in Seq(SpansOf(t))
    BY <1>3
  <2>2. ToSet(part) = {part[x] : x \in 1..Len(part)}
    BY <2>1 DEF ToSet
  <2> QED
    BY <1>3, <2>2
<1>6. ASSUME NEW p \in i..j PROVE l[p] \in R /\ l[p] \in ToSet(part)
  <2>1. p \in 1..Len(l)
    BY <1>1, <1>2
  <2> DEFINE f == FirstLine(t, l[p])
             g == LastLineOf(t, l[p])
  <2>2. /\ f \in Nat /\ g \in Nat /\ a \in Nat /\ b \in Nat
        /\ a <= f /\ g <= b
    BY <2>1, MatchInBlock
  <2>3. Touched(t, l[p]) = f..g
    BY TouchedIs
  <2> HIDE DEF a, b, f, g
  <2>4. Touched(t, l[p]) \subseteq a..b
    BY <2>2, <2>3
  <2> DEFINE x == p - i + 1
  <2>5. x \in 1..(j - i + 1) /\ i + x - 1 = p
    BY <1>2
  <2> HIDE DEF x
  <2>6. part[x] = l[p]
    BY <1>3, <2>5
  <2>7. l[p] \in ToSet(part)
    BY <1>5, <2>5, <2>6
  <2> QED
    BY <1>4, <2>1, <2>4, <2>7
<1>7. ASSUME NEW r \in ToSet(part) PROVE r \in R
  <2>1. PICK x \in 1..(j - i + 1) : r = part[x]
    BY <1>5
  <2> DEFINE p == i + x - 1
  <2>2. p \in i..j /\ part[x] = l[p]
    BY <1>2, <1>3
  <2> HIDE DEF p, R
  <2> QED
    BY <1>6, <2>1, <2>2
<1>8. ASSUME NEW r \in R PROVE r \in ToSet(part)
  <2>1. PICK p \in 1..Len(l) : r = l[p]
    BY <1>4
  <2> DEFINE f == FirstLine(t, l[p])
             g == LastLineOf(t, l[p])
  <2>2. /\ f \in Nat /\ g \in Nat /\ f <= g /\ a \in Nat /\ b \in Nat
        /\ p \notin i..j => g < a \/ b < f
    BY <2>1, MatchInBlock
  <2>3. f \in a..b /\ g \in a..b
    <3>1. Touched(t, l[p]) = f..g /\ Touched(t, l[p]) \subseteq a..b
      BY <2>1, TouchedIs
    <3> HIDE DEF f, g, a, b
    <3> QED
      BY <2>2, <3>1
  <2> HIDE DEF f, g, a, b
  <2>4. p \in i..j
    BY <2>2, <2>3
  <2> QED
    BY <1>6, <2>1, <2>4
<1>9. ToSet(part) = R
  BY <1>7, <1>8
<1> QED
  BY <1>9 DEF part

\* The context of the report, by the lines of a block.
LEMMA MatchIs ==
  ASSUME NEW t \in Seq(Byte), NEW l, AreSpans(t, l), NEW i, NEW j, IsBlock(t, l, i, j),
         options \in Options, NEW n \in FirstLine(t, l[i])..LastLineOf(t, l[j])
  PROVE  [Multi!MatchOf(t, BlockOver(t, l, i, j), options) EXCEPT !.spans = ToSet(@)]
           = BlockOf(t, ToSet(l), n)
<1> DEFINE S == ToSet(l)
           a == FirstLine(t, l[i])
           b == LastLineOf(t, l[j])
           first == BeginOf(t, a)
           last == BeginOf(t, b)
           part == SubSeq(l, i, j)
           block == BlockOver(t, l, i, j)
           rel(s) == [start |-> s.start - first, end |-> s.end - first]
           list == [x \in 1..Len(part) |-> rel(part[x])]
           before1 == ContextAt(t, Preceding(StartsOf(t), first, options.before))
           after1 == ContextAt(t, Following(StartsOf(t), last, options.after))
           text1 == SubSeq(t, first + 1, EndAt(t, last))
<1>1. l \in Seq(SpansOf(t)) /\ Len(l) \in Nat /\ i \in 1..Len(l) /\ j \in i..Len(l)
      /\ j \in 1..Len(l)
  BY DEF AreSpans, IsBlock
<1>2. /\ a \in Lines(t) /\ b \in Lines(t) /\ a \in Nat /\ b \in Nat /\ a <= b
  BY <1>1, SpansInOrder, MatchInBlock
<1>3. Together(t, S, n) = a..b
  BY TogetherIs
<1>4. Min(a..b) = a /\ Max(a..b) = b
  <2> HIDE DEF a, b
  <2> QED
    BY <1>2, EndsOfInterval
<1>5. /\ first \in StartsOf(t) /\ NumberOf(t, first) = a
      /\ last \in StartsOf(t) /\ NumberOf(t, last) = b
  <2> HIDE DEF a, b
  <2> QED
    BY <1>2, LinesAre
<1>6. options.before \in Nat /\ options.after \in Nat
  BY OptionTypes
<1>7. /\ block.startLine = a /\ block.endLine = b /\ block.startByte = first
      /\ block.endByte = EndAt(t, last) /\ block.spans = part
  <2> DEFINE e == EndAt(t, last)
  <2>1. block = [startLine |-> a, endLine |-> b, startByte |-> first, endByte |-> e,
                 spans |-> part]
    BY DEF BlockOver
  <2> HIDE DEF block, a, b, first, e, part
  <2> QED
    BY <2>1 DEF e
<1> HIDE DEF block, a, b, first, last, part, S
<1>8. Multi!ContextBefore(t, first, a, options.before) = before1
  BY <1>5, <1>6, BeforeIs
<1>9. Multi!ContextAfter(t, EndAt(t, last), b, options.after) = after1
  BY <1>5, <1>6, AfterIs
<1>10. Multi!MatchOf(t, block, options) =
         [number |-> a, endNumber |-> b, offset |-> first, text |-> text1, spans |-> list,
          before |-> before1, after |-> after1]
  BY <1>7, <1>8, <1>9 DEF Multi!MatchOf
<1> DEFINE R == {rel(s) : s \in {r \in S : Touched(t, r) \subseteq a..b}}
<1>11. ToSet(list) = R
  <2>1. ToSet(part) = {r \in S : Touched(t, r) \subseteq a..b}
    BY SpansOfBlock DEF part, S, a, b
  <2>2. ToSet(list) = {rel(part[x]) : x \in 1..Len(part)}
    BY DEF ToSet
  <2>3. ToSet(part) = {part[x] : x \in 1..Len(part)}
    <3>1. part \in Seq(SpansOf(t))
      <4>1. i \in Int /\ j \in Int /\ \A x \in i..j : l[x] \in SpansOf(t)
        BY <1>1
      <4> QED
        BY <4>1, SubSeqProperties DEF part
    <3> QED
      BY <3>1 DEF ToSet
  <2> HIDE DEF rel
  <2>4. {rel(part[x]) : x \in 1..Len(part)} = {rel(s) : s \in ToSet(part)}
    BY <2>3
  <2> QED
    BY <2>1, <2>2, <2>4
<1>12. BlockOf(t, S, n) =
         [number |-> a, endNumber |-> b, offset |-> first, text |-> text1, spans |-> R,
          before |-> before1, after |-> after1]
  <2>1. EndOf(t, b) = EndAt(t, last)
    BY DEF EndOf, EndAt, last
  <2> QED
    BY <1>3, <1>4, <2>1 DEF BlockOf, first, last
<1> HIDE DEF before1, after1, text1, list, R
<1> DEFINE x == [number |-> a, endNumber |-> b, offset |-> first, text |-> text1,
                 spans |-> list, before |-> before1, after |-> after1]
<1>13. [x EXCEPT !.spans = ToSet(x.spans)] = BlockOf(t, S, n)
  <2>1. x.spans = list
    OBVIOUS
  <2> DEFINE r == ToSet(x.spans)
  <2>2. r = R
    BY <1>11, <2>1
  <2> HIDE DEF r
  <2>3. [x EXCEPT !.spans = r] =
          [number |-> a, endNumber |-> b, offset |-> first, text |-> text1,
           spans |-> r, before |-> before1, after |-> after1]
    OBVIOUS
  <2> QED
    BY <1>12, <2>2, <2>3 DEF r
<1> QED
  BY <1>10, <1>13 DEF S, block

-----------------------------------------------------------------------------
(* The theorem *)

\* Every newline ends a line, and so does the end of a text behind the last one.
LEMMA LinesCounted ==
  ASSUME NEW t \in Seq(Byte)
  PROVE  Multi!LogicalLineCount(t) = Cardinality(LineStarts(t))
<1> DEFINE B == {i \in 1..Len(t) : t[i] = Newline}
           S == LineStarts(t)
           n == Len(t)
<1>1. B = Breaks(t) /\ n \in Nat /\ IsFiniteSet(B) /\ B \in SUBSET (1..n)
  <2>1. B = Breaks(t)
    BY DEF Breaks
  <2> QED
    BY <2>1, TextHas
<1>2. \A s : s \in S <=> (s = 0 \/ s \in B) /\ s < n
  BY <1>1 DEF LineStarts
<1>3. IsFiniteSet(S) /\ Cardinality(S) \in Nat /\ Cardinality(B) \in Nat
  BY <1>1, TextHas, FS_CardinalityType
<1>4. Multi!LogicalLineCount(t) =
        IF t = <<>> THEN 0 ELSE Cardinality(B) + (IF Last(t) = Newline THEN 0 ELSE 1)
  <2>1. Multi!Cardinality(B) = Cardinality(B)
    BY Zenon DEF Multi!Cardinality, Cardinality
  <2>2. Multi!Last(t) = Last(t)
    BY Zenon DEF Multi!Last, Last
  <2> QED
    BY <2>1, <2>2 DEF Multi!LogicalLineCount
<1>5. CASE t = <<>>
  <2>1. S = {}
    BY <1>1, <1>2, <1>5
  <2> QED
    BY <1>4, <1>5, <2>1, FS_EmptySet
<1>6. CASE t # <<>>
  <2>1. n \in 1..n /\ (Last(t) = Newline <=> n \in B) /\ 0 \notin B
    BY <1>1, <1>6 DEF Last
  <2> HIDE DEF B, S, n
  <2>2. IsFiniteSet(B \cup {0}) /\ Cardinality(B \cup {0}) = Cardinality(B) + 1
    BY <1>1, <2>1, FS_AddElement
  <2>3. CASE n \in B
    <3>1. S = (B \cup {0}) \ {n}
      BY <1>1, <1>2, <2>1
    <3>2. Cardinality(S) = Cardinality(B \cup {0}) - 1
      BY <2>2, <2>3, <3>1, FS_RemoveElement
    <3> QED
      BY <1>3, <1>4, <1>6, <2>1, <2>2, <2>3, <3>2 DEF S
  <2>4. CASE n \notin B
    <3>1. S = B \cup {0}
      BY <1>1, <1>2, <2>1, <2>4
    <3> QED
      BY <1>3, <1>4, <1>6, <2>1, <2>2, <2>4, <3>1 DEF S
  <2> QED
    BY <2>3, <2>4
<1> QED
  BY <1>5, <1>6

\* What the regular expression may find is in order, within the text.
LEMMA FoundInOrder ==
  ASSUME NEW t \in Seq(Byte), NEW l \in SpanLists(t)
  PROVE  AreSpans(t, l)
<1> DEFINE Span == {s \in SpansOf(t) :
                      s.start <= s.end /\ MayFind(SubSeq(t, s.start + 1, s.end))}
           next(a, b) == b.start >= a.end /\ (b.start = b.end => b.start > a.end)
<1>1. l \in BoundedSeq(Span, MaxSpans) /\ \A i \in 2..Len(l) : next(l[i - 1], l[i])
  BY DEF SpanLists
<1>2. \A s \in Span : s \in SpansOf(t) /\ s.start <= s.end
  OBVIOUS
<1> HIDE DEF Span
<1>3. PICK m \in 0..MaxSpans : l \in [1..m -> Span]
  BY <1>1 DEF BoundedSeq, SeqOf
<1>4. l \in Seq(Span) /\ Len(l) = m
  <2>1. m \in Nat
    BY FileAssumption
  <2> HIDE DEF next
  <2> QED
    BY <1>3, <2>1
<1>5. l \in Seq(SpansOf(t)) /\ \A i \in 1..Len(l) : l[i].start <= l[i].end
  BY <1>2, <1>4
<1> QED
  BY <1>1, <1>5 DEF AreSpans

\* The blocks that are reported are those of the lines that matches touch.
LEMMA BlocksReported ==
  ASSUME NEW t \in Seq(Byte), NEW l, AreSpans(t, l), options \in Options
  PROVE  {[m EXCEPT !.spans = ToSet(@)] :
            m \in {Multi!MatchOf(t, b, options) : b \in ToSet(Multi!Blocks(t, l))}}
           = {BlockOf(t, ToSet(l), x) : x \in Covered(t, ToSet(l))}
<1> DEFINE B == BlocksAt(t, l, Len(l))
           n == Cardinality(Begins(t, l, Len(l)))
           i(m) == From(t, l, Len(l), m)
           j(m) == To(t, l, Len(l), m)
           S == ToSet(l)
           f(b) == [Multi!MatchOf(t, b, options) EXCEPT !.spans = ToSet(@)]
           R == {f(b) : b \in ToSet(B)}
<1>1. Multi!Blocks(t, l) = B
  BY BlocksAre
<1>2. /\ n \in Nat /\ IsList(B, n) /\ Len(B) = n
      /\ \A m \in 1..n : B[m] = BlockOver(t, l, i(m), j(m)) /\ IsBlock(t, l, i(m), j(m))
  BY BlocksHave
<1>3. l \in Seq(SpansOf(t)) /\ Len(l) \in 0..Len(l)
  BY DEF AreSpans
<1>4. \A p \in 1..Len(l) : \E m \in 1..n : p \in i(m)..j(m)
  BY <1>3, PartExists
<1> HIDE DEF B, n, i, j
<1>5. ToSet(B) = {B[m] : m \in 1..n}
  BY <1>2 DEF ToSet, IsList
<1>6. ASSUME NEW m \in 1..n, NEW x \in FirstLine(t, l[i(m)])..LastLineOf(t, l[j(m)])
      PROVE  f(B[m]) = BlockOf(t, S, x) /\ x \in Covered(t, S)
  <2>1. IsBlock(t, l, i(m), j(m)) /\ B[m] = BlockOver(t, l, i(m), j(m))
    BY <1>2
  <2> QED
    BY <2>1, MatchIs, TogetherIs
<1>7. ASSUME NEW m \in 1..n
      PROVE  FirstLine(t, l[i(m)]) \in FirstLine(t, l[i(m)])..LastLineOf(t, l[j(m)])
  <2>1. IsBlock(t, l, i(m), j(m)) /\ i(m) \in 1..Len(l)
    BY <1>2 DEF IsBlock
  <2>2. /\ FirstLine(t, l[i(m)]) \in Nat /\ LastLineOf(t, l[j(m)]) \in Nat
        /\ FirstLine(t, l[i(m)]) <= LastLineOf(t, l[j(m)])
    BY <2>1, MatchInBlock
  <2> QED
    BY <2>2
<1>8. ASSUME NEW x \in Covered(t, S)
      PROVE  \E m \in 1..n : x \in FirstLine(t, l[i(m)])..LastLineOf(t, l[j(m)])
  <2>1. PICK p \in 1..Len(l) : x \in Touched(t, l[p])
    BY <1>3 DEF Covered, ToSet
  <2>2. PICK m \in 1..n : p \in i(m)..j(m)
    BY <1>4
  <2> DEFINE a == FirstLine(t, l[p])
             b == LastLineOf(t, l[p])
             c == FirstLine(t, l[i(m)])
             d == LastLineOf(t, l[j(m)])
  <2>3. a \in Nat /\ b \in Nat /\ c \in Nat /\ d \in Nat /\ c <= a /\ b <= d
    BY <1>2, <2>2, MatchInBlock
  <2>4. x \in a..b
    BY <2>1, TouchedIs
  <2> HIDE DEF a, b, c, d
  <2>5. x \in c..d
    BY <2>3, <2>4
  <2> QED
    BY <2>5 DEF c, d
<1> HIDE DEF f, S
<1>9. R = {BlockOf(t, S, x) : x \in Covered(t, S)}
  <2>1. ASSUME NEW r \in R PROVE \E x \in Covered(t, S) : r = BlockOf(t, S, x)
    <3>1. PICK m \in 1..n : r = f(B[m])
      BY <1>5
    <3> QED
      BY <1>6, <1>7, <3>1
  <2>2. ASSUME NEW x \in Covered(t, S) PROVE BlockOf(t, S, x) \in R
    <3>1. PICK m \in 1..n : x \in FirstLine(t, l[i(m)])..LastLineOf(t, l[j(m)])
      BY <1>8
    <3>2. BlockOf(t, S, x) = f(B[m]) /\ B[m] \in ToSet(B)
      BY <1>5, <1>6, <3>1
    <3> QED
      BY <3>2
  <2> HIDE DEF R
  <2> QED
    BY <2>1, <2>2
<1>10. {[m EXCEPT !.spans = ToSet(@)] :
          m \in {Multi!MatchOf(t, b, options) : b \in ToSet(B)}} = R
  BY Zenon DEF f
<1> QED
  BY <1>1, <1>9, <1>10 DEF S

\* The search of a whole text.
LEMMA MultilineReports ==
  ASSUME FileInv, SearchMultiline
  PROVE  MultilineBlocksAreLines'
<1> DEFINE t == text
           l == spans'
           B == Multi!Blocks(t, l)
           S == ToSet(l)
<1>1. t \in Seq(Byte) /\ options \in Options
  BY DEF FileInv, Searcher, LineTypes
<1>2. /\ l \in SpanLists(t) /\ text' = t /\ options' = options
      /\ retained' = IF options.result # "Matches" THEN {}
                     ELSE {Multi!MatchOf(t, b, options) : b \in ToSet(B)}
      /\ matchingLines' = Multi!MatchingLines(B)
      /\ occurrences' = Multi!Occurrences(B)
      /\ totalLines' = Multi!LogicalLineCount(t)
  BY DEF SearchMultiline
<1> HIDE DEF t, l, B
<1>3. AreSpans(t, l)
  BY <1>1, <1>2, FoundInOrder
<1>4. B = BlocksAt(t, l, Len(l))
  BY <1>1, <1>3, BlocksAre DEF B
<1>5. matchingLines' = Cardinality(Covered(t, S)) /\ occurrences' = Len(l)
  BY <1>1, <1>2, <1>3, <1>4, MatchingLinesAre, OccurrencesAre
<1>6. totalLines' = Cardinality(LineStarts(t))
  BY <1>1, <1>2, LinesCounted
<1>7. options.result = "Matches" =>
        {[m EXCEPT !.spans = ToSet(@)] : m \in retained'}
          = {BlockOf(t, S, n) : n \in Covered(t, S)}
  BY <1>1, <1>2, <1>3, BlocksReported DEF B
<1> QED
  BY <1>2, <1>5, <1>6, <1>7 DEF MultilineBlocksAreLines, BlockOf, t, l

\* No other step ends a multiline search that has a report.
LEMMA MultilineKept ==
  ASSUME FileInv, MultilineBlocksAreLines, FileInv', [FileNext]_allVars
  PROVE  MultilineBlocksAreLines'
<1>1. CASE SearchMultiline
  BY <1>1, MultilineReports
<1>2. CASE UNCHANGED allVars
  <2>1. /\ UNCHANGED <<mode, options, totalLines, spans, text, retained>>
        /\ UNCHANGED <<matchingLines, occurrences>>
    BY <1>2 DEF allVars, vars, searcherVars, matchVars, fileVars, modeVars
  <2> QED
    BY <2>1 DEF MultilineBlocksAreLines, BlockOf
<1>3. CASE FileNext /\ ~SearchMultiline /\ ~UNCHANGED allVars
  <2> SUFFICES ASSUME mode' = "finished", options'.mode = "Multiline", totalLines' # Open
               PROVE  FALSE
    BY DEF MultilineBlocksAreLines
  <2>1. CASE \E n \in 0..Len(source) :
               KeepPrefix(n) \/ StartAuto(n) \/ PushLines(n) \/ PushBuffer(n) \/ PushSkipped(n)
    BY <2>1 DEF KeepPrefix, StartAuto, PushLines, PushBuffer, PushSkipped, Skip, modeVars
  <2>2. CASE LineStep /\ UNCHANGED fileVars
    <3>1. phase # "idle" /\ options' = options /\ mode' = mode
      BY <2>2, LineStepMoves DEF fileVars, modeVars
    <3> QED
      BY <3>1 DEF FileInv, Decided, LinesBegun, LinesOnly
  <2>3. CASE FinishLines
    <3>1. mode \in {"streaming", "complete"} /\ options' = options
      BY <2>3 DEF FinishLines, FinishLine
    <3> QED
      BY <3>1 DEF FileInv, Decided, Streamed, LinesBegun, LinesOnly
  <2>4. CASE SearchComplete
    <3>1. mode \in {"undecided", "buffered"} /\ UNCHANGED totalLines
      BY <2>4 DEF SearchComplete, vars, searcherVars
    <3> QED
      BY <3>1 DEF FileInv, Searcher, LineInit
  <2>5. CASE SearchArchive
    BY <2>5 DEF SearchArchive
  <2>6. CASE FinishSkipped
    <3>1. mode = "skipped" /\ UNCHANGED totalLines
      BY <2>6 DEF FinishSkipped, vars, searcherVars
    <3> QED
      BY <3>1 DEF FileInv, Searcher, LineInv, Position
  <2> QED
    BY <1>3, <2>1, <2>2, <2>3, <2>4, <2>5, <2>6 DEF FileNext
<1> QED
  BY <1>1, <1>2, <1>3

\* Whatever the regular expression finds, a multiline search reports the lines it touches
\* as blocks that no match crosses, each with its matches and context, and counts each
\* line, match and line of the text once.
THEOREM FileMultilineBlocksAreLines == FileSpec => []MultilineBlocksAreLines
<1>1. FileInit => MultilineBlocksAreLines
  BY DEF FileInit, FirstMode, MultilineBlocksAreLines
<1> QED
  BY <1>1, MultilineKept, FileInvariant, PTL DEF FileSpec

=============================================================================
