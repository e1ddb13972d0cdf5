-------------------------- MODULE IndexSearchProofs --------------------------
(***************************************************************************)
(* A search through an index drops no file with a match: what the index    *)
(* does not search has nothing to find.                                    *)
(*                                                                         *)
(* The demand of a query is a recursive function on the tree of the        *)
(* regular expression, and so is its language; both exist because the      *)
(* children of a node have smaller numbers.  The first part compares the   *)
(* two: every match contains the mandatory literal.  The second follows a  *)
(* file through the search, and finds each counted match in its bytes; the *)
(* last is the prefilter.                                                  *)
(***************************************************************************)
EXTENDS IndexSearch, MultilineProofs

-----------------------------------------------------------------------------
(* The recursions of the prefilter *)

Nodes == DOMAIN Hir

\* What f says of the children of n.
Below(n, f) == [i \in 1..Len(Hir[n].children) |-> f[Hir[n].children[i]]]

\* The nodes are as a tree of regex-syntax has them.
LEMMA NodeTypes ==
  /\ Nodes \in SUBSET Nat /\ Nothing \notin Seq(Byte) /\ MaxLanguage \in Nat
  /\ \A n \in Nodes :
       /\ Hir[n].min \in Nat /\ Hir[n].max \in Nat /\ Hir[n].bytes \in Seq(Byte)
       /\ Hir[n].kind \in {"capture", "repetition"} => Len(Hir[n].children) = 1
       /\ Hir[n].kind \in {"literal", "class", "empty", "look", "capture", "repetition",
                           "concat", "alternation"}
       /\ Len(Hir[n].children) \in Nat
       /\ \A i \in 1..Len(Hir[n].children) : Hir[n].children[i] \in Nodes /\ Hir[n].children[i] < n
<1>1. \A n \in Nodes : n \in Nat
  BY QueryAssumption DEF Nodes
<1>2. ASSUME NEW n \in Nodes
      PROVE  /\ Hir[n].min \in Nat /\ Hir[n].max \in Nat /\ Hir[n].bytes \in Seq(Byte)
             /\ Hir[n].kind \in {"capture", "repetition"} => Len(Hir[n].children) = 1
             /\ Hir[n].kind \in {"literal", "class", "empty", "look", "capture", "repetition",
                                 "concat", "alternation"}
             /\ Hir[n].children \in Seq({c \in Nodes : c < n})
  BY <1>2, QueryAssumption DEF Nodes
<1>3. ASSUME NEW n \in Nodes, NEW i \in 1..Len(Hir[n].children)
      PROVE  Hir[n].children[i] \in {c \in Nodes : c < n}
  <2> DEFINE C == {c \in Nodes : c < n}
             children == Hir[n].children
  <2>1. children \in Seq(C) /\ i \in 1..Len(children)
    BY <1>2, <1>3
  <2> HIDE DEF C, children
  <2>2. children[i] \in C
    BY <2>1
  <2> QED
    BY <2>2 DEF C, children
<1>4. \A n \in Nodes : Len(Hir[n].children) \in Nat
  BY <1>2
<1> QED
  BY <1>1, <1>2, <1>3, <1>4, QueryAssumption

\* The children's values are those of their numbers.
LEMMA BelowHas ==
  ASSUME NEW n \in Nodes, NEW V
  PROVE  /\ \A f \in [Nodes -> V] : Below(n, f) \in [1..Len(Hir[n].children) -> V]
         /\ \A f, g \in [Nodes -> V] :
              (\A m \in Nodes : m < n => f[m] = g[m]) => Below(n, f) = Below(n, g)
BY NodeTypes DEF Below

\* The numbers of a sequence that are not empty have a largest.
LEMMA LastOfSome ==
  ASSUME NEW l \in Nat, NEW S \in SUBSET (1..l), S # {}
  PROVE  Filter!Max(S) \in S /\ \A i \in S : i <= Filter!Max(S)
<1> DEFINE above == {l - i : i \in S}
<1>1. above \in SUBSET Nat /\ above # {}
  <2>1. \A i \in S : l - i \in Nat
    OBVIOUS
  <2> QED
    BY <2>1
<1>2. PICK i \in S : l - i = Min(above)
  BY <1>1, LeastExists
<1>3. \A j \in S : j <= i
  BY <1>1, <1>2, LeastExists
<1> QED
  BY <1>3 DEF Filter!Max

\* Some member of a set of indices has the greatest size.
LEMMA GreatestExists ==
  ASSUME NEW l \in Nat, NEW size \in [1..l -> Nat], NEW T \in SUBSET (1..l), T # {}
  PROVE  \E i \in T : \A j \in T : size[j] <= size[i]
<1> DEFINE Unbounded(S) == S # {} /\ \A i \in S : \E j \in S : size[j] > size[i]
           bad == {k \in 0..l : \E S \in SUBSET (1..k) : Unbounded(S)}
           k == Min(bad)
<1>1. SUFFICES ASSUME Unbounded(T) PROVE FALSE
  OBVIOUS
<1>2. l \in bad
  BY <1>1
<1> HIDE DEF Unbounded
<1>3. k \in bad /\ \A j \in bad : k <= j
  <2>1. bad \in SUBSET Nat
    OBVIOUS
  <2> HIDE DEF bad
  <2> QED
    BY <1>2, <2>1, LeastExists
<1> HIDE DEF k
<1>4. PICK S \in SUBSET (1..k) : Unbounded(S)
  BY <1>3
<1>5. k \in 1..l
  <2>1. k \in 0..l
    BY <1>3
  <2>2. k # 0
    <3>1. 1..0 = {}
      OBVIOUS
    <3> QED
      BY <1>4, <3>1 DEF Unbounded
  <2> QED
    BY <2>1, <2>2
<1>6. ASSUME NEW R \in SUBSET (1..(k - 1)) PROVE ~Unbounded(R)
  <2>1. k - 1 \in 0..l /\ ~(k <= k - 1)
    BY <1>5
  <2> QED
    BY <1>3, <2>1
<1>7. k \in S
  <2>1. k \notin S => S \in SUBSET (1..(k - 1))
    BY <1>5
  <2> QED
    BY <1>4, <1>6, <2>1
<1> DEFINE R == S \ {k}
<1>8. R \in SUBSET (1..(k - 1))
  BY <1>5
<1>11. \A j \in S : j \in 1..l /\ size[j] \in Nat
  BY <1>5
<1>9. R # {}
  <2>1. \E j \in S : size[j] > size[k]
    BY <1>4, <1>7 DEF Unbounded
  <2> QED
    BY <1>7, <1>11, <2>1
<1>10. PICK i \in R : \A j \in R : ~(size[j] > size[i])
  <2> HIDE DEF R
  <2>1. ~Unbounded(R)
    BY <1>6, <1>8
  <2> QED
    BY <1>9, <2>1 DEF Unbounded
<1>12. \A j \in S : j = k \/ ~(size[j] > size[i])
  BY <1>10
<1>13. PICK a \in S : size[a] > size[i]
  BY <1>4, <1>10 DEF Unbounded
<1>14. PICK b \in S : size[b] > size[k]
  BY <1>4, <1>7 DEF Unbounded
<1> QED
  BY <1>7, <1>10, <1>11, <1>12, <1>13, <1>14

\* The longest literal is one of them, if there is any.
LEMMA LongestIsOne ==
  ASSUME NEW l \in Nat, NEW literals, literals \in [1..l -> Seq(Byte) \cup {Nothing}]
  PROVE  \/ Filter!Longest(literals) = Nothing
         \/ \E i \in 1..l : literals[i] # Nothing /\ Filter!Longest(literals) = literals[i]
<1> DEFINE present == {i \in 1..l : literals[i] # Nothing}
           longest == {i \in present : \A k \in present : Len(literals[k]) <= Len(literals[i])}
<1>1. literals \in Seq(Seq(Byte) \cup {Nothing}) /\ Len(literals) = l
  OBVIOUS
<1>2. Filter!Longest(literals)
        = IF present = {} THEN Nothing ELSE literals[Filter!Max(longest)]
  BY <1>1 DEF Filter!Longest
<1>3. ASSUME present # {}
      PROVE  longest # {}
  <2> DEFINE size == [i \in 1..l |-> IF i \in present THEN Len(literals[i]) ELSE 0]
  <2>1. size \in [1..l -> Nat]
    OBVIOUS
  <2>2. PICK i \in present : \A j \in present : size[j] <= size[i]
    <3>1. present \in SUBSET (1..l)
      OBVIOUS
    <3> HIDE DEF size, present
    <3> QED
      BY <1>3, <2>1, <3>1, GreatestExists
  <2> QED
    BY <2>2
<1>4. present # {} => Filter!Max(longest) \in longest
  <2>1. longest \in SUBSET (1..l)
    OBVIOUS
  <2> HIDE DEF longest, present
  <2> QED
    BY <1>3, <2>1, LastOfSome
<1> QED
  BY <1>2, <1>4

\* The literal of a node from those of its children.
Literals == Seq(Byte) \cup {Nothing}
LiteralOf(n, children) ==
  CASE Hir[n].kind = "literal"                          -> Hir[n].bytes
    [] Hir[n].kind = "capture"                          -> children[1]
    [] Hir[n].kind = "repetition" /\ Hir[n].min > 0     -> children[1]
    [] Hir[n].kind = "concat"                           -> Filter!Longest(children)
    [] OTHER                                            -> Nothing

\* What a node of each kind demands.
LEMMA LiteralByKind ==
  ASSUME NEW n \in Nodes, NEW children
  PROVE  /\ Hir[n].kind = "literal" => LiteralOf(n, children) = Hir[n].bytes
         /\ Hir[n].kind = "capture" => LiteralOf(n, children) = children[1]
         /\ Hir[n].kind = "repetition" /\ Hir[n].min > 0 => LiteralOf(n, children) = children[1]
         /\ Hir[n].kind = "repetition" /\ ~(Hir[n].min > 0) => LiteralOf(n, children) = Nothing
         /\ Hir[n].kind = "concat" => LiteralOf(n, children) = Filter!Longest(children)
         /\ Hir[n].kind \in {"class", "empty", "look", "alternation"} =>
              LiteralOf(n, children) = Nothing
<1> DEFINE kind == Hir[n].kind
<1>1. /\ kind = "literal" => LiteralOf(n, children) = Hir[n].bytes
      /\ kind = "capture" => LiteralOf(n, children) = children[1]
      /\ kind = "repetition" /\ Hir[n].min > 0 => LiteralOf(n, children) = children[1]
      /\ kind = "repetition" /\ ~(Hir[n].min > 0) => LiteralOf(n, children) = Nothing
      /\ kind = "concat" => LiteralOf(n, children) = Filter!Longest(children)
  BY Zenon DEF LiteralOf
<1>2. kind \in {"class", "empty", "look", "alternation"} => LiteralOf(n, children) = Nothing
  BY Zenon DEF LiteralOf
<1> QED
  BY <1>1, <1>2

\* What a node demands is a text or nothing, if that holds of its children.
LEMMA LiteralType ==
  ASSUME NEW n \in Nodes, NEW children \in [1..Len(Hir[n].children) -> Literals]
  PROVE  LiteralOf(n, children) \in Literals
<1> DEFINE l == Len(Hir[n].children)
<1>1. Filter!Longest(children) \in Literals
  <2>1. l \in Nat /\ children \in [1..l -> Seq(Byte) \cup {Nothing}]
    BY NodeTypes DEF Literals
  <2> HIDE DEF l
  <2>2. \A i \in 1..l : children[i] \in Literals
    BY <2>1 DEF Literals
  <2> QED
    BY <2>1, <2>2, LongestIsOne DEF Literals
<1>2. Hir[n].kind \in {"capture", "repetition"} => children[1] \in Literals
  <2>1. Hir[n].kind \in {"capture", "repetition"} => l = 1
    BY NodeTypes
  <2>2. l = 1 => 1 \in 1..l
    OBVIOUS
  <2> QED
    BY <2>1, <2>2
<1> QED
  BY <1>1, <1>2, LiteralByKind, NodeTypes DEF Literals

\* longest_mandatory_literal visits the children of a node before it answers.
LEMMA MandatoryLiteralIs ==
  /\ Filter!MandatoryLiteral \in [Nodes -> Literals]
  /\ \A n \in Nodes :
       Filter!MandatoryLiteral[n] = LiteralOf(n, Below(n, Filter!MandatoryLiteral))
<1> DEFINE step == [n \in Nodes |-> [g \in [Nodes -> Literals] |-> LiteralOf(n, Below(n, g))]]
<1>1. step \in [Nodes -> [[Nodes -> Literals] -> Literals]]
  BY LiteralType, BelowHas
<1>2. LooksBack(Nodes, Literals, step)
  BY BelowHas DEF LooksBack
<1>3. PICK f : IsSolution(Nodes, Literals, step, f)
  <2>1. Literals # {} /\ Nodes \in SUBSET Nat
    BY NodeTypes DEF Literals
  <2>2. IsRecursion(Nodes, Literals, step)
    BY <1>1, <1>2, <2>1 DEF IsRecursion
  <2> QED
    BY <2>2, RecursionSolved
<1>4. \A n \in Nodes : f[n] = LiteralOf(n, Below(n, f))
  BY <1>3 DEF IsSolution
<1> DEFINE L == Filter!MandatoryLiteral
<1>5. f = [n \in Nodes |-> LiteralOf(n, Below(n, f))]
  BY <1>3, <1>4 DEF IsSolution
<1>6. L = [n \in Nodes |-> LiteralOf(n, Below(n, L))]
  BY <1>5, Zenon DEF Filter!MandatoryLiteral, LiteralOf, Below, Nodes
<1>7. \A n \in Nodes : L[n] = LiteralOf(n, Below(n, L))
  BY <1>6
<1>8. \A n \in Nodes : L[n] \in Literals
  <2> DEFINE untyped == {n \in Nodes : L[n] \notin Literals}
             n == Min(untyped)
  <2> HIDE DEF L
  <2> SUFFICES ASSUME untyped # {} PROVE FALSE
    OBVIOUS
  <2>1. n \in untyped /\ \A m \in untyped : n <= m
    BY NodeTypes, LeastExists
  <2> HIDE DEF n
  <2>2. \A i \in 1..Len(Hir[n].children) : L[Hir[n].children[i]] \in Literals
    <3> TAKE i \in 1..Len(Hir[n].children)
    <3> DEFINE child == Hir[n].children[i]
    <3>1. child \in Nodes /\ child < n /\ n \in Nat /\ child \in Nat
      BY <2>1, NodeTypes
    <3>2. child \notin untyped
      BY <2>1, <3>1
    <3> QED
      BY <3>1, <3>2
  <2>3. Below(n, L) \in [1..Len(Hir[n].children) -> Literals]
    BY <2>2 DEF Below
  <2> QED
    BY <1>7, <2>1, <2>3, LiteralType
<1> QED
  BY <1>6, <1>7, <1>8

\* The words of a node from those of its children.
WordsOf(n, sub) ==
  CASE Hir[n].kind = "literal"           -> {Hir[n].bytes} \cap Filter!Words
    [] Hir[n].kind = "class"             ->
         {<<b>> : b \in Filter!ToSet(Hir[n].bytes)} \cap Filter!Words
    [] Hir[n].kind \in {"empty", "look"} -> {<<>>}
    [] Hir[n].kind = "capture"           -> sub[1]
    [] Hir[n].kind = "repetition"        ->
         UNION {Filter!Joined([i \in 1..k |-> sub[1]]) : k \in Hir[n].min..Hir[n].max}
    [] Hir[n].kind = "concat"            -> Filter!Joined(sub)
    [] Hir[n].kind = "alternation"       -> UNION Filter!ToSet(sub)

\* What a node of each kind matches.
LEMMA WordsByKind ==
  ASSUME NEW n \in Nodes, NEW sub
  PROVE  /\ Hir[n].kind = "literal" => WordsOf(n, sub) = {Hir[n].bytes} \cap Filter!Words
         /\ Hir[n].kind = "class" =>
              WordsOf(n, sub) = {<<b>> : b \in Filter!ToSet(Hir[n].bytes)} \cap Filter!Words
         /\ Hir[n].kind \in {"empty", "look"} => WordsOf(n, sub) = {<<>>}
         /\ Hir[n].kind = "capture" => WordsOf(n, sub) = sub[1]
         /\ Hir[n].kind = "repetition" =>
              WordsOf(n, sub) = UNION {Filter!Joined([i \in 1..k |-> sub[1]])
                                         : k \in Hir[n].min..Hir[n].max}
         /\ Hir[n].kind = "concat" => WordsOf(n, sub) = Filter!Joined(sub)
         /\ Hir[n].kind = "alternation" => WordsOf(n, sub) = UNION Filter!ToSet(sub)
<1> DEFINE kind == Hir[n].kind
<1>1. kind = "literal" => WordsOf(n, sub) = {Hir[n].bytes} \cap Filter!Words
  BY Zenon DEF WordsOf
<1>2. kind = "class" =>
        WordsOf(n, sub) = {<<b>> : b \in Filter!ToSet(Hir[n].bytes)} \cap Filter!Words
  BY Zenon DEF WordsOf
<1>3. kind = "empty" => WordsOf(n, sub) = {<<>>}
  BY Zenon DEF WordsOf
<1>4. kind = "look" => WordsOf(n, sub) = {<<>>}
  BY Zenon DEF WordsOf
<1>5. kind = "capture" => WordsOf(n, sub) = sub[1]
  BY Zenon DEF WordsOf
<1>6. kind = "repetition" =>
        WordsOf(n, sub) = UNION {Filter!Joined([i \in 1..k |-> sub[1]])
                                   : k \in Hir[n].min..Hir[n].max}
  BY Zenon DEF WordsOf
<1>7. kind = "concat" => WordsOf(n, sub) = Filter!Joined(sub)
  BY Zenon DEF WordsOf
<1>8. kind = "alternation" => WordsOf(n, sub) = UNION Filter!ToSet(sub)
  BY Zenon DEF WordsOf
<1> QED
  BY <1>1, <1>2, <1>3, <1>4, <1>5, <1>6, <1>7, <1>8

\* What a node matches are words.
LEMMA WordsType ==
  ASSUME NEW n \in Nodes, NEW sub \in [1..Len(Hir[n].children) -> SUBSET Filter!Words]
  PROVE  WordsOf(n, sub) \in SUBSET Filter!Words
<1> DEFINE W == Filter!Words
           l == Len(Hir[n].children)
<1>1. <<>> \in W
  <2>1. <<>> \in [1..0 -> Filter!Letters] /\ 0 \in 0..MaxLanguage
    BY NodeTypes
  <2> QED
    BY <2>1 DEF Filter!Words, Filter!BoundedSeq, Filter!SeqOf
<1>2. \A languages : Filter!Joined(languages) \subseteq W
  BY DEF Filter!Joined
<1>3. Hir[n].kind = "capture" => sub[1] \in SUBSET W
  <2>1. Hir[n].kind = "capture" => l = 1
    BY NodeTypes
  <2>2. l = 1 => 1 \in 1..l
    OBVIOUS
  <2> QED
    BY <2>1, <2>2
<1>4. UNION Filter!ToSet(sub) \subseteq W
  BY DEF Filter!ToSet
<1> HIDE DEF W
<1>5. Hir[n].kind = "repetition" =>
        UNION {Filter!Joined([i \in 1..k |-> sub[1]]) : k \in Hir[n].min..Hir[n].max}
          \in SUBSET W
  BY <1>2
<1>6. /\ {Hir[n].bytes} \cap W \in SUBSET W
      /\ {<<b>> : b \in Filter!ToSet(Hir[n].bytes)} \cap W \in SUBSET W
      /\ {<<>>} \in SUBSET W
  BY <1>1
<1>7. CASE Hir[n].kind \in {"literal", "class", "empty", "look"}
  BY <1>6, <1>7, WordsByKind DEF W
<1>8. CASE Hir[n].kind = "capture"
  BY <1>3, <1>8, WordsByKind DEF W
<1>9. CASE Hir[n].kind = "repetition"
  BY <1>5, <1>9, WordsByKind DEF W
<1>10. CASE Hir[n].kind = "concat"
  BY <1>2, <1>10, WordsByKind DEF W
<1>11. CASE Hir[n].kind = "alternation"
  BY <1>4, <1>11, WordsByKind DEF W
<1> QED
  BY <1>7, <1>8, <1>9, <1>10, <1>11, NodeTypes

\* The language of a node is made of those of its children.
LEMMA LanguageIs ==
  /\ Filter!Language \in [Nodes -> SUBSET Filter!Words]
  /\ \A n \in Nodes : Filter!Language[n] = WordsOf(n, Below(n, Filter!Language))
<1> DEFINE W == SUBSET Filter!Words
           step == [n \in Nodes |-> [g \in [Nodes -> W] |-> WordsOf(n, Below(n, g))]]
           L == Filter!Language
<1>1. step \in [Nodes -> [[Nodes -> W] -> W]]
  <2>1. ASSUME NEW n \in Nodes, NEW g \in [Nodes -> W]
        PROVE  WordsOf(n, Below(n, g)) \in W
    <3>1. Below(n, g) \in [1..Len(Hir[n].children) -> W]
      BY BelowHas
    <3> QED
      BY <3>1, WordsType
  <2> QED
    BY <2>1
<1>2. LooksBack(Nodes, W, step)
  <2> HIDE DEF W
  <2>1. \A n \in Nodes : \A g, h \in [Nodes -> W] :
          (\A m \in Nodes : m < n => g[m] = h[m]) => Below(n, g) = Below(n, h)
    BY BelowHas
  <2> QED
    BY <2>1 DEF LooksBack
<1>3. PICK f : IsSolution(Nodes, W, step, f)
  <2>1. W # {} /\ Nodes \in SUBSET Nat
    BY NodeTypes
  <2>2. IsRecursion(Nodes, W, step)
    BY <1>1, <1>2, <2>1 DEF IsRecursion
  <2> QED
    BY <2>2, RecursionSolved
<1>4. \A n \in Nodes : f[n] = WordsOf(n, Below(n, f))
  BY <1>3 DEF IsSolution
<1>5. f = [n \in Nodes |-> WordsOf(n, Below(n, f))]
  BY <1>3, <1>4 DEF IsSolution
<1>6. L = [n \in Nodes |-> WordsOf(n, Below(n, L))]
  BY <1>5, Zenon DEF Filter!Language, WordsOf, Below, Nodes
<1>7. \A n \in Nodes : L[n] = WordsOf(n, Below(n, L))
  BY <1>6
<1>8. \A n \in Nodes : L[n] \in W
  <2> DEFINE untyped == {n \in Nodes : L[n] \notin W}
             n == Min(untyped)
  <2> HIDE DEF L, W
  <2> SUFFICES ASSUME untyped # {} PROVE FALSE
    OBVIOUS
  <2>1. n \in untyped /\ \A m \in untyped : n <= m
    BY NodeTypes, LeastExists
  <2> HIDE DEF n
  <2>2. \A i \in 1..Len(Hir[n].children) : L[Hir[n].children[i]] \in W
    <3> TAKE i \in 1..Len(Hir[n].children)
    <3> DEFINE child == Hir[n].children[i]
    <3>1. child \in Nodes /\ child < n /\ n \in Nat /\ child \in Nat
      BY <2>1, NodeTypes
    <3>2. child \notin untyped
      BY <2>1, <3>1
    <3> QED
      BY <3>1, <3>2
  <2>3. Below(n, L) \in [1..Len(Hir[n].children) -> W]
    BY <2>2 DEF Below
  <2> QED
    BY <1>7, <2>1, <2>3, WordsType DEF W
<1> QED
  BY <1>6, <1>7, <1>8

-----------------------------------------------------------------------------
(* What every match contains *)

\* The bytes of part, one after the other, are somewhere in whole.
Within(part, whole) ==
  \E k \in 0..(Len(whole) - Len(part)) : \A i \in 1..Len(part) : whole[k + i] = part[i]

\* A part of a part is a part.
LEMMA WithinWhole ==
  ASSUME NEW part \in Seq(Byte), NEW middle \in Seq(Byte), NEW whole \in Seq(Byte),
         Within(part, middle), Within(middle, whole)
  PROVE  Within(part, whole)
<1>1. PICK k \in 0..(Len(middle) - Len(part)) :
        \A i \in 1..Len(part) : middle[k + i] = part[i]
  BY DEF Within
<1>2. PICK l \in 0..(Len(whole) - Len(middle)) :
        \A i \in 1..Len(middle) : whole[l + i] = middle[i]
  BY DEF Within
<1>3. Len(part) \in Nat /\ Len(middle) \in Nat /\ Len(whole) \in Nat
  OBVIOUS
<1>4. l + k \in 0..(Len(whole) - Len(part))
  BY <1>3
<1>5. ASSUME NEW i \in 1..Len(part) PROVE whole[(l + k) + i] = part[i]
  <2>1. k + i \in 1..Len(middle) /\ (l + k) + i = l + (k + i)
    BY <1>3
  <2> QED
    BY <1>1, <1>2, <2>1
<1> QED
  BY <1>4, <1>5 DEF Within

\* The bytes between two places of a text are a part of it.
LEMMA PartWithin ==
  ASSUME NEW whole \in Seq(Byte), NEW a \in 0..Len(whole), NEW b \in a..Len(whole)
  PROVE  SubSeq(whole, a + 1, b) \in Seq(Byte) /\ Within(SubSeq(whole, a + 1, b), whole)
<1> DEFINE part == SubSeq(whole, a + 1, b)
<1>1. /\ part \in Seq(Byte) /\ Len(part) = b - a
      /\ \A i \in 1..(b - a) : part[i] = whole[a + i]
  BY SubSeqHas
<1>2. a \in 0..(Len(whole) - Len(part))
  BY <1>1
<1> HIDE DEF part
<1> QED
  BY <1>1, <1>2 DEF part, Within

\* The words of the languages are texts.
LEMMA WordIsText ==
  ASSUME NEW w \in Filter!Words
  PROVE  w \in Seq(Byte)
<1>1. Filter!Letters \subseteq Byte
  <2>1. ASSUME NEW n \in Nodes PROVE Filter!ToSet(Hir[n].bytes) \subseteq Byte
    BY NodeTypes DEF Filter!ToSet
  <2> QED
    BY <2>1 DEF Filter!Letters, Nodes
<1>2. PICK m \in Nat : w \in [1..m -> Filter!Letters]
  BY NodeTypes DEF Filter!Words, Filter!BoundedSeq, Filter!SeqOf
<1>3. w \in [1..m -> Byte]
  BY <1>1, <1>2
<1> QED
  BY <1>3

\* A word of joined languages contains a word of each.
LEMMA PieceWithin ==
  ASSUME NEW k \in Nat, NEW V, NEW languages \in [1..k -> V], NEW w \in Filter!Joined(languages),
         NEW i \in 1..k
  PROVE  \E v \in languages[i] : v \in Seq(Byte) /\ Within(v, w)
<1>1. languages \in Seq(V) /\ Len(languages) = k
  OBVIOUS
<1>2. w \in Filter!Words /\ w \in Seq(Byte)
  BY WordIsText DEF Filter!Joined
<1>3. PICK cut \in [0..k -> 0..Len(w)] :
        \A j \in 1..k : cut[j - 1] <= cut[j]
                        /\ SubSeq(w, cut[j - 1] + 1, cut[j]) \in languages[j]
  BY <1>1 DEF Filter!Joined
<1>4. i - 1 \in 0..k /\ i \in 0..k
  OBVIOUS
<1>5. cut[i - 1] \in 0..Len(w) /\ cut[i] \in cut[i - 1]..Len(w)
  BY <1>3, <1>4
<1> QED
  BY <1>2, <1>3, <1>5, PartWithin

\* longest_mandatory_literal is right: every text that the expression of a node matches
\* contains its literal.
LEMMA MatchesContainLiteral ==
  ASSUME NEW node \in Nodes, Filter!MandatoryLiteral[node] # Nothing,
         NEW word \in Filter!Language[node]
  PROVE  /\ word \in Seq(Byte) /\ Filter!MandatoryLiteral[node] \in Seq(Byte)
         /\ Within(Filter!MandatoryLiteral[node], word)
<1> DEFINE M == Filter!MandatoryLiteral
           L == Filter!Language
           Right(n) == M[n] # Nothing => \A w \in L[n] : Within(M[n], w)
<1>1. ASSUME NEW n \in Nodes
      PROVE  /\ M[n] \in Seq(Byte) \cup {Nothing}
             /\ \A w \in L[n] : w \in Seq(Byte)
  BY MandatoryLiteralIs, LanguageIs, WordIsText DEF Literals
<1> DEFINE wrong == {n \in Nodes : ~Right(n)}
           n == Min(wrong)
           children == Hir[n].children
           l == Len(children)
<1>2. SUFFICES ASSUME wrong # {} PROVE FALSE
  BY <1>1
<1>3. n \in wrong /\ \A m \in wrong : n <= m
  BY <1>2, NodeTypes, LeastExists
<1> HIDE DEF n
<1>4. n \in Nodes /\ n \in Nat
  BY <1>3, NodeTypes
<1> HIDE DEF M, L
<1>5. \A i \in 1..l : children[i] \in Nodes /\ Right(children[i])
  <2> TAKE i \in 1..l
  <2>1. children[i] \in Nodes /\ children[i] < n /\ children[i] \in Nat
    BY <1>4, NodeTypes
  <2>2. children[i] \notin wrong
    BY <1>3, <1>4, <2>1
  <2> QED
    BY <2>1, <2>2
<1>6. M[n] = LiteralOf(n, Below(n, M)) /\ L[n] = WordsOf(n, Below(n, L))
  BY <1>4, MandatoryLiteralIs, LanguageIs DEF M, L
<1>16. /\ l \in Nat
       /\ \A i \in 1..l : Below(n, M)[i] = M[children[i]] /\ Below(n, L)[i] = L[children[i]]
       /\ Below(n, L) \in [1..l -> SUBSET Filter!Words]
       /\ Below(n, M) \in [1..l -> Seq(Byte) \cup {Nothing}]
  <2>1. l \in Nat
    BY <1>4, NodeTypes
  <2>2. \A i \in 1..l : Below(n, M)[i] = M[children[i]] /\ Below(n, L)[i] = L[children[i]]
    BY DEF Below
  <2>3. Below(n, L) \in [1..l -> SUBSET Filter!Words]
    BY <1>4, BelowHas, LanguageIs DEF L
  <2>4. Below(n, M) \in [1..l -> Literals]
    BY <1>4, BelowHas, MandatoryLiteralIs DEF M
  <2> QED
    BY <2>1, <2>2, <2>3, <2>4 DEF Literals
<1>7. PICK w \in L[n] : M[n] # Nothing /\ ~Within(M[n], w)
  BY <1>3
<1>8. w \in Seq(Byte) /\ M[n] \in Seq(Byte)
  BY <1>1, <1>4, <1>7 DEF M, L
\* A piece of w is a word of the child whose literal M[n] is.
<1>9. ASSUME NEW i \in 1..l, M[children[i]] = M[n], NEW v \in L[children[i]],
             v \in Seq(Byte), Within(v, w)
      PROVE  FALSE
  <2>1. Within(M[n], v)
    BY <1>5, <1>7, <1>9
  <2> QED
    BY <1>7, <1>8, <1>9, <2>1, WithinWhole
<1>15. Hir[n].kind \in {"capture", "repetition"} => l = 1 /\ 1 \in 1..l
  <2>1. Hir[n].kind \in {"capture", "repetition"} => l = 1
    BY <1>4, NodeTypes
  <2>2. 1 \in 1..1
    OBVIOUS
  <2> QED
    BY <2>1, <2>2
<1>10. CASE Hir[n].kind = "literal"
  <2>1. M[n] = Hir[n].bytes /\ w = Hir[n].bytes
    BY <1>4, <1>6, <1>7, <1>10, LiteralByKind, WordsByKind
  <2>2. 0 \in 0..(Len(w) - Len(w))
    BY <1>8
  <2> QED
    BY <1>7, <1>8, <2>1, <2>2 DEF Within
<1>11. CASE Hir[n].kind = "capture"
  <2>1. l = 1 /\ 1 \in 1..l
    BY <1>11, <1>15
  <2>2. M[n] = M[children[1]] /\ L[n] = L[children[1]]
    BY <1>4, <1>6, <1>16, <1>11, <2>1, LiteralByKind, WordsByKind
  <2>3. M[children[1]] # Nothing /\ w \in L[children[1]] => Within(M[children[1]], w)
    BY <1>5, <2>1
  <2> QED
    BY <1>7, <2>2, <2>3
<1>12. CASE Hir[n].kind = "repetition"
  <2>1. l = 1 /\ 1 \in 1..l
    BY <1>12, <1>15
  <2>2. Hir[n].min > 0
    BY <1>4, <1>6, <1>7, <1>12, LiteralByKind
  <2>3. M[n] = M[children[1]]
    BY <1>4, <1>6, <1>16, <1>12, <2>1, <2>2, LiteralByKind
  <2>4. PICK k \in Hir[n].min..Hir[n].max :
          w \in Filter!Joined([i \in 1..k |-> Below(n, L)[1]])
    <3> DEFINE J(k) == Filter!Joined([i \in 1..k |-> Below(n, L)[1]])
    <3>1. WordsOf(n, Below(n, L)) = UNION {J(k) : k \in Hir[n].min..Hir[n].max}
      BY <1>4, <1>12, WordsByKind
    <3> HIDE DEF J
    <3>2. \E k \in Hir[n].min..Hir[n].max : w \in J(k)
      BY <1>6, <1>7, <3>1
    <3> QED
      BY <3>2 DEF J
  <2> DEFINE languages == [i \in 1..k |-> Below(n, L)[1]]
  <2>5. k \in Nat /\ 1 \in 1..k /\ languages \in [1..k -> SUBSET Filter!Words]
    BY <1>4, <1>6, <1>16, <2>1, <2>2, NodeTypes
  <2>6. PICK v \in languages[1] : v \in Seq(Byte) /\ Within(v, w)
    <3> HIDE DEF languages
    <3> QED
      BY <2>4, <2>5, PieceWithin DEF languages
  <2>7. v \in L[children[1]]
    BY <1>16, <2>1, <2>5, <2>6
  <2> QED
    BY <1>9, <2>1, <2>3, <2>6, <2>7
<1>13. CASE Hir[n].kind = "concat"
  <2>1. M[n] = Filter!Longest(Below(n, M)) /\ w \in Filter!Joined(Below(n, L))
    BY <1>4, <1>6, <1>7, <1>13, LiteralByKind, WordsByKind
  <2>2. PICK i \in 1..l : M[n] = Below(n, M)[i]
    <3> DEFINE literals == Below(n, M)
    <3>1. l \in Nat /\ literals \in [1..l -> Seq(Byte) \cup {Nothing}]
      BY <1>16
    <3>2. M[n] = Filter!Longest(literals) /\ M[n] # Nothing
      BY <1>7, <2>1
    <3> HIDE DEF l, literals
    <3>3. \E i \in 1..l : Filter!Longest(literals) = literals[i]
      BY <3>1, <3>2, LongestIsOne
    <3> QED
      BY <3>2, <3>3 DEF literals
  <2>3. PICK v \in Below(n, L)[i] : v \in Seq(Byte) /\ Within(v, w)
    BY <1>16, <2>1, PieceWithin
  <2> QED
    BY <1>9, <1>16, <2>2, <2>3
<1>14. CASE Hir[n].kind \in {"class", "empty", "look", "alternation"}
  BY <1>4, <1>6, <1>7, <1>14, LiteralByKind
<1> QED
  BY <1>4, <1>10, <1>11, <1>12, <1>13, <1>14, NodeTypes

-----------------------------------------------------------------------------
(* Every match that is counted is in the bytes of the file *)

\* A text is a part of itself.
LEMMA AllWithin ==
  ASSUME NEW whole \in Seq(Byte)
  PROVE  Within(whole, whole)
<1>1. 0 \in 0..(Len(whole) - Len(whole))
  OBVIOUS
<1> QED
  BY <1>1 DEF Within

\* A text without its mark is a part of it.
LEMMA WithoutWithin ==
  ASSUME NEW whole \in Seq(Byte), NEW mark \in Seq(Byte)
  PROVE  Without(whole, mark) \in Seq(Byte) /\ Within(Without(whole, mark), whole)
<1>1. CASE StartsWith(whole, mark)
  <2>1. Len(mark) \in 0..Len(whole) /\ Len(whole) \in Len(mark)..Len(whole)
    BY <1>1 DEF StartsWith, IsPrefix
  <2> QED
    BY <1>1, <2>1, PartWithin DEF Without
<1>2. CASE ~StartsWith(whole, mark)
  BY <1>2, AllWithin DEF Without
<1> QED
  BY <1>1, <1>2

\* A part of a text that is UTF-8 is UTF-8.
LEMMA WithinPlain ==
  ASSUME NEW part \in Seq(Byte), NEW whole \in Seq(Byte), Within(part, whole), ~Lossy(whole)
  PROVE  ~Lossy(part)
<1>1. PICK k \in 0..(Len(whole) - Len(part)) : \A i \in 1..Len(part) : whole[k + i] = part[i]
  BY DEF Within
<1>2. Len(part) \in Nat /\ Len(whole) \in Nat
  OBVIOUS
<1>3. \A i \in 1..Len(part) : k + i \in 1..Len(whole)
  BY <1>2
<1> QED
  BY <1>1, <1>3 DEF Lossy

\* A file of plain UTF-8 is searched as it is, but for the mark.
Plain == ~Lossy(source) /\ options.encoding \in {"Auto", "Utf8"}

\* The text of a plain file is in its bytes: nothing is replaced.
LEMMA PlainText ==
  ASSUME source \in Seq(Byte), Plain
  PROVE  /\ TextOf(source) \in Seq(Byte) /\ Within(TextOf(source), source)
         /\ Decode(source).text \in Seq(Byte) /\ Within(Decode(source).text, source)
<1>1. ASSUME NEW mark \in {LeMark, BeMark} PROVE ~StartsWith(source, mark)
  <2>1. SUFFICES ASSUME StartsWith(source, mark) PROVE FALSE
    OBVIOUS
  <2>2. mark \in Seq(Byte) /\ Lossy(mark)
    BY FileAssumption
  <2>3. \A i \in 1..Len(mark) : i \in 1..Len(source) /\ source[i] = mark[i]
    <3>1. Len(mark) \in 0..Len(source) /\ mark = SubSeq(source, 1, Len(mark))
      BY <2>1, <2>2 DEF StartsWith, IsPrefix
    <3> QED
      BY <3>1, PrefixHas
  <2> QED
    BY <2>2, <2>3 DEF Lossy, Plain
<1>2. Encoding(source) = "Utf8"
  BY <1>1 DEF Encoding, Plain
<1>3. Utf8Mark \in Seq(Byte)
  BY FileAssumption
<1> DEFINE rest == Without(source, Utf8Mark)
<1>4. rest \in Seq(Byte) /\ Within(rest, source)
  BY <1>3, WithoutWithin
<1>5. ~Lossy(rest)
  BY <1>4, WithinPlain DEF Plain
<1>6. Decode(source) = DecodeUtf8(source)
  BY <1>2 DEF Decode
<1>7. DecodeUtf8(source).text = rest
  BY <1>5 DEF DecodeUtf8
<1>8. TextOf(source) \in {Decode(source).text, source, rest}
  BY DEF TextOf
<1> QED
  BY <1>4, <1>6, <1>7, <1>8, AllWithin

\* A line starts in the text.
LEMMA StartWithin ==
  ASSUME NEW t \in Seq(Byte), NEW s \in LineStarts(t)
  PROVE  s \in 0..Len(t)
<1>1. Breaks(t) \in SUBSET (1..Len(t)) /\ Len(t) \in Nat
  BY TextHas
<1> HIDE DEF Breaks
<1> QED
  BY <1>1 DEF LineStarts

\* A match of the literal is in a line, and the line in the text.
LEMMA LineHasPattern ==
  ASSUME LineInv, ~crossed, occurrences > 0
  PROVE  Within(options.pattern, text)
<1>1. /\ text \in Seq(Byte) /\ options \in Options /\ options.pattern \in Seq(Byte)
      /\ options.pattern # <<>>
  BY OptionTypes DEF LineInv, LineTypes
<1>2. PICK S \in SUBSET LineStarts(text) :
        occurrences = Cardinality(UNION {SpansAt(text, s) : s \in S})
  <2>1. CASE phase = "done"
    BY <2>1 DEF LineInv, Reported, IsReportOf, Searched
  <2>2. CASE phase = "finish"
    BY <2>2 DEF LineInv, Reported, Told, Counted, Searched
  <2>3. CASE phase \notin {"finish", "done"}
    BY <2>3 DEF LineInv, Reported, Told, Counted, Searched, Before
  <2> QED
    BY <2>1, <2>2, <2>3
<1>3. UNION {SpansAt(text, s) : s \in S} # {}
  BY <1>2, FS_EmptySet
<1>4. PICK s \in S : SpansAt(text, s) # {}
  BY <1>3
<1> PICK i \in Spans(Stripped(LineAt(text, s))) : TRUE
  BY <1>4 DEF SpansAt
<1> DEFINE line == LineAt(text, s)
           pattern == options.pattern
<1>5. s \in 0..Len(text)
  BY <1>1, <1>2, <1>4, StartWithin
<1>6. line \in Seq(Byte) /\ Stripped(line) \in Seq(Byte)
  BY <1>1, <1>5, LineType
<1>7. Within(line, text)
  <2>1. PICK e \in (s + 1)..(Len(text) + 1) : line = SubSeq(text, s + 1, e - 1)
    BY <1>1, <1>5, LineEnds
  <2>2. e - 1 \in s..Len(text)
    BY <1>1, <1>5, <2>1
  <2> QED
    BY <1>1, <1>5, <2>1, <2>2, PartWithin
<1> HIDE DEF line
<1>8. Within(Stripped(line), line)
  <2>1. CASE line # <<>> /\ Last(line) = Return
    <3>1. Stripped(line) = SubSeq(line, 0 + 1, Len(line) - 1)
      BY <2>1 DEF Stripped, Front
    <3>2. Len(line) - 1 \in 0..Len(line) /\ 0 \in 0..Len(line)
      BY <1>6, <2>1
    <3> QED
      BY <1>6, <3>1, <3>2, PartWithin
  <2>2. CASE ~(line # <<>> /\ Last(line) = Return)
    BY <1>6, <2>2, AllWithin DEF Stripped
  <2> QED
    BY <2>1, <2>2
<1>9. Within(pattern, Stripped(line))
  <2> DEFINE stripped == Stripped(line)
  <2>1. /\ i \in 0..Len(stripped)
        /\ \A j \in 1..Len(pattern) : i + j <= Len(stripped) /\ stripped[i + j] = pattern[j]
    BY DEF Spans, line
  <2>2. Len(pattern) \in 1..Len(pattern) /\ Len(stripped) \in Nat
    BY <1>1, <1>6
  <2> HIDE DEF stripped, pattern
  <2>3. i + Len(pattern) <= Len(stripped)
    BY <2>1, <2>2
  <2>4. i \in 0..(Len(stripped) - Len(pattern))
    BY <2>1, <2>2, <2>3
  <2>5. Within(pattern, stripped)
    BY <2>1, <2>4 DEF Within
  <2> QED
    BY <2>5 DEF stripped
<1>10. Within(pattern, line)
  BY <1>1, <1>6, <1>8, <1>9, WithinWhole
<1> QED
  BY <1>1, <1>6, <1>7, <1>10, WithinWhole

\* The text of a plain file that is searched by lines is in the file.
LEMMA TextInSource ==
  ASSUME FileInv, Plain, expected = Len(source), mode = "streaming" \/ LinesBegun
  PROVE  Within(text, source)
<1>1. source \in Seq(Byte) /\ read \in 0..Len(source) /\ Len(source) \in Nat
  BY DEF FileInv, FileTypes
<1>2. CASE mode = "streaming"
  <2>1. base \in {0, 3} /\ base <= read /\ text = SubSeq(source, base + 1, Len(source))
    BY <1>2 DEF FileInv, Streamed
  <2>2. base \in 0..Len(source) /\ Len(source) \in base..Len(source)
    BY <1>1, <2>1
  <2> QED
    BY <1>1, <2>1, <2>2, PartWithin
<1>3. CASE LinesBegun
  BY <1>1, <1>3, PlainText DEF FileInv, Decided
<1> QED
  BY <1>2, <1>3

\* What is counted is in the file.
Counts(part) ==
  /\ Within(part, source)
  /\ IF options.mode = "Line" THEN part = options.pattern ELSE MayFind(part)
Traced ==
  occurrences > 0 /\ expected = Len(source) /\ ~crossed /\ Plain =>
    \E part \in Seq(Byte) : Counts(part)

\* The multiline search has the whole text of the file.
Deciphered == mode = "multiline" => text = Decode(source).text

TraceInv == FileInv /\ Traced /\ Deciphered

\* The same, for the state after a step.
LEMMA LineHasPatternThen ==
  LineInv' /\ ~crossed' /\ (occurrences > 0)' => Within(options.pattern, text)'
<1>1. LineInv /\ ~crossed /\ occurrences > 0 => Within(options.pattern, text)
  BY LineHasPattern
<1> QED
  BY <1>1, PTL

\* A step that counts nothing.
LEMMA TracedKept ==
  ASSUME Traced, UNCHANGED <<occurrences, crossed, source, expected, options>>
  PROVE  Traced'
<1>1. Plain' = Plain
  BY DEF Plain
<1>2. \A part : Counts(part)' = Counts(part)
  BY DEF Counts, MayFind
<1> QED
  BY <1>1, <1>2 DEF Traced

\* A step of the LineSearcher.
LEMMA TracedByLines ==
  ASSUME FileInv, LineInv', mode = "streaming" \/ LinesBegun,
         UNCHANGED <<source, expected, options, text>>
  PROVE  Traced'
<1> SUFFICES ASSUME occurrences' > 0, expected' = Len(source'), ~crossed', Plain'
             PROVE  \E part \in Seq(Byte) : Counts(part)'
  BY DEF Traced
<1>1. LinesOnly /\ options \in Options /\ text \in Seq(Byte) /\ source \in Seq(Byte)
  BY DEF FileInv, FileTypes, Searcher, LineTypes, Streamed, Decided
<1>2. options.pattern \in Seq(Byte)
  BY <1>1, OptionTypes
<1>3. Plain
  BY DEF Plain
<1>4. Within(text, source)
  BY <1>3, TextInSource
<1>5. Within(options.pattern, text)
  <2>1. Within(options.pattern, text)'
    BY LineHasPatternThen
  <2> QED
    BY <2>1
<1>6. Within(options.pattern, source)
  BY <1>1, <1>2, <1>4, <1>5, WithinWhole
<1>7. Counts(options.pattern)'
  BY <1>1, <1>6 DEF Counts, LinesOnly
<1> QED
  BY <1>2, <1>7

\* Nothing found, nothing counted.
LEMMA NoSpans ==
  ASSUME NEW t \in Seq(Byte)
  PROVE  Multi!Occurrences(Multi!Blocks(t, <<>>)) = 0
<1>1. AreSpans(t, <<>>) /\ Len(<<>>) = 0
  BY DEF AreSpans
<1> QED
  BY <1>1, BlocksAre, OccurrencesAre

\* What a multiline search finds is in the text.
LEMMA FoundInText ==
  ASSUME text \in Seq(Byte), NEW found \in SpanLists(text), found # <<>>
  PROVE  \E part \in Seq(Byte) : Within(part, text) /\ MayFind(part)
<1> DEFINE Span == {s \in SpansOf(text) :
                      s.start <= s.end /\ MayFind(SubSeq(text, s.start + 1, s.end))}
<1>1. found \in BoundedSeq(Span, MaxSpans)
  BY DEF SpanLists
<1>2. PICK n \in Nat : found \in [1..n -> Span]
  BY <1>1, FileAssumption DEF BoundedSeq, SeqOf
<1>3. 1 \in 1..n
  <2>1. CASE n = 0
    <3>1. 1..n = {} /\ DOMAIN found = {}
      BY <1>2, <2>1
    <3>2. found = <<>>
      BY <1>2, <3>1
    <3> QED
      BY <3>2
  <2>2. CASE n # 0
    BY <2>2
  <2> QED
    BY <2>1, <2>2
<1>4. PICK s \in Span : s = found[1]
  BY <1>2, <1>3
<1>5. s.start \in 0..Len(text) /\ s.end \in s.start..Len(text)
  BY <1>4 DEF SpansOf
<1> DEFINE part == SubSeq(text, s.start + 1, s.end)
<1>6. part \in Seq(Byte) /\ Within(part, text)
  BY <1>5, PartWithin
<1> QED
  BY <1>4, <1>6

\* The step of a multiline search.
LEMMA TracedByMultiline ==
  ASSUME TraceInv, SearchMultiline
  PROVE  Traced'
<1>1. /\ mode = "multiline" /\ spans' \in SpanLists(text)
      /\ occurrences' = Multi!Occurrences(Multi!Blocks(text, spans'))
      /\ UNCHANGED <<options, source, expected>>
  BY DEF SearchMultiline
<1> SUFFICES ASSUME occurrences' > 0, Plain' PROVE \E part \in Seq(Byte) : Counts(part)'
  BY DEF Traced
<1>2. source \in Seq(Byte) /\ text \in Seq(Byte) /\ options.mode = "Multiline"
  BY <1>1 DEF TraceInv, FileInv, FileTypes, Searcher, LineTypes, Decided
<1>3. spans' # <<>>
  <2> SUFFICES ASSUME spans' = <<>> PROVE FALSE
    OBVIOUS
  <2>1. occurrences' = 0
    BY <1>1, <1>2, NoSpans
  <2> QED
    BY <2>1
<1>4. PICK part \in Seq(Byte) : Within(part, text) /\ MayFind(part)
  BY <1>1, <1>2, <1>3, FoundInText
<1>5. Plain
  BY <1>1 DEF Plain
<1>6. Within(text, source)
  BY <1>1, <1>2, <1>5, PlainText DEF TraceInv, Deciphered
<1>7. Within(part, source)
  BY <1>2, <1>4, <1>6, WithinWhole
<1>8. MayFind(part)'
  BY <1>1, <1>4 DEF MayFind
<1>9. Counts(part)'
  BY <1>1, <1>2, <1>7, <1>8 DEF Counts
<1> QED
  BY <1>9

\* Every step keeps the trace.
LEMMA TraceKept ==
  ASSUME TraceInv, [FileNext]_allVars
  PROVE  TraceInv'
<1>1. FileInv /\ Traced /\ Deciphered
  BY DEF TraceInv
<1>2. FileInv'
  BY <1>1, FileInvKept
<1> SUFFICES Traced' /\ Deciphered'
  BY <1>2 DEF TraceInv
<1>3. ASSUME UNCHANGED <<occurrences, crossed, source, expected, options>>, mode' # "multiline"
      PROVE  Traced' /\ Deciphered'
  BY <1>1, <1>3, TracedKept DEF Deciphered
<1>4. ASSUME NEW n, KeepPrefix(n) \/ StartAuto(n) \/ PushLines(n) \/ PushBuffer(n) \/ PushSkipped(n)
      PROVE  Traced' /\ Deciphered'
  <2>1. UNCHANGED <<occurrences, crossed, source, expected, options>>
    <3>1. UNCHANGED <<source, expected>>
      BY <1>4 DEF KeepPrefix, StartAuto, PushLines, PushBuffer, PushSkipped
    <3>2. UNCHANGED <<occurrences, crossed, options>>
      <4>1. CASE StartAuto(n)
        BY <4>1 DEF StartAuto, vars, searcherVars, lineVars, matchVars
      <4>2. CASE PushLines(n)
        BY <4>2 DEF PushLines, Deliver, vars, searcherVars, lineVars, matchVars
      <4>3. CASE KeepPrefix(n) \/ PushBuffer(n) \/ PushSkipped(n)
        BY <4>3 DEF KeepPrefix, PushBuffer, PushSkipped, vars, searcherVars, matchVars
      <4> QED
        BY <1>4, <4>1, <4>2, <4>3
    <3> QED
      BY <3>1, <3>2
  <2>2. mode' # "multiline"
    <3>1. CASE StartAuto(n)
      BY <3>1 DEF StartAuto, Skip
    <3>2. CASE PushLines(n)
      BY <3>2 DEF PushLines, Skip
    <3>3. CASE PushBuffer(n)
      BY <3>3 DEF PushBuffer, Skip
    <3>4. CASE KeepPrefix(n) \/ PushSkipped(n)
      BY <3>4 DEF KeepPrefix, PushSkipped, modeVars
    <3> QED
      BY <1>4, <3>1, <3>2, <3>3, <3>4
  <2> QED
    BY <1>3, <2>1, <2>2
<1>5. CASE LineStep /\ UNCHANGED fileVars
  <2>1. /\ UNCHANGED <<source, expected, options, text>> /\ mode' = mode
        /\ phase \in {"push", "pending", "loop"} \/ (phase = "finish" /\ phase' = "done")
    BY <1>5, LineStepMoves DEF fileVars, modeVars
  <2>2. mode = "streaming" \/ LinesBegun
    BY <1>1, <2>1 DEF FileInv, Searcher, LinesBegun
  <2>3. mode # "multiline"
    BY <2>2 DEF LinesBegun
  <2>4. LineInv'
    <3>1. LineInv
      BY <1>1, <2>1 DEF FileInv, Searcher
    <3> QED
      BY <1>5, <3>1, LineInvKept
  <2> QED
    BY <1>1, <2>1, <2>2, <2>3, <2>4, TracedByLines DEF Deciphered
<1>6. CASE FinishLines
  <2>1. /\ UNCHANGED <<source, expected, options, text>> /\ mode \in {"streaming", "complete"}
        /\ mode' = "finished" /\ phase' = "finish"
    BY <1>6 DEF FinishLines, FinishLine
  <2>2. LineInv'
    BY <1>2, <2>1 DEF FileInv, Searcher
  <2> QED
    BY <1>1, <2>1, <2>2, TracedByLines DEF LinesBegun, Deciphered
<1>7. CASE SearchComplete
  <2>1. /\ mode \in {"undecided", "buffered"} /\ read = Len(source)
        /\ UNCHANGED <<source, expected, options, occurrences, crossed>>
        /\ mode' = "multiline" => text' = Decode(buffer).text
    BY <1>7 DEF SearchComplete, AtEnd, vars, searcherVars, lineVars, matchVars
  <2>2. buffer = source
    BY <1>1, <2>1, DecodedAtEnd
  <2>3. Decode(source)' = Decode(source)
    BY <2>1 DEF Decode, Encoding
  <2> QED
    BY <1>1, <2>1, <2>2, <2>3, TracedKept DEF Deciphered
<1>8. CASE SearchMultiline
  <2>1. mode' = "finished"
    BY <1>8 DEF SearchMultiline
  <2> QED
    BY <1>8, <2>1, TracedByMultiline DEF Deciphered
<1>9. CASE SearchArchive \/ FinishSkipped
  BY <1>3, <1>9 DEF SearchArchive, FinishSkipped, vars, searcherVars, matchVars
<1>10. CASE UNCHANGED allVars
  <2>1. /\ UNCHANGED <<occurrences, crossed, source, expected, options, text>>
        /\ mode' = mode
    BY <1>10 DEF allVars, fileVars, modeVars, vars, searcherVars, matchVars
  <2>2. Decode(source)' = Decode(source)
    BY <2>1 DEF Decode, Encoding
  <2> QED
    BY <1>1, <2>1, <2>2, TracedKept DEF Deciphered
<1> QED
  BY <1>4, <1>5, <1>6, <1>7, <1>8, <1>9, <1>10 DEF FileNext

-----------------------------------------------------------------------------
(* The prefilter *)

\* The trigrams of a part are trigrams of the whole.
LEMMA TrigramsOfPart ==
  ASSUME NEW part \in Seq(Byte), NEW whole \in Seq(Byte), Within(part, whole)
  PROVE  Filter!Trigrams(part) \subseteq Filter!Trigrams(whole)
<1>1. PICK n \in 0..(Len(whole) - Len(part)) : \A j \in 1..Len(part) : whole[n + j] = part[j]
  BY DEF Within
<1>2. Len(part) \in Nat /\ Len(whole) \in Nat /\ n + Len(part) <= Len(whole) /\ n \in Nat
  BY <1>1
<1>3. ASSUME NEW i \in 1..(Len(part) - 2)
      PROVE  SubSeq(part, i, i + 2) \in Filter!Trigrams(whole)
  <2>1. n + i \in 1..(Len(whole) - 2)
    BY <1>2
  <2>2. \A k \in 1..3 : part[i + k - 1] = whole[n + i + k - 1]
    BY <1>1, <1>2
  <2>3. SubSeq(part, i, i + 2) = SubSeq(whole, n + i, n + i + 2)
    BY <2>1, <2>2
  <2> QED
    BY <2>1, <2>3 DEF Filter!Trigrams
<1> QED
  BY <1>3 DEF Filter!Trigrams

\* A file that contains what one of the alternative queries demands passes
\* (IndexEntry::may_match): the Bloom filter has every trigram of it.
THEOREM FilesWithDemandPass ==
  ASSUME NEW whole \in Seq(Byte), NEW queries, NEW q \in queries,
         Filter!Demand(q) \in Seq(Byte), Within(Filter!Demand(q), whole),
         Filter!PrefilterTrigrams(queries) # Nothing,
         NEW entry, entry.bloom = Filter!TrigramBloom(whole)
  PROVE  Filter!MayMatch(entry, Filter!PrefilterTrigrams(queries))
<1>1. Filter!Trigrams(Filter!Demand(q)) \in Filter!PrefilterTrigrams(queries)
  BY DEF Filter!PrefilterTrigrams
<1>2. Filter!Trigrams(Filter!Demand(q)) \subseteq Filter!Trigrams(whole)
  BY TrigramsOfPart
<1>3. \A t \in Filter!Trigrams(whole) : Filter!BloomContains(Filter!TrigramBloom(whole), t)
  BY DEF Filter!BloomContains, Filter!TrigramBloom
<1> QED
  BY <1>1, <1>2, <1>3 DEF Filter!MayMatch

\* A file with a match is asked.
LEMMA TracedIsCandidate ==
  ASSUME options \in Options, source \in Seq(Byte), Traced
  PROVE  NoFalseNegative
<1> SUFFICES ASSUME occurrences > 0, expected = Len(source), ~crossed,
                    Alternatives(options) # Nothing,
                    FromParts(source, options.archive).prefilterable
             PROVE  Filter!MayMatch(FromParts(source, options.archive), Alternatives(options))
  BY DEF NoFalseNegative, IsCandidate, Filter!MayMatch
<1> DEFINE entry == FromParts(source, options.archive)
           queries == Queries(options)
<1>1. /\ options.encoding \in {"Auto", "Utf8"}
      /\ Alternatives(options) = Filter!PrefilterTrigrams(queries)
  BY DEF Alternatives
<1>2. ~Lossy(source) /\ entry.bloom = Filter!TrigramBloom(source)
  BY DEF FromParts
<1>3. PICK part \in Seq(Byte) : Counts(part)
  BY <1>1, <1>2 DEF Traced, Plain
<1>4. Filter!PrefilterTrigrams(queries) # Nothing
  BY <1>1
<1>5. PICK q \in queries : q \in queries /\ queries = {q}
               /\ q = IF options.mode = "Line"
                        THEN [kind |-> "literal", bytes |-> options.pattern,
                              insensitive |-> options.insensitive]
                        ELSE [kind |-> "regex", node |-> options.node,
                              insensitive |-> options.insensitive]
  BY DEF Queries
<1>6. Filter!Demand(q) # Nothing
  BY <1>4, <1>5 DEF Filter!PrefilterTrigrams
<1>7. Filter!Demand(q) \in Seq(Byte) /\ Within(Filter!Demand(q), source)
  <2>1. CASE options.mode = "Line"
    <3>1. ~options.insensitive
      BY <2>1, QueryAssumption
    <3>2. Filter!Demand(q) = options.pattern
      <4>1. ~q.insensitive /\ q.kind = "literal" /\ q.bytes = options.pattern
        BY <1>5, <2>1, <3>1
      <4> QED
        BY <4>1 DEF Filter!Demand
    <3> QED
      BY <1>3, <2>1, <3>2 DEF Counts
  <2>2. CASE options.mode # "Line"
    <3>1. q.kind = "regex" /\ q.node = options.node /\ q.insensitive = options.insensitive
      BY <1>5, <2>2
    <3>2. ~options.insensitive
      <4> SUFFICES ASSUME options.insensitive PROVE Filter!Demand(q) = Nothing
        BY <1>6
      <4> QED
        BY <3>1 DEF Filter!Demand
    <3>3. options.node \in Nodes /\ part \in Filter!Language[options.node]
      BY <1>3, <2>2, <3>2, QueryAssumption DEF Counts, MayFind, Nodes
    <3>4. Filter!Demand(q) = Filter!MandatoryLiteral[options.node]
      BY <3>1, <3>2 DEF Filter!Demand
    <3>5. /\ Filter!Demand(q) \in Seq(Byte)
          /\ Within(Filter!Demand(q), part)
      BY <1>6, <3>3, <3>4, MatchesContainLiteral
    <3>6. Within(part, source)
      BY <1>3 DEF Counts
    <3> QED
      BY <3>5, <3>6, WithinWhole
  <2> QED
    BY <2>1, <2>2
<1> QED
  BY <1>1, <1>2, <1>4, <1>5, <1>7, FilesWithDemandPass

\* The prefilter is conservative (NoFalseNegative): a file in which anything is counted is
\* one that IndexEntry::may_match lets pass, for every literal of a search by lines and every
\* tree of the expression of a multiline search, every file, every way to cut it into chunks,
\* and whatever bits the trigrams share.
THEOREM NoMatchIsDropped == FileSpec => []NoFalseNegative
<1>1. FileInit => TraceInv
  <2> SUFFICES ASSUME FileInit PROVE TraceInv
    OBVIOUS
  <2>1. FileInv
    BY FileInvAtStart
  <2>2. occurrences = 0 /\ mode # "multiline"
    BY DEF FileInit, LineInit, FirstMode
  <2> QED
    BY <2>1, <2>2 DEF TraceInv, Traced, Deciphered
<1>2. TraceInv /\ [FileNext]_allVars => TraceInv'
  BY TraceKept
<1>3. TraceInv => NoFalseNegative
  BY TracedIsCandidate DEF TraceInv, FileInv, FileTypes, Searcher, LineTypes
<1> QED
  BY <1>1, <1>2, <1>3, PTL DEF FileSpec

=============================================================================
