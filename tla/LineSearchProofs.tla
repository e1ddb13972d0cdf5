--------------------------- MODULE LineSearchProofs ---------------------------
(***************************************************************************)
(* For every text, all settings and every cut into chunks, the report of a *)
(* LineSearcher is that of the text, unless a line too long is completed   *)
(* by a later chunk than the one it began in.                              *)
(*                                                                         *)
(* When a line has been searched, what is retained, waits and is kept as   *)
(* context is a function of the set of lines behind it (Found, Waits and   *)
(* Recent); one more line makes of them what process_line does.            *)
(***************************************************************************)
EXTENDS LineSearch, FiniteSetTheorems, SequenceTheorems, TLAPS

USE DEF lineVars

-----------------------------------------------------------------------------
(* Sets of numbers in their order *)

\* A set of numbers that is not empty has a least one.
LEMMA LeastExists ==
  ASSUME NEW S \in SUBSET Nat, S # {}
  PROVE  /\ Min(S) \in S
         /\ \A y \in S : Min(S) <= y
<1>1. PICK x \in S : \A y \in S : <<y, x>> \notin OpToRel(<, Nat)
  BY NatLessThanWellFounded, WFMin, Zenon
<1>2. \A y \in S : x <= y
  <2> SUFFICES ASSUME NEW y \in S, y < x PROVE FALSE
    OBVIOUS
  <2>1. <<y, x>> \in OpToRel(<, Nat)
    BY DEF OpToRel
  <2> QED
    BY <1>1, <2>1
<1> QED
  BY <1>2 DEF Min

-----------------------------------------------------------------------------
(* The order of a finite set of numbers *)

Rank(S, s) == Cardinality({r \in S : r < s}) + 1

\* Ranks count the members in order.
LEMMA RanksGrow ==
  ASSUME NEW S \in SUBSET Nat, IsFiniteSet(S), NEW s \in S, NEW r \in S, r < s
  PROVE  Rank(S, r) < Rank(S, s)
<1> DEFINE A == {q \in S : q < r}
           B == {q \in S : q < s}
<1>1. IsFiniteSet(B) /\ A \in SUBSET B /\ r \in B /\ r \notin A
  <2>1. IsFiniteSet(B)
    BY FS_Subset
  <2>2. \A q \in S : q < r => q < s
    <3> TAKE q \in S
    <3>1. q \in Nat /\ r \in Nat /\ s \in Nat
      OBVIOUS
    <3> QED
      BY <3>1
  <2>3. A \in SUBSET B
    BY <2>2
  <2>4. r \in B /\ r \notin A
    OBVIOUS
  <2> QED
    BY <2>1, <2>3, <2>4
<1>2. IsFiniteSet(A) /\ Cardinality(A) \in Nat /\ Cardinality(B) \in Nat
  BY <1>1, FS_Subset, FS_CardinalityType
<1>3. Cardinality(A) <= Cardinality(B) /\ Cardinality(A) # Cardinality(B)
  BY <1>1, FS_Subset
<1> QED
  BY <1>2, <1>3 DEF Rank

\* Ranks count from one to the size of the set.
LEMMA RankType ==
  ASSUME NEW S \in SUBSET Nat, IsFiniteSet(S), NEW s \in S
  PROVE  Cardinality(S) \in Nat /\ Rank(S, s) \in 1..Cardinality(S)
<1> DEFINE B == {q \in S : q < s}
<1>1. IsFiniteSet(B) /\ Cardinality(B) <= Cardinality(S) /\ Cardinality(B) # Cardinality(S)
  <2>1. B \in SUBSET S /\ s \notin B
    OBVIOUS
  <2> QED
    BY <2>1, FS_Subset
<1>2. Cardinality(B) \in Nat /\ Cardinality(S) \in Nat
  BY <1>1, FS_CardinalityType
<1> QED
  BY <1>1, <1>2 DEF Rank

\* No two members have one rank.
LEMMA RanksAreDistinct ==
  ASSUME NEW S \in SUBSET Nat, IsFiniteSet(S), NEW s \in S, NEW r \in S,
         Rank(S, r) = Rank(S, s)
  PROVE  r = s
<1>1. r < s \/ s < r \/ r = s
  OBVIOUS
<1>2. Rank(S, r) \in Nat /\ Rank(S, s) \in Nat
  BY RankType
<1> QED
  BY <1>1, <1>2, RanksGrow

\* Every number up to the size of the set is the rank of a member.
LEMMA RanksCover ==
  ASSUME NEW S \in SUBSET Nat, IsFiniteSet(S), NEW i \in 1..Cardinality(S)
  PROVE  \E s \in S : Rank(S, s) = i
<1> DEFINE f == [s \in S |-> Rank(S, s)]
           T == 1..Cardinality(S)
<1>1. Cardinality(S) \in Nat
  BY FS_CardinalityType
<1>2. IsFiniteSet(T) /\ Cardinality(T) = Cardinality(S)
  BY <1>1, FS_Interval
<1>3. f \in Injection(S, T)
  <2>1. \A s \in S : f[s] \in T
    BY RankType
  <2>2. \A s, r \in S : f[s] = f[r] => s = r
    BY RanksAreDistinct
  <2> QED
    BY <2>1, <2>2 DEF Injection, IsInjective
<1> HIDE DEF f, T
<1>4. f \in Surjection(S, T)
  BY <1>2, <1>3, FS_Injection
<1> USE DEF f, T
<1> QED
  BY <1>4 DEF Surjection

\* The i-th member is that of rank i.
LEMMA NthIsOfRank ==
  ASSUME NEW S \in SUBSET Nat, IsFiniteSet(S)
  PROVE  /\ \A i \in 1..Cardinality(S) : Nth(S, i) \in S /\ Rank(S, Nth(S, i)) = i
         /\ \A s \in S : Nth(S, Rank(S, s)) = s
<1>1. \A s \in S : Cardinality({r \in S : r < s}) \in Nat
  <2> TAKE s \in S
  <2>1. IsFiniteSet({r \in S : r < s})
    BY FS_Subset
  <2> QED
    BY <2>1, FS_CardinalityType
<1>2. ASSUME NEW i \in 1..Cardinality(S)
      PROVE  Nth(S, i) \in S /\ Rank(S, Nth(S, i)) = i
  <2>1. PICK s \in S : Rank(S, s) = i
    BY RanksCover
  <2>2. Cardinality({r \in S : r < s}) = i - 1
    BY <1>1, <2>1 DEF Rank
  <2>3. Nth(S, i) \in S /\ Cardinality({r \in S : r < Nth(S, i)}) = i - 1
    BY <2>2 DEF Nth
  <2>4. Cardinality(S) \in Nat
    BY FS_CardinalityType
  <2> QED
    BY <2>3, <2>4 DEF Rank
<1>3. ASSUME NEW s \in S PROVE Nth(S, Rank(S, s)) = s
  <2>1. Rank(S, s) \in 1..Cardinality(S)
    BY RankType
  <2> DEFINE n == Nth(S, Rank(S, s))
  <2>2. n \in S /\ Rank(S, n) = Rank(S, s)
    BY <1>2, <2>1
  <2> HIDE DEF n
  <2>3. n = s
    BY <2>2, RanksAreDistinct
  <2> QED
    BY <2>3 DEF n
<1> QED
  BY <1>2, <1>3

\* The members up to a rank, and above one.
Firsts(S, n) == {s \in S : Rank(S, s) <= n}

\* As many as n members have a rank up to n.
LEMMA FirstsAreMany ==
  ASSUME NEW S \in SUBSET Nat, IsFiniteSet(S), NEW n \in 0..Cardinality(S)
  PROVE  IsFiniteSet(Firsts(S, n)) /\ Cardinality(Firsts(S, n)) = n
<1> DEFINE F == Firsts(S, n)
           f == [s \in F |-> Rank(S, s)]
<1>1. Cardinality(S) \in Nat /\ F \in SUBSET S
  BY FS_CardinalityType DEF Firsts
<1>2. IsFiniteSet(F)
  BY <1>1, FS_Subset
<1>3. \A s \in F : s \in S /\ Rank(S, s) \in 1..n
  BY <1>1, RankType DEF Firsts
<1>4. \A i \in 1..n : \E s \in F : Rank(S, s) = i
  <2> TAKE i \in 1..n
  <2>1. i \in 1..Cardinality(S)
    BY <1>1
  <2>2. PICK s \in S : Rank(S, s) = i
    BY <2>1, RanksCover
  <2> QED
    BY <2>2 DEF Firsts
<1> HIDE DEF F
<1>5. f \in Bijection(F, 1..n)
  <2>1. f \in [F -> 1..n]
    BY <1>3
  <2>2. \A s, r \in F : f[s] = f[r] => s = r
    BY <1>3, RanksAreDistinct
  <2>3. \A i \in 1..n : \E s \in F : f[s] = i
    BY <1>4
  <2> QED
    BY <2>1, <2>2, <2>3 DEF Bijection, Injection, IsInjective, Surjection
<1>6. Cardinality(1..n) = Cardinality(F)
  BY <1>2, <1>5, FS_Bijection DEF ExistsBijection
<1>7. Cardinality(1..n) = n
  BY <1>1, FS_Interval
<1> QED
  BY <1>2, <1>6, <1>7 DEF F

\* What is greater than a member comes after it.
LEMMA GreaterAreRest ==
  ASSUME NEW S \in SUBSET Nat, IsFiniteSet(S), NEW s \in S
  PROVE  Cardinality({q \in S : q > s}) = Cardinality(S) - Rank(S, s)
<1> DEFINE A == {q \in S : q < s}
           B == {q \in S : q > s}
           C == A \cup {s}
<1>1. IsFiniteSet(A) /\ IsFiniteSet(B)
  BY FS_Subset
<1>2. s \notin A /\ S \ C = B /\ S \cap C = C
  <2>1. \A q \in S : q \in Nat /\ (q < s \/ q > s \/ q = s)
    OBVIOUS
  <2>2. s \notin A /\ s \notin B /\ C \subseteq S
    OBVIOUS
  <2>3. \A q \in B : q \notin A
    BY <2>1
  <2> QED
    BY <2>1, <2>2, <2>3
<1>3. Cardinality(C) = Rank(S, s)
  BY <1>1, <1>2, FS_AddElement DEF Rank
<1>4. Cardinality(S \ C) = Cardinality(S) - Cardinality(S \cap C)
  BY FS_Difference
<1> QED
  BY <1>2, <1>3, <1>4

-----------------------------------------------------------------------------
(* Context *)

Ctx(t, s) == [number |-> NumberOf(t, s), text |-> Stripped(LineAt(t, s))]
Contexts(t) == {Ctx(t, s) : s \in Nat}

\* Context has the lines of a set in their order.
LEMMA ContextHas ==
  ASSUME NEW t, NEW S \in SUBSET Nat, IsFiniteSet(S)
  PROVE  /\ ContextAt(t, S) \in Seq(Contexts(t))
         /\ Len(ContextAt(t, S)) = Cardinality(S)
         /\ \A s \in S : ContextAt(t, S)[Rank(S, s)] = Ctx(t, s)
<1> DEFINE n == Cardinality(S)
           c == [i \in 1..n |-> Ctx(t, Nth(S, i))]
<1>1. ContextAt(t, S) = c
  BY DEF ContextAt, Ctx
<1>2. n \in Nat /\ \A i \in 1..n : Nth(S, i) \in S
  BY FS_CardinalityType, NthIsOfRank
<1>3. \A i \in 1..n : Ctx(t, Nth(S, i)) \in Contexts(t)
  BY <1>2 DEF Contexts
<1> HIDE DEF n
<1>4. c \in Seq(Contexts(t)) /\ Len(c) = n
  BY <1>2, <1>3
<1>5. ASSUME NEW s \in S PROVE c[Rank(S, s)] = Ctx(t, s)
  <2>1. Rank(S, s) \in 1..n
    BY RankType DEF n
  <2>2. Nth(S, Rank(S, s)) = s
    BY NthIsOfRank
  <2> QED
    BY <2>1, <2>2
<1> QED
  BY <1>1, <1>4, <1>5 DEF n

\* A sequence with the line of each member at its rank is the context of a set.
LEMMA ContextIs ==
  ASSUME NEW t, NEW S \in SUBSET Nat, IsFiniteSet(S), NEW c \in Seq(Contexts(t)),
         Len(c) = Cardinality(S),
         \A s \in S : c[Rank(S, s)] = Ctx(t, s)
  PROVE  c = ContextAt(t, S)
<1> DEFINE d == ContextAt(t, S)
<1>1. /\ d \in Seq(Contexts(t)) /\ Len(d) = Len(c)
      /\ \A s \in S : d[Rank(S, s)] = Ctx(t, s)
  BY ContextHas
<1> HIDE DEF d
<1>2. \A i \in 1..Len(c) : c[i] = d[i]
  <2> TAKE i \in 1..Len(c)
  <2>1. PICK s \in S : Rank(S, s) = i
    BY RanksCover
  <2> QED
    BY <1>1, <2>1
<1>3. c = d
  BY <1>1, <1>2, SeqEqual
<1> QED
  BY <1>3 DEF d

\* Context with one more line, at the end.
LEMMA ContextGrows ==
  ASSUME NEW t, NEW S \in SUBSET Nat, IsFiniteSet(S), NEW p \in Nat, \A s \in S : s < p
  PROVE  ContextAt(t, S \cup {p}) = Append(ContextAt(t, S), Ctx(t, p))
<1> DEFINE R == S \cup {p}
           c == Append(ContextAt(t, S), Ctx(t, p))
           n == Cardinality(S)
           d == ContextAt(t, S)
<1>1. /\ R \in SUBSET Nat /\ p \notin S /\ n \in Nat
      /\ IsFiniteSet(R) /\ Cardinality(R) = n + 1
  BY FS_AddElement, FS_CardinalityType
<1>2. /\ d \in Seq(Contexts(t)) /\ Len(d) = n
      /\ \A s \in S : d[Rank(S, s)] = Ctx(t, s)
  BY ContextHas
<1>3. Ctx(t, p) \in Contexts(t)
  BY DEF Contexts
<1>4. \A s \in S : Rank(R, s) = Rank(S, s) /\ Rank(S, s) \in 1..n
  <2> TAKE s \in S
  <2>1. {r \in R : r < s} = {r \in S : r < s}
    OBVIOUS
  <2>2. Rank(S, s) \in 1..n
    BY RankType
  <2> QED
    BY <2>1, <2>2 DEF Rank
<1>5. Rank(R, p) = n + 1
  <2>1. \A r \in R : r < p <=> r \in S
    OBVIOUS
  <2>2. {r \in R : r < p} = S
    BY <2>1
  <2> QED
    BY <2>2 DEF Rank
<1> HIDE DEF R, n, d
<1> DEFINE e == Append(d, Ctx(t, p))
<1>6. e \in Seq(Contexts(t)) /\ Len(e) = n + 1
  BY <1>1, <1>2, <1>3
<1>7. \A s \in R : e[Rank(R, s)] = Ctx(t, s)
  <2> TAKE s \in R
  <2>1. CASE s \in S
    <3>1. Rank(R, s) = Rank(S, s) /\ Rank(S, s) \in 1..n /\ d[Rank(S, s)] = Ctx(t, s)
      BY <1>2, <1>4, <2>1
    <3> QED
      BY <1>1, <1>2, <1>3, <3>1
  <2>2. CASE s = p
    BY <1>1, <1>2, <1>3, <1>5, <2>2
  <2> QED
    BY <2>1, <2>2 DEF R
<1> HIDE DEF e
<1>8. e = ContextAt(t, R)
  BY <1>1, <1>6, <1>7, ContextIs
<1> QED
  BY <1>8 DEF e, d, R

\* The context of the last k members is the end of that of all.
Lasts(S, k) == {s \in S : Cardinality({q \in S : q > s}) < k}

\* The context of the last lines is the end of the context of all.
LEMMA ContextOfLasts ==
  ASSUME NEW t, NEW S \in SUBSET Nat, IsFiniteSet(S), NEW k \in Nat
  PROVE  LET n == Cardinality(S)
             m == IF n < k THEN n ELSE k
         IN  ContextAt(t, Lasts(S, k)) = SubSeq(ContextAt(t, S), n - m + 1, n)
<1> DEFINE n == Cardinality(S)
           m == IF n < k THEN n ELSE k
           L == Lasts(S, k)
           F == Firsts(S, n - m)
           d == ContextAt(t, S)
           c == SubSeq(d, n - m + 1, n)
<1>1. n \in Nat /\ m \in 0..n /\ n - m \in 0..n /\ (m = n \/ m = k) /\ m <= k
  BY FS_CardinalityType
<1>2. \A s \in S : Rank(S, s) \in 1..n
  BY RankType
<1>3. \A s \in S : s \in L <=> Rank(S, s) > n - m
  <2>1. \A s \in S : Cardinality({q \in S : q > s}) = n - Rank(S, s)
    BY GreaterAreRest
  <2> QED
    BY <1>1, <1>2, <2>1 DEF Lasts
<1>4. IsFiniteSet(F) /\ Cardinality(F) = n - m
  <2>1. \A j \in 0..Cardinality(S) : IsFiniteSet(Firsts(S, j)) /\ Cardinality(Firsts(S, j)) = j
    BY FirstsAreMany
  <2> QED
    BY <1>1, <2>1
<1> HIDE DEF n, m
<1>5. \A s \in S : s \in F <=> Rank(S, s) <= n - m
  BY DEF Firsts
<1>6. F \subseteq S /\ L \subseteq S
  BY DEF Firsts, Lasts
<1> HIDE DEF F, L
<1>7. \A s \in S : s \in L <=> s \notin F
  <2> TAKE s \in S
  <2>1. Rank(S, s) \in Int /\ n - m \in Int
    BY <1>1, <1>2
  <2> QED
    BY <1>3, <1>5, <2>1
<1>8. L = S \ F /\ S \cap F = F
  BY <1>6, <1>7
<1>9. L \in SUBSET Nat /\ IsFiniteSet(L) /\ Cardinality(L) = m
  <2>1. IsFiniteSet(S \ F) /\ Cardinality(S \ F) = Cardinality(S) - Cardinality(S \cap F)
    BY FS_Difference
  <2>2. n = Cardinality(S)
    BY DEF n
  <2>3. Cardinality(L) = n - (n - m)
    BY <1>4, <1>8, <2>1, <2>2
  <2>4. L \in SUBSET Nat
    BY <1>6
  <2> QED
    BY <1>1, <1>8, <2>1, <2>3, <2>4
<1>10. ASSUME NEW s \in L PROVE Rank(L, s) = Rank(S, s) - (n - m)
  <2> DEFINE A == {r \in S : r < s}
             B == {r \in L : r < s}
  <2>1. s \in S /\ Rank(S, s) > n - m
    BY <1>3, <1>6
  <2>2. F \subseteq A
    <3> SUFFICES ASSUME NEW r \in F PROVE r < s
      BY <1>6
    <3>1. r \in S /\ Rank(S, r) <= n - m /\ r \in Nat /\ s \in Nat
      BY <1>5, <1>6, <2>1
    <3>2. ~(s < r) /\ s # r
      BY <1>1, <1>2, <2>1, <3>1, RanksGrow
    <3> QED
      BY <3>1, <3>2
  <2>3. A \ F = B /\ A \cap F = F
    BY <1>8, <2>2
  <2>4. IsFiniteSet(A)
    BY FS_Subset
  <2>5. Cardinality(B) = Cardinality(A) - Cardinality(F)
    BY <2>3, <2>4, FS_Difference
  <2>6. Cardinality(A) \in Nat
    BY <2>4, FS_CardinalityType
  <2> QED
    BY <1>1, <1>4, <2>5, <2>6 DEF Rank
<1>11. /\ d \in Seq(Contexts(t)) /\ Len(d) = n
       /\ \A s \in S : d[Rank(S, s)] = Ctx(t, s)
  BY ContextHas DEF n
<1> HIDE DEF d
<1>12. /\ c \in Seq(Contexts(t)) /\ Len(c) = m
       /\ \A i \in 1..m : c[i] = d[i + n - m]
  BY <1>1, <1>11
<1>13. \A s \in L : c[Rank(L, s)] = Ctx(t, s)
  <2> TAKE s \in L
  <2>1. s \in S /\ Rank(S, s) \in 1..n /\ Rank(S, s) > n - m
    BY <1>2, <1>3, <1>6
  <2>2. Rank(L, s) = Rank(S, s) - (n - m)
    BY <1>10
  <2>3. Rank(L, s) \in 1..m /\ Rank(L, s) + n - m = Rank(S, s)
    BY <1>1, <2>1, <2>2
  <2> QED
    BY <1>11, <1>12, <2>1, <2>3
<1> HIDE DEF c
<1>14. c = ContextAt(t, L)
  BY <1>9, <1>12, <1>13, ContextIs
<1> QED
  BY <1>14 DEF n, m, L, d, c

-----------------------------------------------------------------------------
(* The lines of a text *)

\* The lines of a text begin at finitely many places.
LEMMA TextHas ==
  ASSUME NEW t \in Seq(Byte)
  PROVE  /\ Len(t) \in Nat
         /\ Breaks(t) \in SUBSET (1..Len(t)) /\ IsFiniteSet(Breaks(t))
         /\ LineStarts(t) \in SUBSET Nat /\ IsFiniteSet(LineStarts(t))
<1>1. Len(t) \in Nat
  OBVIOUS
<1>2. Breaks(t) \in SUBSET (1..Len(t))
  BY DEF Breaks
<1>3. IsFiniteSet(Breaks(t))
  <2>1. IsFiniteSet(1..Len(t))
    BY <1>1, FS_Interval
  <2> QED
    BY <1>2, <2>1, FS_Subset
<1>4. IsFiniteSet(Breaks(t) \cup {0})
  BY <1>3, FS_AddElement
<1>5. LineStarts(t) \in SUBSET (Breaks(t) \cup {0})
  BY DEF LineStarts
<1>6. IsFiniteSet(LineStarts(t))
  BY <1>4, <1>5, FS_Subset
<1>7. LineStarts(t) \in SUBSET Nat
  BY <1>1, <1>2, <1>5
<1> QED
  BY <1>1, <1>2, <1>3, <1>6, <1>7

\* A line goes from its start to the next newline, or to the end.
LEMMA LineEnds ==
  ASSUME NEW t \in Seq(Byte), NEW p \in 0..Len(t)
  PROVE  \E e \in (p + 1)..(Len(t) + 1) :
           /\ LineAt(t, p) = SubSeq(t, p + 1, e - 1)
           /\ \A i \in (p + 1)..(e - 1) : t[i] # Newline
           /\ e = Len(t) + 1 \/ e \in Breaks(t)
<1> DEFINE E == {b \in Breaks(t) : b > p} \cup {Len(t) + 1}
           e == Min(E)
<1>1. Len(t) \in Nat /\ Breaks(t) \in SUBSET (1..Len(t))
  BY TextHas
<1>2. E \in SUBSET Nat /\ E # {} /\ \A x \in E : x \in (p + 1)..(Len(t) + 1)
  BY <1>1
<1>3. e \in E /\ \A y \in E : e <= y
  BY <1>2, LeastExists
<1>4. LineAt(t, p) = SubSeq(t, p + 1, e - 1)
  BY DEF LineAt
<1>5. e \in (p + 1)..(Len(t) + 1) /\ (e = Len(t) + 1 \/ e \in Breaks(t))
  BY <1>2, <1>3
<1> HIDE DEF e
<1>6. \A i \in (p + 1)..(e - 1) : t[i] # Newline
  <2> SUFFICES ASSUME NEW i \in (p + 1)..(e - 1), t[i] = Newline PROVE FALSE
    OBVIOUS
  <2>1. i \in 1..Len(t) /\ i > p /\ i < e
    BY <1>1, <1>5
  <2>2. i \in E
    BY <2>1 DEF Breaks
  <2> QED
    BY <1>1, <1>3, <1>5, <2>1, <2>2
<1> QED
  BY <1>4, <1>5, <1>6

\* Line numbers count from one.
LEMMA NumberType ==
  ASSUME NEW t \in Seq(Byte), NEW p \in Nat
  PROVE  /\ NumberOf(t, p) \in Nat \ {0}
         /\ IsFiniteSet({b \in Breaks(t) : b <= p})
<1>1. IsFiniteSet({b \in Breaks(t) : b <= p})
  BY TextHas, FS_Subset
<1>2. Cardinality({b \in Breaks(t) : b <= p}) \in Nat
  BY <1>1, FS_CardinalityType
<1> QED
  BY <1>1, <1>2 DEF NumberOf

\* The lines after the first begin after a newline, and are numbered one by one.
LEMMA NextNumber ==
  ASSUME NEW t \in Seq(Byte), NEW p \in Nat, NEW n \in Breaks(t), p < n,
         \A i \in (p + 1)..(n - 1) : t[i] # Newline
  PROVE  NumberOf(t, n) = NumberOf(t, p) + 1
<1> DEFINE A == {b \in Breaks(t) : b <= p}
           B == {b \in Breaks(t) : b <= n}
<1>1. Len(t) \in Nat /\ n \in 1..Len(t) /\ \A b \in Breaks(t) : b \in Nat /\ t[b] = Newline
  <2>1. \A b \in Breaks(t) : t[b] = Newline
    BY DEF Breaks
  <2> QED
    BY <2>1, TextHas
<1>2. B = A \cup {n} /\ n \notin A
  <2>1. \A b \in Breaks(t) : b <= n => b <= p \/ b = n
    BY <1>1
  <2>2. \A b \in Breaks(t) : b <= p => b <= n
    BY <1>1
  <2>3. ~(n <= p) /\ n <= n
    BY <1>1
  <2> QED
    BY <2>1, <2>2, <2>3
<1>3. IsFiniteSet(A) /\ Cardinality(A) \in Nat
  BY NumberType, FS_CardinalityType
<1>4. Cardinality(B) = Cardinality(A) + 1
  BY <1>2, <1>3, FS_AddElement
<1> QED
  BY <1>3, <1>4 DEF NumberOf

\* Later lines have greater numbers.
LEMMA NumbersGrow ==
  ASSUME NEW t \in Seq(Byte), NEW s \in Nat, NEW r \in Breaks(t), s < r
  PROVE  NumberOf(t, s) < NumberOf(t, r)
<1> DEFINE A == {b \in Breaks(t) : b <= s}
           B == {b \in Breaks(t) : b <= r}
<1>1. r \in Nat /\ \A b \in Breaks(t) : b \in Nat
  BY TextHas
<1>2. A \in SUBSET B /\ r \in B /\ r \notin A
  <2>1. \A b \in Breaks(t) : b <= s => b <= r
    BY <1>1
  <2>2. r <= r /\ ~(r <= s)
    BY <1>1
  <2> QED
    BY <2>1, <2>2
<1>3. IsFiniteSet(A) /\ IsFiniteSet(B) /\ Cardinality(A) \in Nat /\ Cardinality(B) \in Nat
  BY <1>1, NumberType, FS_CardinalityType
<1>4. Cardinality(A) <= Cardinality(B) /\ Cardinality(A) # Cardinality(B)
  BY <1>2, <1>3, FS_Subset
<1> QED
  BY <1>3, <1>4 DEF NumberOf

\* A line that a newline ends.
LEMMA NextLine ==
  ASSUME NEW t \in Seq(Byte), NEW p \in {0} \cup Breaks(t), NEW n \in Breaks(t), p < n,
         \A i \in (p + 1)..(n - 1) : t[i] # Newline
  PROVE  /\ p \in LineStarts(t)
         /\ LineAt(t, p) = SubSeq(t, p + 1, n - 1)
         /\ \A s \in LineStarts(t) : s < n <=> s < p \/ s = p
<1>1. /\ Len(t) \in Nat /\ p \in 0..Len(t) /\ n \in 1..Len(t) /\ t[n] = Newline
      /\ \A b \in Breaks(t) : b \in Nat /\ t[b] = Newline
  <2>1. \A b \in Breaks(t) : t[b] = Newline
    BY DEF Breaks
  <2> QED
    BY <2>1, TextHas
<1>2. p \in LineStarts(t)
  BY <1>1 DEF LineStarts
<1>3. PICK e \in (p + 1)..(Len(t) + 1) :
        /\ LineAt(t, p) = SubSeq(t, p + 1, e - 1)
        /\ \A i \in (p + 1)..(e - 1) : t[i] # Newline
        /\ e = Len(t) + 1 \/ e \in Breaks(t)
  BY <1>1, LineEnds
<1>4. e = n
  <2>1. ~(n < e)
    BY <1>1, <1>3
  <2>2. ~(e < n)
    BY <1>1, <1>3
  <2> QED
    BY <1>1, <1>3, <2>1, <2>2
<1>5. ASSUME NEW s \in LineStarts(t) PROVE s < n <=> s < p \/ s = p
  <2>1. s = 0 \/ s \in Breaks(t)
    BY DEF LineStarts
  <2>2. CASE s \in Breaks(t)
    BY <1>1, <2>2
  <2>3. CASE s = 0
    BY <1>1, <2>3
  <2> QED
    BY <2>1, <2>2, <2>3
<1> QED
  BY <1>2, <1>3, <1>4, <1>5

\* What is behind the last newline.
LEMMA LastLine ==
  ASSUME NEW t \in Seq(Byte), NEW p \in {0} \cup Breaks(t),
         \A i \in (p + 1)..Len(t) : t[i] # Newline
  PROVE  /\ \A s \in LineStarts(t) : s <= p
         /\ p \in LineStarts(t) <=> p < Len(t)
         /\ p < Len(t) => LineAt(t, p) = SubSeq(t, p + 1, Len(t))
         /\ Cardinality(LineStarts(t)) = NumberOf(t, p) - 1 + (IF p < Len(t) THEN 1 ELSE 0)
<1>1. /\ Len(t) \in Nat /\ p \in 0..Len(t) /\ 0 \notin Breaks(t)
      /\ IsFiniteSet(Breaks(t)) /\ Cardinality(Breaks(t)) \in Nat
      /\ \A b \in Breaks(t) : b \in 1..Len(t) /\ t[b] = Newline
  <2>1. \A b \in Breaks(t) : t[b] = Newline
    BY DEF Breaks
  <2> QED
    BY <2>1, TextHas, FS_CardinalityType
<1>2. \A b \in Breaks(t) : b <= p
  BY <1>1
<1>3. \A s \in LineStarts(t) : s <= p
  BY <1>1, <1>2 DEF LineStarts
<1>4. p \in LineStarts(t) <=> p < Len(t)
  BY DEF LineStarts
<1>5. ASSUME p < Len(t) PROVE LineAt(t, p) = SubSeq(t, p + 1, Len(t))
  <2>1. PICK e \in (p + 1)..(Len(t) + 1) :
          /\ LineAt(t, p) = SubSeq(t, p + 1, e - 1)
          /\ \A i \in (p + 1)..(e - 1) : t[i] # Newline
          /\ e = Len(t) + 1 \/ e \in Breaks(t)
    BY <1>1, LineEnds
  <2>2. e = Len(t) + 1
    BY <1>1, <1>2, <2>1
  <2> QED
    BY <1>1, <2>1, <2>2
<1>6. NumberOf(t, p) = 1 + Cardinality(Breaks(t))
  <2>1. {b \in Breaks(t) : b <= p} = Breaks(t)
    BY <1>2
  <2> QED
    BY <2>1 DEF NumberOf
<1> DEFINE All == Breaks(t) \cup {0}
<1>7. IsFiniteSet(All) /\ Cardinality(All) = Cardinality(Breaks(t)) + 1
  BY <1>1, FS_AddElement
<1>8. Cardinality(LineStarts(t)) = NumberOf(t, p) - 1 + (IF p < Len(t) THEN 1 ELSE 0)
  <2>1. CASE p < Len(t)
    <3>1. LineStarts(t) = All
      BY <1>1, <1>2, <2>1 DEF LineStarts
    <3> QED
      BY <1>1, <1>6, <1>7, <2>1, <3>1
  <2>2. CASE p = Len(t)
    <3>1. LineStarts(t) = All \ {p} /\ p \in All
      BY <1>1, <1>2, <2>2 DEF LineStarts
    <3>2. Cardinality(All \ {p}) = Cardinality(All) - 1
      BY <1>7, <3>1, FS_RemoveElement
    <3> QED
      BY <1>1, <1>6, <1>7, <2>2, <3>1, <3>2
  <2> QED
    BY <1>1, <2>1, <2>2
<1> QED
  BY <1>3, <1>4, <1>5, <1>8

\* A line has at least the bytes up to where no newline has been seen.
LEMMA LineIsLong ==
  ASSUME NEW t \in Seq(Byte), NEW p \in 0..Len(t), NEW a \in p..Len(t),
         \A i \in (p + 1)..a : t[i] # Newline
  PROVE  Len(LineAt(t, p)) \in Nat /\ Len(LineAt(t, p)) >= a - p
<1>1. Len(t) \in Nat
  OBVIOUS
<1>2. PICK e \in (p + 1)..(Len(t) + 1) :
        /\ LineAt(t, p) = SubSeq(t, p + 1, e - 1)
        /\ \A i \in (p + 1)..(e - 1) : t[i] # Newline
        /\ e = Len(t) + 1 \/ e \in Breaks(t)
  BY LineEnds
<1>3. e > a
  <2>1. CASE e = Len(t) + 1
    BY <1>1, <2>1
  <2>2. CASE e \in Breaks(t)
    <3>1. t[e] = Newline
      BY <2>2 DEF Breaks
    <3> QED
      BY <1>1, <1>2, <3>1
  <2> QED
    BY <1>2, <2>1, <2>2
<1>4. Len(LineAt(t, p)) = e - 1 - p
  <2>1. \A i \in (p + 1)..(e - 1) : t[i] \in Byte
    BY <1>1, <1>2
  <2> QED
    BY <1>1, <1>2, <2>1, SubSeqProperties
<1> QED
  BY <1>1, <1>2, <1>3, <1>4

-----------------------------------------------------------------------------
(* What is known when the lines of a set have been searched *)

MatchesIn(S) == {s \in S : Spans(Stripped(LineAt(text, s))) # {}}
Followers(S, s) == Cardinality(Following(S, s, options.after))
Found(S, s) ==
  [number |-> NumberOf(text, s), offset |-> s, text |-> Stripped(LineAt(text, s)),
   before |-> ContextAt(text, Preceding(Searched(text), s, options.before)),
   after |-> ContextAt(text, Following(S, s, options.after))]
Waits(S, s) == [found |-> Found(S, s), remaining |-> options.after - Followers(S, s)]

\* The last lines of the set, as many as the option says.
Recent(S) ==
  LET n == Cardinality(S)
      m == IF n < options.before THEN n ELSE options.before
  IN SubSeq(ContextAt(text, S), n - m + 1, n)

Counted(S) ==
  /\ matchingLines = Cardinality(MatchesIn(S))
  /\ occurrences = Cardinality(UNION {SpansAt(text, s) : s \in S})
  /\ warnedLossy = (\E s \in S : Lossy(Stripped(LineAt(text, s))))
Listed(S) ==
  IF options.result = "Matches"
    THEN /\ before = Recent(S)
         /\ retained = {Found(S, s) : s \in {r \in MatchesIn(S) :
                                                Followers(S, r) = options.after}}
         /\ waiting = {Waits(S, s) : s \in {r \in MatchesIn(S) :
                                              Followers(S, r) < options.after}}
    ELSE before = <<>> /\ retained = {} /\ waiting = {}

\* The settings of a search.
LEMMA OptionTypes ==
  ASSUME options \in Options
  PROVE  /\ options.before \in Nat /\ options.after \in Nat /\ options.lineBytes \in Nat
         /\ options.pattern \in Seq(Byte) /\ options.pattern # <<>>
         /\ options.result \in {"Matches", "Count"}
BY LineAssumption

\* One more line behind the others is one more follower of those that lack one.
LEMMA FollowingGrows ==
  ASSUME NEW S \in SUBSET Nat, IsFiniteSet(S), NEW p \in Nat, \A r \in S : r < p,
         NEW s \in S, NEW n \in Nat
  PROVE  LET F == Following(S, s, n)
             G == Following(S \cup {p}, s, n)
         IN  /\ F \in SUBSET S /\ IsFiniteSet(F) /\ Cardinality(F) \in 0..n
             /\ Cardinality(F) < n => G = F \cup {p}
             /\ Cardinality(F) = n => G = F
<1> DEFINE F == Following(S, s, n)
           R == S \cup {p}
           G == {r \in S : r > s}
           Between(r) == {q \in S : r > q /\ q > s}
<1>1. G \in SUBSET Nat /\ IsFiniteSet(G) /\ Cardinality(G) \in Nat
  <2>1. G \in SUBSET S
    OBVIOUS
  <2> QED
    BY <2>1, FS_Subset, FS_CardinalityType
<1>2. \A r \in G : Rank(G, r) = Cardinality(Between(r)) + 1 /\ Cardinality(Between(r)) \in Nat
  <2> TAKE r \in G
  <2>1. {q \in G : q < r} = Between(r)
    OBVIOUS
  <2>2. IsFiniteSet(Between(r))
    BY FS_Subset
  <2> QED
    BY <2>1, <2>2, FS_CardinalityType DEF Rank
<1>3. \A r \in S : r \in F <=> r \in G /\ Cardinality(Between(r)) < n
  BY DEF Following
<1>4. F \subseteq S
  BY DEF Following
<1> HIDE DEF F
<1>5. F = Firsts(G, n)
  <2>1. \A r \in G : r \in F <=> Rank(G, r) <= n
    <3> TAKE r \in G
    <3>1. Rank(G, r) = Cardinality(Between(r)) + 1 /\ Cardinality(Between(r)) \in Nat
      BY <1>2
    <3>2. r \in F <=> Cardinality(Between(r)) < n
      BY <1>3
    <3> QED
      BY <3>1, <3>2
  <2>2. F \subseteq G
    BY <1>3, <1>4
  <2> QED
    BY <2>1, <2>2 DEF Firsts
<1>6. \A r \in S : r \in Following(R, s, n) <=> r \in F
  <2> TAKE r \in S
  <2>1. {q \in R : r > q /\ q > s} = Between(r)
    OBVIOUS
  <2>2. r \in Following(R, s, n) <=> r > s /\ Cardinality(Between(r)) < n
    BY <2>1 DEF Following
  <2> QED
    BY <1>3, <2>2
<1>7. p \in Following(R, s, n) <=> Cardinality(G) < n
  <2>1. {q \in R : p > q /\ q > s} = G
    <3>1. \A q \in R : p > q <=> q \in S
      OBVIOUS
    <3> QED
      BY <3>1
  <2>2. p > s /\ p \in R
    OBVIOUS
  <2> QED
    BY <2>1, <2>2 DEF Following
<1>8. Following(R, s, n) = IF Cardinality(G) < n THEN F \cup {p} ELSE F
  <2>1. Following(R, s, n) \subseteq R /\ p \notin F
    <3>1. p \notin S
      OBVIOUS
    <3> QED
      BY <1>4, <3>1 DEF Following
  <2> DEFINE H == Following(R, s, n)
  <2>2. /\ H \subseteq S \cup {p} /\ (p \in H <=> Cardinality(G) < n)
        /\ \A r \in S : r \in H <=> r \in F
    BY <1>6, <1>7, <2>1
  <2> HIDE DEF G, H
  <2>3. Cardinality(G) < n => H = F \cup {p}
    BY <1>4, <2>2
  <2>4. ~(Cardinality(G) < n) => H = F
    BY <1>4, <2>2
  <2> QED
    BY <2>3, <2>4 DEF H
<1>9. CASE Cardinality(G) < n
  <2>1. F = G
    <3>1. \A r \in G : Rank(G, r) <= n
      <4> TAKE r \in G
      <4>1. Rank(G, r) \in 1..Cardinality(G)
        BY <1>1, RankType
      <4> QED
        BY <1>1, <1>9, <4>1
    <3> QED
      BY <1>5, <3>1 DEF Firsts
  <2> HIDE DEF G, R
  <2> QED
    BY <1>1, <1>4, <1>8, <1>9, <2>1 DEF F, R
<1>10. CASE ~(Cardinality(G) < n)
  <2>1. n \in 0..Cardinality(G)
    BY <1>1, <1>10
  <2>2. IsFiniteSet(F) /\ Cardinality(F) = n
    BY <1>1, <1>5, <2>1, FirstsAreMany
  <2> HIDE DEF G, R
  <2> QED
    BY <1>4, <1>8, <1>10, <2>2 DEF F, R
<1> QED
  BY <1>9, <1>10

\* What is found of a line, when the next one has been searched.
LEMMA FoundGrows ==
  ASSUME options \in Options, NEW S \in SUBSET Nat, IsFiniteSet(S),
         NEW p \in Nat, \A r \in S : r < p, NEW s \in S
  PROVE  LET R == S \cup {p}
             n == Followers(S, s)
         IN  /\ n \in 0..options.after
             /\ n < options.after =>
                  /\ Followers(R, s) = n + 1
                  /\ Found(R, s) = [Found(S, s) EXCEPT !.after = Append(@, Ctx(text, p))]
             /\ n = options.after => Followers(R, s) = n /\ Found(R, s) = Found(S, s)
<1> DEFINE R == S \cup {p}
           F == Following(S, s, options.after)
           G == Following(R, s, options.after)
<1>1. options.after \in Nat
  BY OptionTypes
<1>2. /\ F \in SUBSET S /\ IsFiniteSet(F) /\ Cardinality(F) \in 0..options.after
      /\ Cardinality(F) < options.after => G = F \cup {p}
      /\ Cardinality(F) = options.after => G = F
  BY <1>1, FollowingGrows
<1> HIDE DEF F, G
<1>3. Followers(S, s) = Cardinality(F) /\ Followers(R, s) = Cardinality(G)
  BY DEF Followers, F, G
<1>4. ASSUME Cardinality(F) < options.after
      PROVE  /\ Cardinality(G) = Cardinality(F) + 1
             /\ Found(R, s) = [Found(S, s) EXCEPT !.after = Append(@, Ctx(text, p))]
  <2>1. G = F \cup {p} /\ p \notin F
    BY <1>2, <1>4
  <2>2. Cardinality(G) = Cardinality(F) + 1
    BY <1>2, <2>1, FS_AddElement
  <2>3. ContextAt(text, F \cup {p}) = Append(ContextAt(text, F), Ctx(text, p))
    <3>1. F \in SUBSET Nat /\ \A r \in F : r < p
      BY <1>2
    <3> QED
      BY <1>2, <3>1, ContextGrows
  <2>4. Found(R, s) = [Found(S, s) EXCEPT !.after = ContextAt(text, G)]
    BY DEF Found, F, G
  <2>5. Found(S, s).after = ContextAt(text, F)
    BY DEF Found, F
  <2> QED
    BY <2>1, <2>2, <2>3, <2>4, <2>5
<1>5. ASSUME Cardinality(F) = options.after
      PROVE  Cardinality(G) = Cardinality(F) /\ Found(R, s) = Found(S, s)
  BY <1>2, <1>5 DEF Found, F, G
<1> QED
  BY <1>2, <1>3, <1>4, <1>5

\* No lines are no context.
LEMMA NoContext ==
  ASSUME NEW t
  PROVE  ContextAt(t, {}) = <<>>
<1>1. Cardinality({}) = 0 /\ IsFiniteSet({})
  BY FS_EmptySet
<1>2. ContextAt(t, {}) \in Seq(Contexts(t)) /\ Len(ContextAt(t, {})) = 0
  BY <1>1, ContextHas
<1> QED
  BY <1>2

\* Nothing follows the last line.
LEMMA FoundNew ==
  ASSUME NEW S \in SUBSET Nat, NEW p \in Nat, \A r \in S : r < p
  PROVE  /\ Followers(S \cup {p}, p) = 0
         /\ Found(S \cup {p}, p).after = <<>>
<1>1. Following(S \cup {p}, p, options.after) = {}
  <2> SUFFICES ASSUME NEW r \in S \cup {p}, r > p PROVE FALSE
    BY DEF Following
  <2>1. r \in Nat /\ (r < p \/ r = p)
    OBVIOUS
  <2> QED
    BY <2>1
<1> QED
  BY <1>1, NoContext, FS_EmptySet DEF Followers, Found

\* The lines next to one that is searched are the last of those before it.
LEMMA PrecedingAreLast ==
  ASSUME options \in Options, text \in Seq(Byte), NEW p \in Nat,
         NEW S, S = {s \in Searched(text) : s < p}
  PROVE  /\ S \in SUBSET Nat /\ IsFiniteSet(S)
         /\ ContextAt(text, Preceding(Searched(text), p, options.before)) = Recent(S)
<1>1. S \in SUBSET Nat /\ IsFiniteSet(S)
  <2>1. LineStarts(text) \in SUBSET Nat /\ IsFiniteSet(LineStarts(text))
    BY TextHas
  <2>2. S \in SUBSET LineStarts(text)
    BY DEF Searched
  <2> QED
    BY <2>1, <2>2, FS_Subset
<1>2. Preceding(Searched(text), p, options.before) = Lasts(S, options.before)
  <2>1. \A r \in Searched(text) : {q \in Searched(text) : r < q /\ q < p} = {q \in S : q > r}
    OBVIOUS
  <2> QED
    BY <2>1 DEF Preceding, Lasts
<1>3. options.before \in Nat
  BY OptionTypes
<1> QED
  BY <1>1, <1>2, <1>3, ContextOfLasts DEF Recent

-----------------------------------------------------------------------------
(* One more line *)

\* A line without its carriage return is a line.
LEMMA StrippedType ==
  ASSUME NEW line \in Seq(Byte)
  PROVE  /\ Stripped(line) \in Seq(Byte) /\ Len(Stripped(line)) <= Len(line)
         /\ Len(Stripped(line)) \in Nat
<1>1. Len(line) \in Nat
  OBVIOUS
<1>2. CASE line # <<>> /\ Last(line) = Return
  <2>1. Len(line) >= 1
    BY <1>1, <1>2
  <2>2. SubSeq(line, 1, Len(line) - 1) \in Seq(Byte)
        /\ Len(SubSeq(line, 1, Len(line) - 1)) = Len(line) - 1
    <3>1. \A i \in 1..(Len(line) - 1) : line[i] \in Byte
      <4> TAKE i \in 1..(Len(line) - 1)
      <4>1. i \in 1..Len(line)
        BY <1>1
      <4> QED
        BY <1>1, <4>1, ElementOfSeq
    <3> DEFINE k == Len(line) - 1
    <3>2. k \in Nat
      BY <1>1, <2>1
    <3> HIDE DEF k
    <3>3. /\ SubSeq(line, 1, k) \in Seq(Byte)
          /\ Len(SubSeq(line, 1, k)) = IF 1 <= k THEN k - 1 + 1 ELSE 0
      BY <3>1, <3>2, SubSeqProperties DEF k
    <3>4. Len(SubSeq(line, 1, k)) = k
      BY <3>2, <3>3
    <3> QED
      BY <3>3, <3>4 DEF k
  <2> QED
    BY <1>1, <1>2, <2>2 DEF Stripped, Front
<1>3. CASE ~(line # <<>> /\ Last(line) = Return)
  BY <1>1, <1>3 DEF Stripped
<1> QED
  BY <1>1, <1>2, <1>3

\* A line is no longer than what follows its beginning.
LEMMA LineType ==
  ASSUME NEW t \in Seq(Byte), NEW p \in 0..Len(t)
  PROVE  /\ LineAt(t, p) \in Seq(Byte) /\ Len(LineAt(t, p)) <= Len(t) - p
         /\ Stripped(LineAt(t, p)) \in Seq(Byte)
         /\ Len(Stripped(LineAt(t, p))) <= Len(t) - p
<1>1. PICK e \in (p + 1)..(Len(t) + 1) : LineAt(t, p) = SubSeq(t, p + 1, e - 1)
  BY LineEnds
<1>2. \A i \in (p + 1)..(e - 1) : t[i] \in Byte
  BY <1>1
<1>3. LineAt(t, p) \in Seq(Byte) /\ Len(LineAt(t, p)) = e - 1 - p
  BY <1>1, <1>2, SubSeqProperties
<1> DEFINE line == LineAt(t, p)
<1>4. line \in Seq(Byte) /\ Len(line) <= Len(t) - p /\ Len(line) \in Nat
  BY <1>1, <1>3
<1> HIDE DEF line
<1>5. Stripped(line) \in Seq(Byte) /\ Len(Stripped(line)) <= Len(line)
  BY <1>4, StrippedType
<1>6. Len(Stripped(line)) \in Nat
  BY <1>5
<1> QED
  BY <1>4, <1>5, <1>6 DEF line

\* The occurrences of the literal in a line are finitely many.
LEMMA SpansAreFew ==
  ASSUME NEW line \in Seq(Byte)
  PROVE  Spans(line) \in SUBSET (0..Len(line)) /\ IsFiniteSet(Spans(line))
<1>1. Spans(line) \in SUBSET (0..Len(line))
  BY DEF Spans
<1>2. IsFiniteSet(0..Len(line))
  BY FS_Interval
<1> QED
  BY <1>1, <1>2, FS_Subset

\* The occurrences in one line more are those of the line more.
LEMMA CountGrows ==
  ASSUME text \in Seq(Byte), NEW S \in SUBSET LineStarts(text),
         NEW p \in LineStarts(text), p \notin S
  PROVE  Cardinality(UNION {SpansAt(text, s) : s \in S \cup {p}})
           = Cardinality(UNION {SpansAt(text, s) : s \in S})
               + Cardinality(Spans(Stripped(LineAt(text, p))))
<1> DEFINE U == UNION {SpansAt(text, s) : s \in S}
           A == Spans(Stripped(LineAt(text, p)))
           V == SpansAt(text, p)
           f == [i \in A |-> <<p, i>>]
           n == Len(text)
<1>1. /\ n \in Nat /\ LineStarts(text) \in SUBSET Nat /\ IsFiniteSet(LineStarts(text))
      /\ \A s \in LineStarts(text) : s \in 0..n
  BY TextHas DEF LineStarts
<1>2. \A s \in LineStarts(text) :
        Spans(Stripped(LineAt(text, s))) \in SUBSET (0..n)
  <2> TAKE s \in LineStarts(text)
  <2>1. /\ Stripped(LineAt(text, s)) \in Seq(Byte)
        /\ Len(Stripped(LineAt(text, s))) <= n
    BY <1>1, LineType
  <2>2. Spans(Stripped(LineAt(text, s))) \in SUBSET (0..Len(Stripped(LineAt(text, s))))
    BY <2>1, SpansAreFew
  <2>3. Len(Stripped(LineAt(text, s))) \in Nat
    BY <2>1
  <2> QED
    BY <1>1, <2>1, <2>2, <2>3
<1>3. U \in SUBSET (LineStarts(text) \X (0..n)) /\ IsFiniteSet(U)
  <2>1. U \in SUBSET (LineStarts(text) \X (0..n))
    <3> SUFFICES ASSUME NEW s \in S, NEW x \in SpansAt(text, s)
                 PROVE  x \in LineStarts(text) \X (0..n)
      OBVIOUS
    <3>1. PICK i \in Spans(Stripped(LineAt(text, s))) : x = <<s, i>>
      BY DEF SpansAt
    <3>2. i \in 0..n /\ s \in LineStarts(text)
      BY <1>2
    <3> QED
      BY <3>1, <3>2
  <2>2. IsFiniteSet(LineStarts(text) \X (0..n))
    <3>1. IsFiniteSet(0..n)
      BY <1>1, FS_Interval
    <3> QED
      BY <1>1, <3>1, FS_Product
  <2> QED
    BY <2>1, <2>2, FS_Subset
<1>4. IsFiniteSet(A)
  BY <1>1, LineType, SpansAreFew
<1> HIDE DEF A
<1>5. V = {<<p, i>> : i \in A}
  BY DEF SpansAt, A
<1>6. f \in Bijection(A, V)
  BY <1>5 DEF Bijection, Injection, IsInjective, Surjection
<1>7. IsFiniteSet(V) /\ Cardinality(V) = Cardinality(A)
  BY <1>4, <1>6, FS_Bijection DEF ExistsBijection
<1>8. \A x \in U : x \notin V
  <2> SUFFICES ASSUME NEW s \in S, NEW x \in SpansAt(text, s), x \in V PROVE FALSE
    OBVIOUS
  <2>1. x[1] = s
    BY DEF SpansAt
  <2>2. x[1] = p
    BY <1>5
  <2> QED
    BY <2>1, <2>2
<1>9. UNION {SpansAt(text, s) : s \in S \cup {p}} = U \cup V
  OBVIOUS
<1> HIDE DEF U, V
<1>10. U \cap V = {}
  BY <1>8
<1>11. /\ Cardinality(U) \in Nat /\ Cardinality(V) \in Nat
       /\ Cardinality(U \cup V) = Cardinality(U) + Cardinality(V) - Cardinality(U \cap V)
  <2>1. Cardinality(U) \in Nat /\ Cardinality(V) \in Nat
    BY <1>3, <1>7, FS_CardinalityType
  <2>2. IsFiniteSet(U) /\ IsFiniteSet(V)
    BY <1>3, <1>7
  <2> QED
    BY <2>1, <2>2, FS_Union
<1>12. Cardinality(U \cup V) = Cardinality(U) + Cardinality(A)
  <2>1. Cardinality(U \cap V) = 0
    BY <1>10, FS_EmptySet
  <2> QED
    BY <1>7, <1>11, <2>1
<1> QED
  BY <1>9, <1>12 DEF U, A

\* process_line counts the line it is given.
LEMMA CountedGrows ==
  ASSUME options \in Options, text \in Seq(Byte),
         NEW S \in SUBSET LineStarts(text), NEW p \in LineStarts(text), p \notin S,
         Counted(S), ProcessLine(LineAt(text, p)), text' = text, options' = options
  PROVE  Counted(S \cup {p})'
<1> DEFINE R == S \cup {p}
           line == Stripped(LineAt(text, p))
           M == MatchesIn(S)
           one == IF Spans(line) # {} THEN 1 ELSE 0
<1>1. /\ MatchesIn(R)' = MatchesIn(R)
      /\ {SpansAt(text, s) : s \in R}' = {SpansAt(text, s) : s \in R}
      /\ (\E s \in R : Lossy(Stripped(LineAt(text, s))))'
           <=> \E s \in R : Lossy(Stripped(LineAt(text, s)))
  BY DEF MatchesIn, SpansAt, Spans
<1>2. /\ matchingLines' = matchingLines + one
      /\ occurrences' = occurrences + Cardinality(Spans(line))
      /\ warnedLossy' = (warnedLossy \/ Lossy(line))
  <2>1. \A x : Cardinality({x}) = 1
    BY FS_Singleton
  <2>2. Cardinality({}) = 0
    BY FS_EmptySet
  <2> QED
    BY <2>1, <2>2 DEF ProcessLine
<1>3. IsFiniteSet(M) /\ p \notin M /\ Cardinality(M) \in Nat
  <2>1. M \in SUBSET LineStarts(text) /\ p \notin M
    BY DEF MatchesIn
  <2>2. IsFiniteSet(M)
    BY <2>1, TextHas, FS_Subset
  <2> QED
    BY <2>1, <2>2, FS_CardinalityType
<1>4. Cardinality(MatchesIn(R)) = Cardinality(M) + one
  <2>1. CASE Spans(line) # {}
    <3>1. MatchesIn(R) = M \cup {p}
      BY <2>1 DEF MatchesIn
    <3> QED
      BY <1>3, <2>1, <3>1, FS_AddElement
  <2>2. CASE Spans(line) = {}
    <3>1. MatchesIn(R) = M
      BY <2>2 DEF MatchesIn
    <3> QED
      BY <1>3, <2>2, <3>1
  <2> QED
    BY <2>1, <2>2
<1>5. matchingLines' = Cardinality(MatchesIn(R))
  BY <1>2, <1>4 DEF Counted
<1>6. occurrences' = Cardinality(UNION {SpansAt(text, s) : s \in R})
  BY <1>2, CountGrows DEF Counted
<1>7. warnedLossy' = \E s \in R : Lossy(Stripped(LineAt(text, s)))
  BY <1>2 DEF Counted
<1> QED
  BY <1>1, <1>5, <1>6, <1>7 DEF Counted

\* The last k of a sequence with one more member.
LEMMA KeepLast ==
  ASSUME NEW V, NEW c \in Seq(V), NEW v \in V, NEW k \in Nat
  PROVE  LET n == Len(c)
             m == IF n < k THEN n ELSE k
             j == IF n + 1 < k THEN n + 1 ELSE k
             kept == Append(SubSeq(c, n - m + 1, n), v)
         IN  SubSeq(Append(c, v), (n + 1) - j + 1, n + 1)
               = IF Len(kept) > k THEN SubSeq(kept, Len(kept) - k + 1, Len(kept)) ELSE kept
<1> DEFINE n == Len(c)
           m == IF n < k THEN n ELSE k
           j == IF n + 1 < k THEN n + 1 ELSE k
           rest == SubSeq(c, n - m + 1, n)
           kept == Append(rest, v)
           all == Append(c, v)
           right == SubSeq(all, (n + 1) - j + 1, n + 1)
           left == SubSeq(kept, Len(kept) - k + 1, Len(kept))
<1>1. /\ n \in Nat /\ m \in 0..n /\ m <= k /\ j \in 0..(n + 1)
      /\ (m < k => m = n /\ j = n + 1) /\ (m = k => j = k)
      /\ \A i \in 1..n : c[i] \in V
  OBVIOUS
<1>2. /\ all \in Seq(V) /\ Len(all) = n + 1 /\ all[n + 1] = v
      /\ \A i \in 1..n : all[i] = c[i]
  OBVIOUS
<1> HIDE DEF n, m, j
<1>3. /\ rest \in Seq(V) /\ Len(rest) = m
      /\ \A i \in 1..m : rest[i] = c[i + n - m]
  <2>1. \A i \in (n - m + 1)..n : c[i] \in V
    BY <1>1
  <2>2. /\ rest \in Seq(V) /\ Len(rest) = IF n - m + 1 <= n THEN n - (n - m + 1) + 1 ELSE 0
        /\ \A i \in 1..(n - (n - m + 1) + 1) : rest[i] = c[n - m + 1 + i - 1]
    BY <1>1, <2>1, SubSeqProperties
  <2> HIDE DEF rest
  <2> QED
    BY <1>1, <2>2
<1> HIDE DEF rest
<1>4. /\ kept \in Seq(V) /\ Len(kept) = m + 1 /\ kept[m + 1] = v
      /\ \A i \in 1..m : kept[i] = c[i + n - m]
  BY <1>1, <1>3
<1> HIDE DEF all, kept
<1>5. \A i \in 1..(m + 1) : kept[i] = all[i + n - m]
  <2> TAKE i \in 1..(m + 1)
  <2>1. CASE i = m + 1
    BY <1>1, <1>2, <1>4, <2>1
  <2>2. CASE i # m + 1
    <3>1. i \in 1..m /\ i + n - m \in 1..n
      BY <1>1, <2>2
    <3> QED
      BY <1>2, <1>4, <3>1
  <2> QED
    BY <2>1, <2>2
<1>6. /\ right \in Seq(V) /\ Len(right) = j
      /\ \A i \in 1..j : right[i] = all[i + n + 1 - j]
  <2>1. \A i \in ((n + 1) - j + 1)..(n + 1) : all[i] \in V
    <3> TAKE i \in ((n + 1) - j + 1)..(n + 1)
    <3>1. i \in 1..Len(all)
      BY <1>1, <1>2
    <3> QED
      BY <1>2, <3>1, ElementOfSeq
  <2> DEFINE lo == (n + 1) - j + 1
             hi == n + 1
  <2>2. lo \in Int /\ hi \in Int /\ hi - lo + 1 = j /\ lo + j = hi + 1 /\ j \in Nat
    BY <1>1
  <2>3. right = SubSeq(all, lo, hi)
    OBVIOUS
  <2> HIDE DEF lo, hi, right
  <2>4. /\ right \in Seq(V) /\ Len(right) = IF lo <= hi THEN hi - lo + 1 ELSE 0
        /\ \A i \in 1..(hi - lo + 1) : right[i] = all[lo + i - 1]
    <3>1. \A i \in lo..hi : all[i] \in V
      BY <2>1 DEF lo, hi
    <3> QED
      BY <2>2, <2>3, <3>1, SubSeqProperties
  <2>5. right \in Seq(V) /\ Len(right) = j /\ \A i \in 1..j : right[i] = all[lo + i - 1]
    BY <2>2, <2>4
  <2>6. \A i \in 1..j : lo + i - 1 = i + n + 1 - j
    BY <1>1 DEF lo
  <2> QED
    BY <2>5, <2>6
<1>7. ASSUME m < k PROVE right = IF Len(kept) > k THEN left ELSE kept
  <2>1. kept = right
    <3>1. Len(kept) = Len(right)
      BY <1>1, <1>4, <1>6, <1>7
    <3>2. \A i \in 1..Len(kept) : kept[i] = right[i]
      <4> HIDE DEF right
      <4> QED
        BY <1>1, <1>4, <1>5, <1>6, <1>7
    <3> QED
      BY <1>4, <1>6, <3>1, <3>2, SeqEqual
  <2>2. ~(Len(kept) > k)
    BY <1>1, <1>4, <1>7
  <2> HIDE DEF left, right
  <2> QED
    BY <2>1, <2>2
<1>8. ASSUME m = k PROVE right = IF Len(kept) > k THEN left ELSE kept
  <2>1. Len(kept) > k /\ Len(kept) - k + 1 = 2 /\ Len(kept) = k + 1
    BY <1>1, <1>4, <1>8
  <2>2. /\ left \in Seq(V) /\ Len(left) = k
        /\ \A i \in 1..k : left[i] = kept[i + 1]
    <3>1. \A i \in 2..(k + 1) : kept[i] \in V
      <4> TAKE i \in 2..(k + 1)
      <4>1. i \in 1..Len(kept)
        BY <1>1, <2>1
      <4> QED
        BY <1>4, <4>1, ElementOfSeq
    <3>2. left = SubSeq(kept, 2, k + 1)
      BY <2>1
    <3> HIDE DEF left
    <3>3. /\ left \in Seq(V) /\ Len(left) = IF 2 <= k + 1 THEN k + 1 - 2 + 1 ELSE 0
          /\ \A i \in 1..(k + 1 - 2 + 1) : left[i] = kept[2 + i - 1]
      BY <3>1, <3>2, SubSeqProperties
    <3> QED
      BY <3>3
  <2>3. left = right
    <3>1. \A i \in 1..Len(left) : left[i] = right[i]
      <4> HIDE DEF left, right
      <4> TAKE i \in 1..Len(left)
      <4>1. i + 1 \in 1..(m + 1) /\ i \in 1..j /\ i \in 1..k
        BY <1>1, <1>8, <2>2
      <4>2. left[i] = all[i + 1 + n - m]
        BY <1>5, <2>2, <4>1
      <4>3. right[i] = all[i + n + 1 - j]
        BY <1>6, <4>1
      <4>4. i + 1 + n - m = i + n + 1 - j
        BY <1>1, <1>8, <4>1
      <4> QED
        BY <4>2, <4>3, <4>4
    <3>2. Len(left) = Len(right)
      BY <1>1, <1>6, <1>8, <2>2
    <3> QED
      BY <1>6, <2>2, <3>1, <3>2, SeqEqual
  <2> HIDE DEF left, right
  <2> QED
    BY <2>1, <2>3
<1>9. m < k \/ m = k
  BY <1>1
<1>10. right = IF Len(kept) > k THEN left ELSE kept
  BY <1>7, <1>8, <1>9
<1> QED
  BY <1>10 DEF kept, rest, all, n, m, j

\* What is found depends on the text and the settings alone.
LEMMA SameFound ==
  ASSUME text' = text, options' = options, NEW S
  PROVE  /\ MatchesIn(S)' = MatchesIn(S) /\ Recent(S)' = Recent(S)
         /\ \A s : /\ Found(S, s)' = Found(S, s) /\ Waits(S, s)' = Waits(S, s)
                   /\ Followers(S, s)' = Followers(S, s)
BY DEF MatchesIn, Recent, Found, Waits, Followers, Spans, Searched

\* Records with one choice for each field.
LEMMA OneRecord ==
  ASSUME NEW f, NEW a
  PROVE  [found : {f}, remaining : {a}] = {[found |-> f, remaining |-> a]}
<1>1. ASSUME NEW x \in [found : {f}, remaining : {a}]
      PROVE  x = [found |-> f, remaining |-> a]
  BY <1>1
<1>2. [found |-> f, remaining |-> a] \in [found : {f}, remaining : {a}]
  OBVIOUS
<1> QED
  BY <1>1, <1>2

\* process_line retains what is found of the lines, and keeps what waits for more.
LEMMA ListedGrows ==
  ASSUME options \in Options, text \in Seq(Byte),
         NEW S \in SUBSET Nat, IsFiniteSet(S), NEW p \in Nat, \A s \in S : s < p,
         ContextAt(text, Preceding(Searched(text), p, options.before)) = Recent(S),
         lineNumber = NumberOf(text, p), pendingOffset = p,
         Listed(S), ProcessLine(LineAt(text, p)), text' = text, options' = options
  PROVE  Listed(S \cup {p})'
<1> DEFINE R == S \cup {p}
           line == Stripped(LineAt(text, p))
           context == [number |-> lineNumber, text |-> line]
           found == [number |-> lineNumber, offset |-> pendingOffset, text |-> line,
                     before |-> before, after |-> <<>>]
           New == IF Spans(line) # {} THEN {p} ELSE {}
           k == options.before
           a == options.after
           Serve(m) == [found |-> [m.found EXCEPT !.after = Append(@, context)],
                        remaining |-> m.remaining - 1]
           served == {Serve(m) : m \in waiting}
           Lacking == {r \in MatchesIn(S) : Followers(S, r) < a}
           Full == {r \in MatchesIn(S) : Followers(S, r) = a}
<1>1. /\ S \in SUBSET Nat /\ IsFiniteSet(S) /\ p \in Nat /\ \A s \in S : s < p
      /\ ContextAt(text, Preceding(Searched(text), p, k)) = Recent(S)
      /\ k \in Nat /\ a \in Nat
  BY OptionTypes
<1>2. context = Ctx(text, p)
  BY DEF Ctx
<1>3. /\ MatchesIn(R)' = MatchesIn(R) /\ Recent(R)' = Recent(R)
      /\ \A s : /\ Found(R, s)' = Found(R, s) /\ Waits(R, s)' = Waits(R, s)
                /\ Followers(R, s)' = Followers(R, s)
  BY SameFound
<1>4. CASE options.result # "Matches"
  BY <1>4 DEF ProcessLine, Listed
<1>5. CASE options.result = "Matches"
  <2>1. /\ before = Recent(S)
        /\ retained = {Found(S, s) : s \in Full}
        /\ waiting = {Waits(S, s) : s \in Lacking}
    BY <1>5 DEF Listed
  <2>2. /\ retained' = retained \cup {m.found : m \in {s \in served : s.remaining = 0}}
                         \cup (IF a = 0 THEN IF Spans(line) # {} THEN {found} ELSE {} ELSE {})
        /\ waiting' = {s \in served : s.remaining > 0}
                         \cup (IF a = 0 THEN {}
                               ELSE [found : IF Spans(line) # {} THEN {found} ELSE {},
                                     remaining : {a}])
        /\ before' = LET kept == Append(before, context)
                     IN IF Len(kept) > k THEN SubSeq(kept, Len(kept) - k + 1, Len(kept))
                                         ELSE kept
    BY <1>5 DEF ProcessLine
  <2>3. before' = Recent(R)
    <3> DEFINE c == ContextAt(text, S)
               n == Cardinality(S)
    <3>1. c \in Seq(Contexts(text)) /\ Len(c) = n /\ context \in Contexts(text)
      BY <1>1, <1>2, ContextHas DEF Contexts
    <3>2. Cardinality(R) = n + 1
      <4>1. p \notin S
        BY <1>1
      <4> QED
        BY <1>1, <4>1, FS_AddElement
    <3>3. ContextAt(text, R) = Append(c, context)
      <4>1. S \in SUBSET Nat /\ IsFiniteSet(S) /\ p \in Nat
        BY <1>1
      <4>2. \A s \in S : s < p
        BY <1>1
      <4>3. ContextAt(text, S \cup {p}) = Append(ContextAt(text, S), Ctx(text, p))
        BY <4>1, <4>2, ContextGrows
      <4> QED
        BY <1>2, <4>3
    <3>4. before = SubSeq(c, n - (IF n < k THEN n ELSE k) + 1, n)
      BY <2>1 DEF Recent
    <3>5. Recent(R) = SubSeq(Append(c, context),
                             (n + 1) - (IF n + 1 < k THEN n + 1 ELSE k) + 1, n + 1)
      <4> DEFINE End(d, N) == SubSeq(d, N - (IF N < options.before THEN N
                                             ELSE options.before) + 1, N)
      <4>1. Recent(R) = End(ContextAt(text, R), Cardinality(R))
        BY Zenon DEF Recent
      <4>2. Recent(R) = End(Append(c, context), n + 1)
        <5> HIDE DEF End, R, c, n, context
        <5> QED
          BY <3>2, <3>3, <4>1
      <4> HIDE DEF R, c, n, context, End
      <4>3. Recent(R) = SubSeq(Append(c, context), (n + 1) - (IF (n + 1) < options.before
                                             THEN (n + 1) ELSE options.before) + 1, n + 1)
        BY <4>2, Zenon DEF End
      <4> QED
        BY <4>3, Zenon
    <3> HIDE DEF c, n, context
    <3>6. SubSeq(Append(c, context), (n + 1) - (IF n + 1 < k THEN n + 1 ELSE k) + 1, n + 1)
            = LET kept == Append(before, context)
              IN IF Len(kept) > k THEN SubSeq(kept, Len(kept) - k + 1, Len(kept)) ELSE kept
      <4>1. LET m == IF Len(c) < k THEN Len(c) ELSE k
                j == IF Len(c) + 1 < k THEN Len(c) + 1 ELSE k
                kept == Append(SubSeq(c, Len(c) - m + 1, Len(c)), context)
            IN  SubSeq(Append(c, context), (Len(c) + 1) - j + 1, Len(c) + 1)
                  = IF Len(kept) > k THEN SubSeq(kept, Len(kept) - k + 1, Len(kept)) ELSE kept
        <5>1. k \in Nat
          BY <1>1
        <5> HIDE DEF k
        <5> QED
          BY <3>1, <5>1, KeepLast
      <4>2. n = Len(c)
        BY <3>1
      <4> HIDE DEF k
      <4> QED
        BY <3>4, <4>1, <4>2
    <3> QED
      BY <2>2, <3>5, <3>6
  <2>4. \A s \in MatchesIn(S) : s \in S
    BY DEF MatchesIn
  <2>5. \A s \in Lacking : Serve(Waits(S, s)) = Waits(R, s) /\ Followers(R, s) \in 0..a
    <3> TAKE s \in Lacking
    <3>1. /\ Followers(S, s) \in 0..a /\ Followers(S, s) < a
          /\ Followers(R, s) = Followers(S, s) + 1
          /\ Found(R, s) = [Found(S, s) EXCEPT !.after = Append(@, context)]
      <4>1. s \in S /\ Followers(S, s) < a
        BY <2>4
      <4>2. LET T == S \cup {p}
                n == Followers(S, s)
            IN  /\ n \in 0..options.after
                /\ n < options.after =>
                     /\ Followers(T, s) = n + 1
                     /\ Found(T, s) = [Found(S, s) EXCEPT !.after = Append(@, Ctx(text, p))]
                /\ n = options.after => Followers(T, s) = n /\ Found(T, s) = Found(S, s)
        BY <4>1, FoundGrows
      <4> HIDE DEF context
      <4> QED
        BY <1>2, <4>1, <4>2
    <3> HIDE DEF context
    <3>2. Waits(R, s).remaining = Waits(S, s).remaining - 1
      BY <1>1, <3>1 DEF Waits
    <3>3. Waits(R, s) = [found |-> [Waits(S, s).found EXCEPT !.after = Append(@, context)],
                         remaining |-> Waits(S, s).remaining - 1]
      BY <3>1, <3>2 DEF Waits
    <3> QED
      BY <1>1, <3>1, <3>3
  <2>6. \A s \in Full : Found(R, s) = Found(S, s) /\ Followers(R, s) = a
    <3> TAKE s \in Full
    <3>1. s \in S /\ Followers(S, s) = a
      BY <2>4
    <3>2. Followers(S, s) = options.after =>
            Followers(S \cup {p}, s) = Followers(S, s) /\ Found(S \cup {p}, s) = Found(S, s)
      BY <1>1, <3>1, FoundGrows
    <3> QED
      BY <3>1, <3>2
  <2>7. Followers(R, p) = 0 /\ Found(R, p) = found
    BY <1>1, <2>1, FoundNew DEF Found
  <2>8. \A s \in MatchesIn(S) : s \in Full \/ s \in Lacking
    <3> TAKE s \in MatchesIn(S)
    <3>1. Followers(S, s) \in 0..a
      BY <1>1, <2>4, FoundGrows
    <3> QED
      BY <1>1, <3>1
  <2>9. MatchesIn(R) = MatchesIn(S) \cup New
    BY DEF MatchesIn
  <2>10. served = {Waits(R, s) : s \in Lacking}
    <3> HIDE DEF Serve, Lacking
    <3>1. served = {Serve(Waits(S, s)) : s \in Lacking}
      BY <2>1
    <3> QED
      BY <2>5, <3>1
  <2> HIDE DEF served, Serve, found, R
  <2>11. \A s \in Lacking : Waits(R, s).remaining = a - Followers(R, s)
                            /\ Waits(R, s).found = Found(R, s)
    BY DEF Waits
  <2>12. retained' = {Found(R, s) : s \in {r \in MatchesIn(R) : Followers(R, r) = a}}
    <3>1. {m.found : m \in {s \in served : s.remaining = 0}}
            = {Found(R, s) : s \in {r \in Lacking : Followers(R, r) = a}}
      <4>1. \A s \in Lacking : Waits(R, s).remaining = 0 <=> Followers(R, s) = a
        BY <1>1, <2>5, <2>11
      <4> HIDE DEF Lacking
      <4> QED
        BY <2>10, <2>11, <4>1
    <3>2. retained = {Found(R, s) : s \in Full}
      <4> HIDE DEF Full
      <4> QED
        BY <2>1, <2>6
    <3>3. {r \in MatchesIn(R) : Followers(R, r) = a}
            = Full \cup {r \in Lacking : Followers(R, r) = a} \cup (IF a = 0 THEN New ELSE {})
      <4>1. \A r \in New : Followers(R, r) = 0
        BY <2>7
      <4>2. Full \subseteq MatchesIn(S) /\ Lacking \subseteq MatchesIn(S)
        OBVIOUS
      <4> HIDE DEF Full, Lacking, New
      <4> QED
        BY <2>6, <2>8, <2>9, <4>1, <4>2
    <3>4. (IF a = 0 THEN IF Spans(line) # {} THEN {found} ELSE {} ELSE {})
            = {Found(R, s) : s \in (IF a = 0 THEN New ELSE {})}
      BY <2>7
    <3> HIDE DEF Full, Lacking, New
    <3> QED
      BY <2>2, <3>1, <3>2, <3>3, <3>4
  <2>13. waiting' = {Waits(R, s) : s \in {r \in MatchesIn(R) : Followers(R, r) < a}}
    <3>1. {s \in served : s.remaining > 0}
            = {Waits(R, s) : s \in {r \in Lacking : Followers(R, r) < a}}
      <4>1. \A s \in Lacking : Waits(R, s).remaining > 0 <=> Followers(R, s) < a
        BY <1>1, <2>5, <2>11
      <4> HIDE DEF Lacking
      <4> QED
        BY <2>10, <4>1
    <3>2. {r \in MatchesIn(R) : Followers(R, r) < a}
            = {r \in Lacking : Followers(R, r) < a} \cup (IF a = 0 THEN {} ELSE New)
      <4>1. \A r \in New : Followers(R, r) = 0
        BY <2>7
      <4>2. Full \subseteq MatchesIn(S) /\ Lacking \subseteq MatchesIn(S)
        OBVIOUS
      <4>3. \A r \in Full : ~(Followers(R, r) < a)
        BY <1>1, <2>6
      <4> HIDE DEF Full, Lacking, New
      <4> QED
        BY <1>1, <2>8, <2>9, <4>1, <4>2, <4>3
    <3>3. (IF a = 0 THEN {} ELSE [found : IF Spans(line) # {} THEN {found} ELSE {},
                                  remaining : {a}])
            = {Waits(R, s) : s \in (IF a = 0 THEN {} ELSE New)}
      <4>1. Waits(R, p) = [found |-> found, remaining |-> a]
        BY <1>1, <2>7 DEF Waits
      <4>2. CASE a = 0
        BY <4>2
      <4>3. CASE a # 0 /\ Spans(line) = {}
        BY <4>3
      <4>4. CASE a # 0 /\ Spans(line) # {}
        <5>1. [found : {found}, remaining : {a}] = {[found |-> found, remaining |-> a]}
          BY OneRecord
        <5> HIDE DEF a
        <5> QED
          BY <4>1, <4>4, <5>1
      <4> QED
        BY <4>2, <4>3, <4>4
    <3> HIDE DEF Full, Lacking, New
    <3> QED
      BY <2>2, <3>1, <3>2, <3>3
  <2>14. options.result' = options.result /\ options.after' = options.after
    OBVIOUS
  <2>15. /\ MatchesIn(R)' = MatchesIn(R) /\ Recent(R)' = Recent(R)
         /\ \A s : /\ Found(R, s)' = Found(R, s) /\ Waits(R, s)' = Waits(R, s)
                   /\ Followers(R, s)' = Followers(R, s)
    BY <1>3 DEF R
  <2>16. /\ retained' = {Found(R, s)' : s \in {r \in MatchesIn(R)' :
                                                Followers(R, r)' = options.after'}}
         /\ waiting' = {Waits(R, s)' : s \in {r \in MatchesIn(R)' :
                                                Followers(R, r)' < options.after'}}
    BY <2>12, <2>13, <2>14, <2>15
  <2>17. before' = Recent(R)' /\ options.result' = "Matches"
    BY <1>5, <2>3, <2>14, <2>15
  <2>18. Listed(R)'
    BY <2>16, <2>17 DEF Listed
  <2> QED
    BY <2>18 DEF R
<1> QED
  BY <1>4, <1>5

-----------------------------------------------------------------------------
(* The invariant *)

Context == [number : Nat, text : Seq(Byte)]
Phases == {"idle", "push", "pending", "loop", "finish", "done"}

LineTypes ==
  /\ options \in Options /\ text \in Seq(Byte)
  /\ given \in 0..Len(text) /\ at \in 0..given /\ phase \in Phases
  /\ pending \in Seq(Byte) /\ lineNumber \in Nat \ {0} /\ discarding \in BOOLEAN
  /\ before \in Seq(Context) /\ Len(before) <= options.before
  /\ \A m \in waiting : m.remaining \in 1..options.after
  /\ totalLines \in Nat \cup {Open}

\* pendingOffset is where the line begins that goes on at the position at.
Position ==
  /\ pendingOffset \in {0} \cup Breaks(text) /\ pendingOffset <= at
  /\ \A i \in (pendingOffset + 1)..at : text[i] # Newline
  /\ lineNumber = NumberOf(text, pendingOffset)
  /\ pending = <<>> /\ ~discarding => at = pendingOffset
  /\ phase = "idle" => at = given
  /\ phase \in {"finish", "done"} => at = given /\ given = Len(text)
  /\ phase = "pending" => ~discarding
  /\ phase = "loop" => ~discarding /\ at = pendingOffset
  /\ totalLines = Open <=> phase # "done"

\* What was kept of that line: everything, unless it is too long.
Kept ==
  IF discarding
    THEN pending = <<>> /\ at > pendingOffset + options.lineBytes
    ELSE pending = SubSeq(text, pendingOffset + 1, at) /\ Len(pending) <= options.lineBytes

\* The lines that are behind, and those of them that were too long.
Before(p) == {s \in Searched(text) : s < p}
Long(p, given_up) ==
  {s \in LineStarts(text) \ Searched(text) : s < p \/ (s = p /\ given_up)}
Warned(S) ==
  /\ tooLong \in Seq(Nat)
  /\ ToSet(tooLong) = {NumberOf(text, s) : s \in S}
  /\ Len(tooLong) = Cardinality(ToSet(tooLong))
Told(S) == Counted(S) /\ Listed(S)

Reported ==
  CASE phase = "done"   -> IsReportOf(text)
    [] phase = "finish" -> /\ Told(Searched(text))
                           /\ Warned(LineStarts(text) \ Searched(text))
                           /\ Cardinality(LineStarts(text))
                                = lineNumber - 1
                                    + (IF pending # <<>> \/ discarding THEN 1 ELSE 0)
    [] OTHER            -> Told(Before(pendingOffset)) /\ Warned(Long(pendingOffset, discarding))

LineInv == LineTypes /\ Position /\ (~crossed => Kept /\ Reported)

-----------------------------------------------------------------------------
(* The steps *)

\* process_line keeps at most the context it needs.
LEMMA ProcessTypes ==
  ASSUME LineTypes, NEW bytes \in Seq(Byte), ProcessLine(bytes), options' = options
  PROVE  /\ before' \in Seq(Context) /\ Len(before') <= options'.before
         /\ \A m \in waiting' : m.remaining \in 1..options'.after
<1> DEFINE line == Stripped(bytes)
           context == [number |-> lineNumber, text |-> line]
           Serve(m) == [found |-> [m.found EXCEPT !.after = Append(@, context)],
                        remaining |-> m.remaining - 1]
           served == {Serve(m) : m \in waiting}
           found == [number |-> lineNumber, offset |-> pendingOffset, text |-> line,
                     before |-> before, after |-> <<>>]
           matched == IF Spans(line) # {} THEN {found} ELSE {}
           kept == Append(before, context)
           k == options.before
           a == options.after
<1>1. k \in Nat /\ a \in Nat
  BY OptionTypes DEF LineTypes
<1>2. context \in Context
  BY StrippedType DEF LineTypes, Context
<1>3. CASE options.result # "Matches"
  BY <1>3 DEF ProcessLine, LineTypes
<1>4. CASE options.result = "Matches"
  <2>1. /\ waiting' = {s \in served : s.remaining > 0}
                        \cup (IF a = 0 THEN {} ELSE [found : matched, remaining : {a}])
        /\ before' = IF Len(kept) > k THEN SubSeq(kept, Len(kept) - k + 1, Len(kept)) ELSE kept
    BY <1>4 DEF ProcessLine
  <2>2. ASSUME NEW m \in waiting PROVE m.remaining \in 1..a /\ Serve(m).remaining = m.remaining - 1
    BY DEF LineTypes
  <2>3. \A m \in served : m.remaining > 0 => m.remaining \in 1..a
    BY <1>1, <2>2
  <2>4. \A m \in (IF a = 0 THEN {} ELSE [found : matched, remaining : {a}]) :
          m.remaining \in 1..a
    BY <1>1
  <2>5. \A m \in waiting' : m.remaining \in 1..a
    <3> HIDE DEF served, a, matched
    <3> QED
      BY <2>1, <2>3, <2>4
  <2>6. kept \in Seq(Context) /\ Len(kept) \in Nat
    BY <1>2 DEF LineTypes
  <2>7. before' \in Seq(Context) /\ Len(before') <= k
    <3> HIDE DEF kept, k
    <3>1. CASE Len(kept) <= k
      BY <1>1, <2>1, <2>6, <3>1
    <3>2. CASE Len(kept) > k
      <4> DEFINE lo == Len(kept) - k + 1
                 hi == Len(kept)
      <4>1. lo \in Int /\ hi \in Int /\ hi - lo + 1 = k /\ lo >= 1
        BY <1>1, <2>6, <3>2
      <4>2. before' = SubSeq(kept, lo, hi)
        BY <2>1, <3>2
      <4>3. \A i \in lo..hi : kept[i] \in Context
        BY <2>6, <4>1, ElementOfSeq
      <4> HIDE DEF lo, hi
      <4> QED
        BY <1>1, <4>1, <4>2, <4>3, SubSeqProperties
    <3> QED
      BY <1>1, <2>6, <3>1, <3>2
  <2> QED
    BY <2>5, <2>7
<1> QED
  BY <1>3, <1>4

\* The next newline of the chunk.
LEMMA Newlines ==
  ASSUME LineTypes, HasNewline
  PROVE  /\ NextNewline \in (at + 1)..given /\ NextNewline \in Breaks(text)
         /\ \A i \in (at + 1)..(NextNewline - 1) : text[i] # Newline
<1> DEFINE S == {i \in (at + 1)..given : text[i] = Newline}
<1>1. given \in Nat /\ at \in Nat /\ Len(text) \in Nat /\ given <= Len(text)
  BY DEF LineTypes
<1>2. S \in SUBSET Nat /\ S # {}
  BY <1>1 DEF HasNewline
<1>3. Min(S) \in S /\ \A y \in S : Min(S) <= y
  <2> HIDE DEF S
  <2> QED
    BY <1>2, LeastExists
<1>4. NextNewline = Min(S)
  BY DEF NextNewline
<1>5. NextNewline \in S /\ \A y \in S : NextNewline <= y
  BY <1>3, <1>4
<1> QED
  BY <1>1, <1>5 DEF Breaks

\* A step that searches no line tells nothing new.
LEMMA SameTold ==
  ASSUME text' = text, options' = options, UNCHANGED matchVars, NEW S, Told(S)
  PROVE  Told(S)'
<1>1. /\ MatchesIn(S)' = MatchesIn(S) /\ Recent(S)' = Recent(S)
      /\ \A s : /\ Found(S, s)' = Found(S, s) /\ Waits(S, s)' = Waits(S, s)
                /\ Followers(S, s)' = Followers(S, s)
  BY SameFound
<1>2. /\ matchingLines' = matchingLines /\ occurrences' = occurrences
      /\ warnedLossy' = warnedLossy /\ before' = before /\ retained' = retained
      /\ waiting' = waiting
  BY DEF matchVars
<1>3. Counted(S)'
  <2>1. \A s : SpansAt(text, s)' = SpansAt(text, s)
    BY DEF SpansAt, Spans
  <2> QED
    BY <1>1, <1>2, <2>1 DEF Told, Counted
<1>4. Listed(S)'
  BY <1>1, <1>2 DEF Told, Listed
<1> QED
  BY <1>3, <1>4 DEF Told

\* process_line tells what there is to tell of its line.
LEMMA ToldGrows ==
  ASSUME LineTypes, NEW p \in Searched(text), pendingOffset = p,
         lineNumber = NumberOf(text, p), NEW S, S = Before(p), Told(S),
         ProcessLine(LineAt(text, p)), text' = text, options' = options
  PROVE  Told(S \cup {p})'
<1>1. options \in Options /\ text \in Seq(Byte)
  BY DEF LineTypes
<1>2. p \in LineStarts(text) /\ p \in Nat
  BY <1>1, TextHas DEF Searched
<1>3. S = {s \in Searched(text) : s < p}
  BY DEF Before
<1>4. /\ S \in SUBSET Nat /\ IsFiniteSet(S)
      /\ ContextAt(text, Preceding(Searched(text), p, options.before)) = Recent(S)
  BY <1>1, <1>2, <1>3, PrecedingAreLast
<1>5. /\ S \in SUBSET LineStarts(text) /\ p \notin S /\ \A s \in S : s < p
  BY <1>2, <1>3 DEF Searched
<1>6. Counted(S) /\ Listed(S)
  BY DEF Told
<1>7. Counted(S \cup {p})'
  BY <1>1, <1>2, <1>5, <1>6, CountedGrows
<1>8. Listed(S \cup {p})'
  BY <1>1, <1>2, <1>4, <1>5, <1>6, ListedGrows
<1> QED
  BY <1>7, <1>8 DEF Told

\* When a line ends it is behind: searched, or too long.
LEMMA Behind ==
  ASSUME text \in Seq(Byte), NEW p \in {0} \cup Breaks(text), NEW n \in Breaks(text), p < n,
         \A i \in (p + 1)..(n - 1) : text[i] # Newline
  PROVE  /\ p \in LineStarts(text) /\ LineAt(text, p) = SubSeq(text, p + 1, n - 1)
         /\ p \in Searched(text) => /\ Before(n) = Before(p) \cup {p}
                                    /\ Long(n, FALSE) = Long(p, FALSE)
         /\ p \notin Searched(text) => /\ Before(n) = Before(p)
                                       /\ Long(n, FALSE) = Long(p, TRUE)
<1>1. /\ p \in LineStarts(text)
      /\ LineAt(text, p) = SubSeq(text, p + 1, n - 1)
      /\ \A s \in LineStarts(text) : s < n <=> (s < p \/ s = p)
  BY NextLine
<1>2. \A s \in Searched(text) : s \in LineStarts(text)
  BY DEF Searched
<1>3. \A s \in Searched(text) : s < n <=> (s < p \/ s = p)
  BY <1>1, <1>2
<1>4. \A s \in LineStarts(text) \ Searched(text) : s < n <=> (s < p \/ s = p)
  BY <1>1
<1>5. p \in Searched(text) => Before(n) = Before(p) \cup {p}
  BY <1>3 DEF Before
<1>6. p \notin Searched(text) => Before(n) = Before(p)
  BY <1>3 DEF Before
<1>7. p \in Searched(text) => Long(n, FALSE) = Long(p, FALSE)
  BY <1>4 DEF Long
<1>8. p \notin Searched(text) => Long(n, FALSE) = Long(p, TRUE)
  BY <1>4 DEF Long
<1> QED
  BY <1>1, <1>5, <1>6, <1>7, <1>8

\* warn_long_line reports a line that was not reported before.
LEMMA WarnedGrows ==
  ASSUME text \in Seq(Byte), NEW p \in {0} \cup Breaks(text),
         p \in LineStarts(text) \ Searched(text), lineNumber = NumberOf(text, p),
         Warned(Long(p, FALSE)), WarnLongLine, text' = text, options' = options
  PROVE  Warned(Long(p, TRUE))'
<1> DEFINE S == Long(p, FALSE)
           told == {NumberOf(text, s) : s \in S}
           R == Long(p, TRUE)
<1>1. /\ LineStarts(text) \in SUBSET Nat /\ IsFiniteSet(LineStarts(text)) /\ p \in Nat
      /\ lineNumber \in Nat
  BY TextHas, NumberType
<1>2. S \subseteq LineStarts(text) /\ R = S \cup {p}
  BY DEF Long
<1>3. \A s \in S : NumberOf(text, s) \in Nat /\ NumberOf(text, s) < lineNumber
  <2> TAKE s \in S
  <2>1. s \in Nat /\ s < p
    BY <1>1 DEF Long
  <2>2. p \in Breaks(text)
    BY <1>1, <2>1
  <2>3. NumberOf(text, s) < NumberOf(text, p)
    BY <2>1, <2>2, NumbersGrow
  <2>4. NumberOf(text, s) \in Nat
    BY <2>1, NumberType
  <2> QED
    BY <2>3, <2>4
<1> HIDE DEF S, R
<1>4. told \subseteq 1..lineNumber \cup {0} /\ lineNumber \notin told
  BY <1>1, <1>3
<1>5. IsFiniteSet(told)
  <2>1. IsFiniteSet(1..lineNumber)
    BY <1>1, FS_Interval
  <2>2. IsFiniteSet((1..lineNumber) \cup {0})
    BY <2>1, FS_AddElement
  <2> HIDE DEF told
  <2> QED
    BY <1>4, <2>2, FS_Subset
<1>6. /\ tooLong \in Seq(Nat) /\ ToSet(tooLong) = told /\ Len(tooLong) = Cardinality(told)
  BY DEF Warned, S
<1>7. tooLong' = Append(tooLong, lineNumber)
  BY DEF WarnLongLine
<1>8. tooLong' \in Seq(Nat) /\ Len(tooLong') = Len(tooLong) + 1 /\ Len(tooLong) \in Nat
  BY <1>1, <1>6, <1>7
<1>9. {tooLong'[i] : i \in 1..Len(tooLong')} = told \cup {lineNumber}
  <2>1. \A i \in 1..Len(tooLong) : tooLong'[i] = tooLong[i]
    BY <1>6, <1>7
  <2>2. tooLong'[Len(tooLong) + 1] = lineNumber
    BY <1>6, <1>7
  <2>3. 1..Len(tooLong') = 1..Len(tooLong) \cup {Len(tooLong) + 1}
    BY <1>8
  <2>4. {tooLong'[i] : i \in 1..Len(tooLong')}
          = {tooLong[i] : i \in 1..Len(tooLong)} \cup {lineNumber}
    BY <2>1, <2>2, <2>3
  <2>5. told = {tooLong[i] : i \in 1..Len(tooLong)}
    <3>1. DOMAIN tooLong = 1..Len(tooLong)
      BY <1>6
    <3> HIDE DEF told
    <3> QED
      BY <1>6, <3>1 DEF ToSet
  <2> HIDE DEF told
  <2> QED
    BY <2>4, <2>5
<1>10. Cardinality(told \cup {lineNumber}) = Cardinality(told) + 1
  <2> HIDE DEF told
  <2> QED
    BY <1>4, <1>5, FS_AddElement
<1>11. {NumberOf(text, s) : s \in R} = told \cup {lineNumber}
  BY <1>2
<1>12. Long(p, TRUE)' = R /\ {NumberOf(text, s) : s \in R}' = {NumberOf(text, s) : s \in R}
  BY DEF Long, Searched, R
<1>13. ToSet(tooLong)' = told \cup {lineNumber}
  <2> HIDE DEF told
  <2> QED
    BY <1>9 DEF ToSet
<1>14. Len(tooLong') = Cardinality(told \cup {lineNumber})
  <2> HIDE DEF told
  <2> QED
    BY <1>6, <1>8, <1>10
<1>15. {NumberOf(text, s)' : s \in Long(p, TRUE)'} = told \cup {lineNumber}
  <2> HIDE DEF told
  <2> QED
    BY <1>11, <1>12
<1> HIDE DEF told
<1> QED
  BY <1>8, <1>13, <1>14, <1>15 DEF Warned

\* A step that reports no long line.
LEMMA SameWarned ==
  ASSUME text' = text, options' = options, UNCHANGED tooLong,
         NEW S, Warned(S)
  PROVE  Warned(S)'
<1>1. \A s : NumberOf(text, s)' = NumberOf(text, s)
  OBVIOUS
<1>2. tooLong' = tooLong /\ ToSet(tooLong)' = ToSet(tooLong)
  BY DEF ToSet
<1> QED
  BY <1>1, <1>2 DEF Warned

\* The line that begins at pendingOffset ends with the newline at n.
LEMMA LineTaken ==
  ASSUME LineTypes, Position, Kept, Reported, phase \in {"push", "pending", "loop"},
         NEW n \in Breaks(text), pendingOffset < n,
         \A i \in (pendingOffset + 1)..(n - 1) : text[i] # Newline,
         pendingOffset' = n, discarding' = FALSE, phase' \in {"pending", "loop"},
         text' = text, options' = options,
         \/ discarding /\ UNCHANGED <<matchVars, tooLong>>
         \/ /\ ~discarding /\ pendingOffset \notin Searched(text)
            /\ WarnLongLine /\ UNCHANGED matchVars
         \/ /\ ~discarding /\ pendingOffset \in Searched(text)
            /\ ProcessLine(LineAt(text, pendingOffset)) /\ UNCHANGED tooLong
  PROVE  Reported'
<1> PICK p : p = pendingOffset
  OBVIOUS
<1>1. /\ text \in Seq(Byte) /\ p \in {0} \cup Breaks(text) /\ lineNumber = NumberOf(text, p)
      /\ discarding \in BOOLEAN
  BY DEF LineTypes, Position
<1>2. /\ p \in LineStarts(text)
      /\ p \in Searched(text) => Before(n) = Before(p) \cup {p} /\ Long(n, FALSE) = Long(p, FALSE)
      /\ p \notin Searched(text) => Before(n) = Before(p) /\ Long(n, FALSE) = Long(p, TRUE)
  BY <1>1, Behind
<1>3. Told(Before(p)) /\ Warned(Long(p, discarding))
  BY DEF Reported
<1>4. Before(n)' = Before(n) /\ Long(n, FALSE)' = Long(n, FALSE)
  BY DEF Before, Long, Searched
<1>5. ASSUME NEW S, NEW R, S = Before(n), R = Long(n, FALSE), Told(S)', Warned(R)'
      PROVE  Reported'
  <2>1. Told(Before(n))' /\ Warned(Long(n, FALSE))'
    BY <1>4, <1>5 DEF Told, Counted, Listed, Warned
  <2>2. Told(Before(pendingOffset))' /\ Warned(Long(pendingOffset, discarding))'
    BY <2>1
  <2>3. phase' # "done" /\ phase' # "finish"
    OBVIOUS
  <2> QED
    BY <2>2, <2>3 DEF Reported
<1> PICK S : S = Before(p)
  OBVIOUS
<1> PICK R : R = Long(n, FALSE)
  OBVIOUS
<1>6. CASE discarding /\ UNCHANGED <<matchVars, tooLong>>
  <2>1. p \notin Searched(text)
    <3>1. /\ p \in 0..Len(text) /\ at \in p..Len(text) /\ Len(text) \in Nat
          /\ at > p + options.lineBytes /\ options.lineBytes \in Nat
          /\ \A i \in (p + 1)..at : text[i] # Newline
      BY <1>1, <1>6, OptionTypes, TextHas DEF LineTypes, Position, Kept
    <3>2. Len(LineAt(text, p)) \in Nat /\ Len(LineAt(text, p)) >= at - p
      BY <1>1, <3>1, LineIsLong
    <3> QED
      BY <3>1, <3>2 DEF Searched
  <2>2. S = Before(n) /\ Told(S)'
    BY <1>2, <1>3, <1>6, <2>1, SameTold
  <2>3. Warned(R)
    BY <1>2, <1>3, <1>6, <2>1
  <2>4. Warned(R)'
    BY <1>6, <2>3, SameWarned
  <2> QED
    BY <1>5, <2>2, <2>4
<1>7. CASE /\ ~discarding /\ p \notin Searched(text)
           /\ WarnLongLine /\ UNCHANGED matchVars
  <2>1. S = Before(n) /\ Told(S)'
    BY <1>2, <1>3, <1>7, SameTold
  <2>2. Warned(Long(p, FALSE))
    BY <1>1, <1>3, <1>7
  <2>3. Warned(Long(p, TRUE))'
    BY <1>1, <1>2, <1>7, <2>2, WarnedGrows
  <2>4. Long(p, TRUE)' = R
    BY <1>2, <1>7 DEF Long, Searched
  <2>5. Warned(R)'
    BY <2>3, <2>4 DEF Warned
  <2> QED
    BY <1>5, <2>1, <2>5
<1>8. CASE /\ ~discarding /\ p \in Searched(text)
           /\ ProcessLine(LineAt(text, p)) /\ UNCHANGED tooLong
  <2>1. Told(S \cup {p})'
    BY <1>1, <1>3, <1>8, ToldGrows
  <2>2. S \cup {p} = Before(n) /\ R = Long(p, FALSE)
    BY <1>2, <1>8
  <2>3. Warned(R)'
    BY <1>1, <1>3, <1>8, <2>2, SameWarned
  <2> QED
    BY <1>5, <2>1, <2>2, <2>3
<1> QED
  BY <1>6, <1>7, <1>8

\* A part of a sequence.
LEMMA SubSeqHas ==
  ASSUME NEW V, NEW t \in Seq(V), NEW p \in 0..Len(t), NEW e \in p..Len(t)
  PROVE  /\ SubSeq(t, p + 1, e) \in Seq(V) /\ Len(SubSeq(t, p + 1, e)) = e - p
         /\ \A i \in 1..(e - p) : SubSeq(t, p + 1, e)[i] = t[p + i]
<1> DEFINE lo == p + 1
<1>1. Len(t) \in Nat /\ lo \in Int /\ e \in Int /\ lo >= 1 /\ e <= Len(t) /\ p \in Nat /\ e >= p
  OBVIOUS
<1>2. \A i \in lo..e : t[i] \in V
  BY <1>1, ElementOfSeq
<1>3. lo = p + 1
  OBVIOUS
<1> HIDE DEF lo
<1>4. /\ SubSeq(t, lo, e) \in Seq(V)
      /\ Len(SubSeq(t, lo, e)) = IF lo <= e THEN e - lo + 1 ELSE 0
      /\ \A i \in 1..(e - lo + 1) : SubSeq(t, lo, e)[i] = t[lo + i - 1]
  BY <1>1, <1>2, SubSeqProperties
<1>5. Len(SubSeq(t, lo, e)) = e - p /\ e - lo + 1 = e - p
  BY <1>1, <1>3, <1>4
<1>6. \A i \in 1..(e - p) : SubSeq(t, lo, e)[i] = t[lo + i - 1] /\ lo + i - 1 = p + i
  BY <1>1, <1>3, <1>4, <1>5
<1> QED
  BY <1>3, <1>4, <1>5, <1>6

\* Two parts of a sequence, one after the other.
LEMMA SubSeqsJoin ==
  ASSUME NEW V, NEW t \in Seq(V), NEW p \in 0..Len(t), NEW a \in p..Len(t), NEW e \in a..Len(t)
  PROVE  /\ SubSeq(t, p + 1, a) \o SubSeq(t, a + 1, e) = SubSeq(t, p + 1, e)
         /\ Len(SubSeq(t, p + 1, a)) = a - p /\ Len(SubSeq(t, a + 1, e)) = e - a
<1>1. a \in 0..Len(t) /\ e \in p..Len(t) /\ p + 1 \in 1..Len(t) + 1 /\ a \in (p + 1) - 1..Len(t)
      /\ Len(t) \in Nat
  OBVIOUS
<1>2. SubSeq(t, p + 1, a) \o SubSeq(t, a + 1, e) = SubSeq(t, p + 1, e)
  <2> DEFINE m == p + 1
  <2>1. m \in 1..Len(t) + 1 /\ a \in m - 1..Len(t) /\ e \in a..Len(t)
    BY <1>1
  <2> HIDE DEF m
  <2>2. SubSeq(t, m, a) \o SubSeq(t, a + 1, e) = SubSeq(t, m, e)
    BY <2>1, ConcatAdjacentSubSeq
  <2> QED
    BY <2>2 DEF m
<1>3. Len(SubSeq(t, p + 1, a)) = a - p
  BY <1>1, SubSeqHas
<1>4. Len(SubSeq(t, a + 1, e)) = e - a
  BY <1>1, SubSeqHas
<1> QED
  BY <1>2, <1>3, <1>4

\* No part of a sequence.
LEMMA NoSubSeq ==
  ASSUME NEW V, NEW t \in Seq(V), NEW p \in 0..Len(t)
  PROVE  SubSeq(t, p + 1, p) = <<>>
<1>1. SubSeq(t, p + 1, p) \in Seq(V) /\ Len(SubSeq(t, p + 1, p)) = p - p
  BY SubSeqHas
<1>2. Len(SubSeq(t, p + 1, p)) = 0
  BY <1>1
<1> QED
  BY <1>1, <1>2, EmptySeq

\* A step within a line.
LEMMA SameReported ==
  ASSUME text' = text, options' = options, UNCHANGED <<pendingOffset, discarding>>,
         UNCHANGED <<matchVars, tooLong>>,
         phase \notin {"finish", "done"}, phase' \notin {"finish", "done"}, Reported
  PROVE  Reported'
<1> PICK S : S = Before(pendingOffset)
  OBVIOUS
<1> PICK R : R = Long(pendingOffset, discarding)
  OBVIOUS
<1>1. Told(S) /\ Warned(R)
  BY DEF Reported
<1>2. Told(S)' /\ Warned(R)'
  BY <1>1, SameTold, SameWarned
<1>3. Before(pendingOffset)' = S /\ Long(pendingOffset, discarding)' = R
  BY DEF Before, Long, Searched
<1>4. Told(Before(pendingOffset))' /\ Warned(Long(pendingOffset, discarding))'
  BY <1>2, <1>3 DEF Told, Counted, Listed, Warned
<1> QED
  BY <1>4 DEF Reported

\* The steps that end no line keep the invariant.
LEMMA QuietSteps ==
  ASSUME LineInv,
         \/ DiscardChunk \/ NothingDiscarded \/ NothingPending
         \/ \E n \in Nat : Deliver(n)
  PROVE  LineInv'
<1>1. /\ options' = options /\ text' = text
      /\ UNCHANGED <<lineVars, matchVars, tooLong, totalLines, crossed>>
  BY DEF DiscardChunk, NothingDiscarded, NothingPending, Deliver
<1>2. phase \in {"idle", "push", "pending"} /\ phase' \in {"idle", "push", "pending", "loop"}
  BY DEF DiscardChunk, NothingDiscarded, NothingPending, Deliver
<1>3. given' \in 0..Len(text) /\ given' >= given /\ at' \in 0..given'
  BY DEF DiscardChunk, NothingDiscarded, NothingPending, Deliver, LineInv, LineTypes
<1>4. LineTypes'
  BY <1>1, <1>2, <1>3 DEF LineInv, LineTypes, Phases, matchVars
<1>5. Len(text) \in Nat /\ given \in Nat /\ at \in 0..given /\ options.lineBytes \in Nat
      /\ pendingOffset \in Nat
  BY TextHas, OptionTypes DEF LineInv, LineTypes, Position
<1>6. /\ pendingOffset' \in {0} \cup Breaks(text') /\ pendingOffset' <= at'
      /\ \A i \in (pendingOffset' + 1)..at' : text'[i] # Newline
      /\ lineNumber' = NumberOf(text', pendingOffset')
      /\ totalLines' = Open <=> phase' # "done"
  <2>1. CASE at' = at
    BY <1>1, <1>2, <2>1 DEF LineInv, Position
  <2>2. CASE DiscardChunk
    <3>1. at' = given /\ \A i \in (at + 1)..given : text[i] # Newline
      BY <2>2 DEF DiscardChunk, HasNewline
    <3>2. \A i \in (pendingOffset + 1)..given : text[i] # Newline
      BY <1>5, <3>1 DEF LineInv, Position
    <3> QED
      BY <1>1, <1>2, <1>5, <3>1, <3>2 DEF LineInv, Position
  <2> QED
    BY <2>1, <2>2 DEF NothingDiscarded, NothingPending, Deliver
<1>7. Position'
  BY <1>1, <1>2, <1>5, <1>6
  DEF LineInv, LineTypes, Position, DiscardChunk, NothingDiscarded, NothingPending, Deliver
<1>8. ASSUME ~crossed' PROVE Kept' /\ Reported'
  <2>1. Kept /\ Reported
    BY <1>1, <1>8 DEF LineInv
  <2>2. Kept'
    <3>1. CASE at' = at
      BY <1>1, <2>1, <3>1 DEF Kept
    <3>2. CASE DiscardChunk
      BY <1>1, <1>5, <2>1, <3>2 DEF Kept, DiscardChunk
    <3> QED
      BY <3>1, <3>2 DEF NothingDiscarded, NothingPending, Deliver
  <2> QED
    BY <1>1, <1>2, <2>1, <2>2, SameReported
<1> QED
  BY <1>4, <1>7, <1>8 DEF LineInv

\* What the newline that ends a line makes of the position.
LEMMA LineEnded ==
  ASSUME LineTypes, Position, HasNewline, EndLine(NextNewline),
         NEW n, n = NextNewline, text' = text, given' = given
  PROVE  /\ n \in Breaks(text) /\ n \in 1..given /\ pendingOffset < n /\ at < n
         /\ \A i \in (pendingOffset + 1)..(n - 1) : text[i] # Newline
         /\ at' = n /\ at' \in 0..given' /\ pendingOffset' = n
         /\ lineNumber' = NumberOf(text, n) /\ lineNumber' \in Nat \ {0}
<1>1. /\ n \in (at + 1)..given /\ n \in Breaks(text)
      /\ \A i \in (at + 1)..(n - 1) : text[i] # Newline
  BY Newlines
<1>2. /\ text \in Seq(Byte) /\ Len(text) \in Nat /\ given \in Nat /\ at \in 0..given
      /\ pendingOffset \in 0..at /\ lineNumber \in Nat \ {0}
      /\ \A i \in (pendingOffset + 1)..at : text[i] # Newline
      /\ lineNumber = NumberOf(text, pendingOffset)
  BY TextHas DEF LineTypes, Position
<1>3. pendingOffset < n /\ \A i \in (pendingOffset + 1)..(n - 1) : text[i] # Newline
  BY <1>1, <1>2
<1>4. at' = n /\ lineNumber' = lineNumber + 1 /\ pendingOffset' = n
  BY DEF EndLine
<1>5. NumberOf(text, n) = NumberOf(text, pendingOffset) + 1
  <2>1. pendingOffset \in Nat
    BY <1>2
  <2> QED
    BY <1>1, <1>2, <1>3, <2>1, NextNumber
<1> QED
  BY <1>1, <1>2, <1>3, <1>4, <1>5

\* The end of a line that was given up keeps the invariant.
LEMMA DiscardEndsKeeps ==
  ASSUME LineInv, DiscardEnds
  PROVE  LineInv'
<1> PICK n : n = NextNewline
  OBVIOUS
<1>1. LineTypes /\ Position
  BY DEF LineInv
<1>2. /\ phase = "push" /\ discarding /\ HasNewline /\ EndLine(NextNewline)
      /\ discarding' = FALSE /\ phase' = "pending"
      /\ UNCHANGED <<options, text, given, pending, totalLines, crossed>>
      /\ UNCHANGED <<matchVars, tooLong>>
  BY DEF DiscardEnds
<1>3. /\ n \in Breaks(text) /\ n \in 1..given /\ pendingOffset < n
      /\ \A i \in (pendingOffset + 1)..(n - 1) : text[i] # Newline
      /\ at' = n /\ at' \in 0..given' /\ pendingOffset' = n
      /\ lineNumber' = NumberOf(text, n) /\ lineNumber' \in Nat \ {0}
  BY <1>1, <1>2, LineEnded
<1>4. LineTypes'
  BY <1>1, <1>2, <1>3 DEF LineTypes, Phases, matchVars
<1>5. Position'
  <2>1. \A i \in (n + 1)..n : text[i] # Newline
    BY <1>3
  <2> QED
    BY <1>1, <1>2, <1>3, <2>1 DEF Position
<1>6. ASSUME ~crossed' PROVE Kept' /\ Reported'
  <2>1. Kept /\ Reported
    BY <1>2, <1>6 DEF LineInv
  <2>2. Reported'
    BY <1>1, <1>2, <1>3, <2>1, LineTaken
  <2>3. n \in 0..Len(text) /\ text \in Seq(Byte) /\ options.lineBytes \in Nat
    BY <1>1, <1>3, OptionTypes DEF LineTypes
  <2>4. SubSeq(text, n + 1, n) = <<>>
    BY <2>3, NoSubSeq
  <2>5. pending = <<>>
    BY <1>2, <2>1 DEF Kept
  <2>6. Kept'
    BY <1>2, <1>3, <2>3, <2>4, <2>5 DEF Kept
  <2> QED
    BY <2>2, <2>6
<1> QED
  BY <1>4, <1>5, <1>6 DEF LineInv

\* A line within a chunk keeps the invariant.
LEMMA TakeLineKeeps ==
  ASSUME LineInv, TakeLine
  PROVE  LineInv'
<1> PICK n : n = NextNewline
  OBVIOUS
<1> DEFINE line == SubSeq(text, at + 1, n - 1)
           p == pendingOffset
<1>1. LineTypes /\ Position
  BY DEF LineInv
<1>2. /\ phase = "loop" /\ HasNewline /\ EndLine(NextNewline)
      /\ UNCHANGED <<options, text, given, phase, pending, discarding, totalLines, crossed>>
      /\ \/ Len(line) > options.lineBytes /\ WarnLongLine /\ UNCHANGED matchVars
         \/ ~(Len(line) > options.lineBytes) /\ ProcessLine(line) /\ UNCHANGED tooLong
  BY DEF TakeLine
<1>3. /\ n \in Breaks(text) /\ n \in 1..given /\ p < n /\ at < n
      /\ \A i \in (p + 1)..(n - 1) : text[i] # Newline
      /\ at' = n /\ at' \in 0..given' /\ pendingOffset' = n
      /\ lineNumber' = NumberOf(text, n) /\ lineNumber' \in Nat \ {0}
  BY <1>1, <1>2, LineEnded
<1>4. ~discarding /\ at = p /\ p \in {0} \cup Breaks(text)
  BY <1>1, <1>2 DEF Position
<1>5. /\ text \in Seq(Byte) /\ options \in Options /\ options.lineBytes \in Nat
      /\ n \in Nat /\ Len(text) \in Nat /\ given <= Len(text) /\ p \in 0..Len(text)
      /\ n - 1 \in p..Len(text)
  BY <1>1, <1>3, <1>4, OptionTypes, TextHas DEF LineTypes
<1>6. line \in Seq(Byte) /\ Len(line) \in Nat
  <2> DEFINE e == n - 1
  <2> HIDE DEF e
  <2>1. e \in p..Len(text)
    BY <1>5 DEF e
  <2>2. SubSeq(text, p + 1, e) \in Seq(Byte)
    BY <1>5, <2>1, SubSeqHas
  <2> QED
    BY <1>4, <2>2 DEF e
<1>7. p \in LineStarts(text) /\ LineAt(text, p) = line
  BY <1>3, <1>4, <1>5, Behind
<1> HIDE DEF line
<1>8. LineTypes'
  <2>1. /\ before' \in Seq(Context) /\ Len(before') <= options'.before
        /\ \A m \in waiting' : m.remaining \in 1..options'.after
    <3>1. CASE UNCHANGED matchVars
      BY <1>1, <1>2, <3>1 DEF LineTypes, matchVars
    <3>2. CASE ProcessLine(line)
      BY <1>1, <1>2, <1>6, <3>2, ProcessTypes
    <3> QED
      BY <1>2, <3>1, <3>2
  <2> QED
    BY <1>1, <1>2, <1>3, <2>1 DEF LineTypes
<1>9. Position'
  <2>1. \A i \in (n + 1)..n : text[i] # Newline
    BY <1>5
  <2> QED
    BY <1>1, <1>2, <1>3, <1>4, <2>1 DEF Position
<1>10. ASSUME ~crossed' PROVE Kept' /\ Reported'
  <2>1. Kept /\ Reported
    BY <1>2, <1>10 DEF LineInv
  <2>2. p \in Searched(text) <=> ~(Len(line) > options.lineBytes)
    BY <1>5, <1>6, <1>7 DEF Searched
  <2>3. \/ /\ ~discarding /\ pendingOffset \notin Searched(text)
           /\ WarnLongLine /\ UNCHANGED matchVars
        \/ /\ ~discarding /\ pendingOffset \in Searched(text)
           /\ ProcessLine(LineAt(text, pendingOffset)) /\ UNCHANGED tooLong
    BY <1>2, <1>4, <1>7, <2>2
  <2>4. discarding' = FALSE
    BY <1>1, <1>2, <1>4 DEF LineTypes
  <2>5. Reported'
    BY <1>1, <1>2, <1>3, <2>1, <2>3, <2>4, LineTaken
  <2>6. SubSeq(text, p + 1, p) = <<>> /\ SubSeq(text, n + 1, n) = <<>>
    BY <1>3, <1>5, NoSubSeq
  <2>7. pending = <<>>
    BY <1>4, <2>1, <2>6 DEF Kept
  <2>8. Kept'
    BY <1>2, <1>3, <1>5, <2>4, <2>6, <2>7 DEF Kept
  <2> QED
    BY <2>5, <2>8
<1> QED
  BY <1>8, <1>9, <1>10 DEF LineInv

\* A line completed by a later chunk keeps the invariant.
LEMMA CompletePendingKeeps ==
  ASSUME LineInv, CompletePending
  PROVE  LineInv'
<1> PICK n : n = NextNewline
  OBVIOUS
<1> DEFINE prefix == SubSeq(text, at + 1, n - 1)
           p == pendingOffset
<1>1. LineTypes /\ Position
  BY DEF LineInv
<1>2. /\ phase = "pending" /\ HasNewline /\ EndLine(NextNewline) /\ phase' = "loop"
      /\ UNCHANGED <<options, text, given, discarding, totalLines>>
      /\ \/ /\ Len(pending) + Len(prefix) > options.lineBytes
            /\ WarnLongLine /\ crossed' = TRUE /\ UNCHANGED <<pending, matchVars>>
         \/ /\ ~(Len(pending) + Len(prefix) > options.lineBytes)
            /\ pending' = <<>> /\ ProcessLine(pending \o prefix)
            /\ UNCHANGED <<tooLong, crossed>>
  BY DEF CompletePending
<1>3. /\ n \in Breaks(text) /\ n \in 1..given /\ p < n /\ at < n
      /\ \A i \in (p + 1)..(n - 1) : text[i] # Newline
      /\ at' = n /\ at' \in 0..given' /\ pendingOffset' = n
      /\ lineNumber' = NumberOf(text, n) /\ lineNumber' \in Nat \ {0}
  BY <1>1, <1>2, LineEnded
<1>4. ~discarding /\ p <= at /\ p \in {0} \cup Breaks(text)
  BY <1>1, <1>2 DEF Position
<1>5. /\ text \in Seq(Byte) /\ options \in Options /\ options.lineBytes \in Nat
      /\ n \in Nat /\ Len(text) \in Nat /\ given <= Len(text) /\ p \in 0..Len(text)
      /\ at \in p..Len(text) /\ n - 1 \in at..Len(text) /\ at \in 0..Len(text)
      /\ pending \in Seq(Byte)
  BY <1>1, <1>3, <1>4, OptionTypes, TextHas DEF LineTypes
<1>6. /\ prefix \in Seq(Byte) /\ Len(prefix) \in Nat
      /\ SubSeq(text, p + 1, at) \o prefix = SubSeq(text, p + 1, n - 1)
      /\ Len(SubSeq(text, p + 1, n - 1)) = Len(SubSeq(text, p + 1, at)) + Len(prefix)
  <2> DEFINE e == n - 1
  <2> HIDE DEF e
  <2>1. e \in at..Len(text) /\ e \in p..Len(text)
    BY <1>5 DEF e
  <2>2. SubSeq(text, at + 1, e) \in Seq(Byte)
    BY <1>5, <2>1, SubSeqHas
  <2>3. /\ SubSeq(text, p + 1, at) \o SubSeq(text, at + 1, e) = SubSeq(text, p + 1, e)
        /\ Len(SubSeq(text, p + 1, at)) = at - p /\ Len(SubSeq(text, at + 1, e)) = e - at
    BY <1>5, <2>1, SubSeqsJoin
  <2>4. Len(SubSeq(text, p + 1, e)) = e - p
    BY <1>5, <2>1, SubSeqHas
  <2>5. e - p = (at - p) + (e - at) /\ e - at \in Nat
    BY <1>5, <2>1
  <2> QED
    BY <2>2, <2>3, <2>4, <2>5 DEF e
<1>7. p \in LineStarts(text) /\ LineAt(text, p) = SubSeq(text, p + 1, n - 1)
  BY <1>3, <1>4, <1>5, Behind
<1> HIDE DEF prefix
<1>8. pending \o prefix \in Seq(Byte)
  BY <1>5, <1>6, ConcatProperties
<1>9. LineTypes'
  <2>1. /\ before' \in Seq(Context) /\ Len(before') <= options'.before
        /\ \A m \in waiting' : m.remaining \in 1..options'.after
    <3>1. CASE UNCHANGED matchVars
      BY <1>1, <1>2, <3>1 DEF LineTypes, matchVars
    <3>2. CASE ProcessLine(pending \o prefix)
      BY <1>1, <1>2, <1>8, <3>2, ProcessTypes
    <3> QED
      BY <1>2, <3>1, <3>2
  <2>2. pending' \in Seq(Byte)
    BY <1>2, <1>5, EmptySeq
  <2> QED
    BY <1>1, <1>2, <1>3, <2>1, <2>2 DEF LineTypes, Phases
<1>10. Position'
  <2>1. \A i \in (n + 1)..n : text[i] # Newline
    BY <1>5
  <2> QED
    BY <1>1, <1>2, <1>3, <1>4, <2>1 DEF Position
<1>11. ASSUME ~crossed' PROVE Kept' /\ Reported'
  <2>1. /\ ~(Len(pending) + Len(prefix) > options.lineBytes)
        /\ pending' = <<>> /\ ProcessLine(pending \o prefix)
        /\ UNCHANGED <<tooLong, crossed>>
    BY <1>2, <1>11
  <2>2. Kept /\ Reported
    BY <1>11, <2>1 DEF LineInv
  <2>3. pending = SubSeq(text, p + 1, at)
    BY <1>4, <2>2 DEF Kept
  <2>4. pending \o prefix = LineAt(text, p)
    BY <1>6, <1>7, <2>3
  <2>5. p \in Searched(text)
    <3>1. Len(LineAt(text, p)) = Len(pending) + Len(prefix) /\ Len(pending) \in Nat
      BY <1>5, <1>6, <1>7, <2>3
    <3> QED
      BY <1>5, <1>6, <1>7, <2>1, <3>1 DEF Searched
  <2>6. discarding' = FALSE
    BY <1>1, <1>2, <1>4 DEF LineTypes
  <2>7. Reported'
    BY <1>1, <1>2, <1>3, <1>4, <2>1, <2>2, <2>4, <2>5, <2>6, LineTaken
  <2>8. SubSeq(text, n + 1, n) = <<>>
    BY <1>3, <1>5, NoSubSeq
  <2>9. Kept'
    BY <1>2, <1>3, <1>5, <2>1, <2>6, <2>8 DEF Kept
  <2> QED
    BY <2>7, <2>9
<1> QED
  BY <1>9, <1>10, <1>11 DEF LineInv

\* The chunk is a part of the text.
LEMMA ChunkHas ==
  ASSUME text \in Seq(Byte), at \in 0..Len(text), given \in at..Len(text)
  PROVE  Chunk \in Seq(Byte) /\ Len(Chunk) = given - at
<1>1. SubSeq(text, at + 1, given) \in Seq(Byte) /\ Len(SubSeq(text, at + 1, given)) = given - at
  BY SubSeqHas
<1> QED
  BY <1>1, Zenon DEF Chunk

\* The chunk ends within a line, which goes on or is given up.
LEMMA LineGoesOn ==
  ASSUME LineInv, ~HasNewline, phase \in {"pending", "loop"}, ~discarding,
         at' = given, phase' = "idle",
         UNCHANGED <<options, text, given, pendingOffset, lineNumber, totalLines, crossed>>,
         UNCHANGED matchVars,
         \/ /\ discarding' = TRUE /\ WarnLongLine /\ pending' \in {<<>>, pending}
            /\ ~crossed => pending' = <<>> /\ given > pendingOffset + options.lineBytes
         \/ /\ pending' = pending \o Chunk /\ UNCHANGED <<tooLong, discarding>>
            /\ ~crossed => Len(pending \o Chunk) <= options.lineBytes
  PROVE  LineInv'
<1> PICK p : p = pendingOffset
  OBVIOUS
<1>1. LineTypes /\ Position
  BY DEF LineInv
<1>2. /\ text \in Seq(Byte) /\ options \in Options /\ options.lineBytes \in Nat
      /\ Len(text) \in Nat /\ at \in 0..Len(text) /\ given \in at..Len(text)
      /\ p \in {0} \cup Breaks(text) /\ p \in 0..Len(text) /\ at \in p..Len(text)
      /\ pending \in Seq(Byte) /\ lineNumber = NumberOf(text, p)
  BY <1>1, OptionTypes, TextHas DEF LineTypes, Position
<1>3. /\ Chunk \in Seq(Byte) /\ Len(Chunk) = given - at
      /\ SubSeq(text, p + 1, at) \o Chunk = SubSeq(text, p + 1, given)
  <2>1. SubSeq(text, p + 1, at) \o SubSeq(text, at + 1, given) = SubSeq(text, p + 1, given)
    BY <1>2, SubSeqsJoin
  <2>2. Chunk = SubSeq(text, at + 1, given)
    BY DEF Chunk
  <2>3. Chunk \in Seq(Byte) /\ Len(Chunk) = given - at
    BY <1>2, ChunkHas
  <2> HIDE DEF Chunk
  <2> QED
    BY <2>1, <2>2, <2>3
<1>4. \A i \in (p + 1)..given : text[i] # Newline
  <2>1. \A i \in (at + 1)..given : text[i] # Newline
    BY DEF HasNewline
  <2>2. \A i \in (p + 1)..at : text[i] # Newline
    BY <1>1 DEF Position
  <2> QED
    BY <1>2, <2>1, <2>2
<1> HIDE DEF Chunk
<1>5. pending \o Chunk \in Seq(Byte) /\ Len(pending \o Chunk) = Len(pending) + Len(Chunk)
  BY <1>2, <1>3, ConcatProperties
<1>6. LineTypes'
  <2>1. pending' \in Seq(Byte) /\ discarding' \in BOOLEAN
    BY <1>1, <1>2, <1>5, EmptySeq DEF LineTypes
  <2>2. at' \in 0..given'
    BY <1>2
  <2> QED
    BY <1>1, <2>1, <2>2 DEF LineTypes, Phases, matchVars
<1>7. Position'
  <2>1. pending' = <<>> /\ ~discarding' => at' = p
    <3> SUFFICES ASSUME pending' = <<>>, ~discarding' PROVE at' = p
      OBVIOUS
    <3>1. pending \o Chunk = <<>>
      OBVIOUS
    <3>2. Len(pending) = 0 /\ Len(Chunk) = 0
      BY <1>2, <1>3, <1>5, <3>1
    <3>3. pending = <<>> /\ given = at
      BY <1>2, <1>3, <3>2, EmptySeq
    <3> QED
      BY <1>1, <3>3 DEF Position
  <2>2. pendingOffset' = p /\ p <= at'
    BY <1>2
  <2>3. totalLines = Open
    BY <1>1 DEF Position
  <2> QED
    BY <1>1, <1>2, <1>4, <2>1, <2>2, <2>3 DEF Position
<1>8. ASSUME ~crossed' PROVE Kept' /\ Reported'
  <2>1. Kept /\ Reported /\ ~crossed
    BY <1>8 DEF LineInv
  <2>2. pending = SubSeq(text, p + 1, at)
    BY <2>1 DEF Kept
  <2>3. CASE /\ discarding' = TRUE /\ WarnLongLine
             /\ pending' = <<>> /\ given > p + options.lineBytes
    <3>1. Kept'
      BY <2>3 DEF Kept
    <3>2. p \in LineStarts(text) \ Searched(text)
      <4>1. p < Len(text) /\ given \in p..Len(text)
        BY <1>2, <2>3
      <4>2. Len(LineAt(text, p)) \in Nat /\ Len(LineAt(text, p)) >= given - p
        BY <1>2, <1>4, <4>1, LineIsLong
      <4> QED
        BY <1>2, <2>3, <4>1, <4>2 DEF LineStarts, Searched
    <3> PICK S : S = Before(p)
      OBVIOUS
    <3> PICK R : R = Long(p, TRUE)
      OBVIOUS
    <3>3. Told(S) /\ Warned(Long(p, FALSE))
      BY <1>1, <2>1 DEF Reported, LineTypes
    <3>4. Told(S)'
      BY <3>3, SameTold
    <3>5. Warned(Long(p, TRUE))'
      BY <1>2, <2>3, <3>2, <3>3, WarnedGrows
    <3>6. Before(pendingOffset)' = S /\ Long(pendingOffset, discarding)' = Long(p, TRUE)'
      BY <2>3 DEF Before, Long, Searched
    <3>7. Told(Before(pendingOffset))' /\ Warned(Long(pendingOffset, discarding))'
      BY <3>4, <3>5, <3>6 DEF Told, Counted, Listed, Warned
    <3> QED
      BY <3>1, <3>7 DEF Reported
  <2>4. CASE /\ pending' = pending \o Chunk /\ UNCHANGED <<tooLong, discarding>>
             /\ Len(pending \o Chunk) <= options.lineBytes
    <3>1. pending' = SubSeq(text, p + 1, given)
      BY <1>3, <2>2, <2>4
    <3>2. Kept'
      BY <2>4, <3>1 DEF Kept
    <3>3. Reported'
      BY <2>1, <2>4, SameReported
    <3> QED
      BY <3>2, <3>3
  <2> QED
    BY <2>1, <2>3, <2>4
<1> QED
  BY <1>6, <1>7, <1>8 DEF LineInv

\* A line that goes on over a whole chunk keeps the invariant.
LEMMA ExtendPendingKeeps ==
  ASSUME LineInv, ExtendPending
  PROVE  LineInv'
<1>1. LineTypes /\ Position
  BY DEF LineInv
<1>2. /\ phase = "pending" /\ ~HasNewline /\ ~discarding /\ at' = given /\ phase' = "idle"
      /\ UNCHANGED <<options, text, given, pendingOffset, lineNumber, totalLines, crossed>>
      /\ UNCHANGED matchVars
      /\ \/ /\ Len(pending) + Len(Chunk) > options.lineBytes
            /\ pending' = <<>> /\ WarnLongLine /\ discarding' = TRUE
         \/ /\ ~(Len(pending) + Len(Chunk) > options.lineBytes)
            /\ pending' = pending \o Chunk /\ UNCHANGED <<tooLong, discarding>>
  BY <1>1 DEF ExtendPending, Position
<1>3. /\ text \in Seq(Byte) /\ pendingOffset \in 0..Len(text) /\ at \in pendingOffset..Len(text)
      /\ at \in 0..Len(text) /\ given \in at..Len(text) /\ pending \in Seq(Byte)
      /\ options.lineBytes \in Nat
  BY <1>1, OptionTypes, TextHas DEF LineTypes, Position
<1>4. Chunk \in Seq(Byte) /\ Len(Chunk) = given - at
  BY <1>3, ChunkHas
<1> HIDE DEF Chunk
<1>5. Len(pending \o Chunk) = Len(pending) + Len(Chunk) /\ Len(pending) \in Nat
  <2>1. pending \in Seq(Byte) /\ Chunk \in Seq(Byte)
    BY <1>3, <1>4
  <2> QED
    BY <2>1, ConcatProperties
<1>6. ~crossed => Len(pending) = at - pendingOffset
  <2> SUFFICES ASSUME ~crossed PROVE Len(pending) = at - pendingOffset
    OBVIOUS
  <2>1. pending = SubSeq(text, pendingOffset + 1, at)
    BY <1>2 DEF LineInv, Kept
  <2> QED
    BY <1>3, <2>1, SubSeqHas
<1>7. CASE /\ Len(pending) + Len(Chunk) > options.lineBytes
           /\ pending' = <<>> /\ WarnLongLine /\ discarding' = TRUE
  <2>1. ~crossed => given > pendingOffset + options.lineBytes
    BY <1>3, <1>4, <1>6, <1>7
  <2> QED
    BY <1>2, <1>7, <2>1, LineGoesOn
<1>8. CASE /\ ~(Len(pending) + Len(Chunk) > options.lineBytes)
           /\ pending' = pending \o Chunk /\ UNCHANGED <<tooLong, discarding>>
  <2>1. Len(pending \o Chunk) <= options.lineBytes
    BY <1>3, <1>4, <1>5, <1>8
  <2> QED
    BY <1>2, <1>8, <2>1, LineGoesOn
<1> QED
  BY <1>2, <1>7, <1>8

\* The beginning of a line at the end of a chunk keeps the invariant.
LEMMA KeepTrailingKeeps ==
  ASSUME LineInv, KeepTrailing
  PROVE  LineInv'
<1>1. LineTypes /\ Position
  BY DEF LineInv
<1>2. /\ phase = "loop" /\ ~HasNewline /\ ~discarding /\ at' = given /\ phase' = "idle"
      /\ at = pendingOffset
      /\ UNCHANGED <<options, text, given, pendingOffset, lineNumber, totalLines, crossed>>
      /\ UNCHANGED matchVars
      /\ \/ /\ Len(Chunk) > options.lineBytes
            /\ WarnLongLine /\ discarding' = TRUE /\ UNCHANGED pending
         \/ /\ ~(Len(Chunk) > options.lineBytes)
            /\ pending' = pending \o Chunk /\ UNCHANGED <<tooLong, discarding>>
  BY <1>1 DEF KeepTrailing, Position
<1>3. /\ text \in Seq(Byte) /\ pendingOffset \in 0..Len(text) /\ at \in pendingOffset..Len(text)
      /\ at \in 0..Len(text) /\ given \in at..Len(text) /\ pending \in Seq(Byte)
      /\ options.lineBytes \in Nat
  BY <1>1, OptionTypes, TextHas DEF LineTypes, Position
<1>4. Chunk \in Seq(Byte) /\ Len(Chunk) = given - at
  BY <1>3, ChunkHas
<1> HIDE DEF Chunk
<1>5. Len(pending \o Chunk) = Len(pending) + Len(Chunk) /\ Len(pending) \in Nat
  <2>1. pending \in Seq(Byte) /\ Chunk \in Seq(Byte)
    BY <1>3, <1>4
  <2> QED
    BY <2>1, ConcatProperties
<1>6. ~crossed => pending = <<>>
  <2> SUFFICES ASSUME ~crossed PROVE pending = <<>>
    OBVIOUS
  <2>1. pending = SubSeq(text, pendingOffset + 1, pendingOffset)
    BY <1>2 DEF LineInv, Kept
  <2> QED
    BY <1>3, <2>1, NoSubSeq
<1>7. CASE /\ Len(Chunk) > options.lineBytes
           /\ WarnLongLine /\ discarding' = TRUE /\ UNCHANGED pending
  <2>1. ~crossed => pending' = <<>> /\ given > pendingOffset + options.lineBytes
    BY <1>2, <1>3, <1>4, <1>6, <1>7
  <2> QED
    BY <1>2, <1>7, <2>1, LineGoesOn
<1>8. CASE /\ ~(Len(Chunk) > options.lineBytes)
           /\ pending' = pending \o Chunk /\ UNCHANGED <<tooLong, discarding>>
  <2>1. ~crossed => Len(pending \o Chunk) <= options.lineBytes
    BY <1>3, <1>4, <1>5, <1>6, <1>8
  <2> QED
    BY <1>2, <1>8, <2>1, LineGoesOn
<1> QED
  BY <1>2, <1>7, <1>8

\* What is left when everything is pushed is the last line, if it has no newline.
LEMMA AllSearched ==
  ASSUME LineTypes, Position, Kept, at = Len(text), NEW p, p = pendingOffset
  PROVE  /\ pending # <<>> /\ ~discarding => /\ p \in Searched(text)
                                             /\ LineAt(text, p) = pending
                                             /\ Searched(text) = Before(p) \cup {p}
         /\ ~(pending # <<>> /\ ~discarding) => Searched(text) = Before(p)
         /\ LineStarts(text) \ Searched(text) = Long(p, discarding)
         /\ Cardinality(LineStarts(text))
              = lineNumber - 1 + (IF pending # <<>> \/ discarding THEN 1 ELSE 0)
<1>1. /\ text \in Seq(Byte) /\ options \in Options /\ options.lineBytes \in Nat
      /\ Len(text) \in Nat /\ p \in {0} \cup Breaks(text) /\ p \in 0..Len(text)
      /\ lineNumber = NumberOf(text, p) /\ discarding \in BOOLEAN
      /\ \A i \in (p + 1)..Len(text) : text[i] # Newline
      /\ LineStarts(text) \in SUBSET Nat
  BY OptionTypes, TextHas DEF LineTypes, Position
<1>2. /\ \A s \in LineStarts(text) : s <= p
      /\ p \in LineStarts(text) <=> p < Len(text)
      /\ p < Len(text) => LineAt(text, p) = SubSeq(text, p + 1, Len(text))
      /\ Cardinality(LineStarts(text)) = NumberOf(text, p) - 1 + (IF p < Len(text) THEN 1 ELSE 0)
  BY <1>1, LastLine
<1>3. \A s \in LineStarts(text) : s < p \/ s = p
  BY <1>1, <1>2
<1>4. Searched(text) \subseteq LineStarts(text) /\ ~(p < p)
  BY <1>1 DEF Searched
<1>5. p \in Searched(text) => Searched(text) = Before(p) \cup {p}
  BY <1>3, <1>4 DEF Before
<1>6. p \notin Searched(text) => Searched(text) = Before(p)
  BY <1>3, <1>4 DEF Before
<1>7. p \in Searched(text) \/ p \notin LineStarts(text) =>
        LineStarts(text) \ Searched(text) = Long(p, FALSE)
  BY <1>3, <1>4 DEF Long
<1>8. LineStarts(text) \ Searched(text) = Long(p, TRUE)
  BY <1>3, <1>4 DEF Long
<1>9. CASE discarding
  <2>1. pending = <<>> /\ Len(text) > p + options.lineBytes
    BY <1>9 DEF Kept
  <2>2. p < Len(text) /\ Len(text) \in p..Len(text)
    BY <1>1, <2>1
  <2>3. Len(LineAt(text, p)) \in Nat /\ Len(LineAt(text, p)) >= Len(text) - p
    BY <1>1, <2>2, LineIsLong
  <2>4. p \notin Searched(text)
    BY <1>1, <2>1, <2>3 DEF Searched
  <2>5. discarding = TRUE
    BY <1>1, <1>9
  <2>6. LineStarts(text) \ Searched(text) = Long(p, discarding)
    BY <1>8, <2>5
  <2>7. (IF p < Len(text) THEN 1 ELSE 0) = 1
    BY <2>2
  <2> QED
    BY <1>1, <1>2, <1>6, <1>9, <2>1, <2>4, <2>6, <2>7
<1>10. CASE ~discarding
  <2>1. pending = SubSeq(text, p + 1, Len(text)) /\ Len(pending) <= options.lineBytes
    BY <1>10 DEF Kept
  <2>2. Len(pending) = Len(text) - p
    BY <1>1, <2>1, SubSeqHas
  <2>3. pending \in Seq(Byte) /\ (pending # <<>> <=> p < Len(text))
    BY <1>1, <2>2, EmptySeq DEF LineTypes
  <2>4. discarding = FALSE
    BY <1>1, <1>10
  <2>5. CASE pending # <<>>
    <3>1. LineAt(text, p) = pending /\ p \in LineStarts(text)
      BY <1>2, <2>1, <2>3, <2>5
    <3>2. p \in Searched(text)
      BY <2>1, <3>1 DEF Searched
    <3>3. LineStarts(text) \ Searched(text) = Long(p, discarding)
      BY <1>7, <2>4, <3>2
    <3> QED
      BY <1>1, <1>2, <1>5, <1>10, <2>3, <2>5, <3>1, <3>2, <3>3
  <2>6. CASE pending = <<>>
    <3>1. p \notin LineStarts(text) /\ p \notin Searched(text)
      BY <1>2, <1>4, <2>3, <2>6
    <3>2. LineStarts(text) \ Searched(text) = Long(p, discarding)
      BY <1>7, <2>4, <3>1
    <3> QED
      BY <1>1, <1>2, <1>6, <1>10, <2>3, <2>6, <3>1, <3>2
  <2> QED
    BY <2>5, <2>6
<1> QED
  BY <1>9, <1>10

\* The last line keeps the invariant.
LEMMA FinishLineKeeps ==
  ASSUME LineInv, FinishLine
  PROVE  LineInv'
<1> PICK p : p = pendingOffset
  OBVIOUS
<1>1. LineTypes /\ Position
  BY DEF LineInv
<1>2. /\ phase = "idle" /\ given = Len(text) /\ phase' = "finish"
      /\ UNCHANGED <<options, text, given, at, lineVars, tooLong, totalLines, crossed>>
      /\ \/ pending # <<>> /\ ~discarding /\ ProcessLine(pending)
         \/ ~(pending # <<>> /\ ~discarding) /\ UNCHANGED matchVars
  BY DEF FinishLine
<1>3. at = Len(text)
  BY <1>1, <1>2 DEF Position
<1>4. LineTypes'
  <2>1. pending \in Seq(Byte)
    BY <1>1 DEF LineTypes
  <2>2. /\ before' \in Seq(Context) /\ Len(before') <= options'.before
        /\ \A m \in waiting' : m.remaining \in 1..options'.after
    <3>1. CASE UNCHANGED matchVars
      BY <1>1, <1>2, <3>1 DEF LineTypes, matchVars
    <3>2. CASE ProcessLine(pending)
      BY <1>1, <1>2, <2>1, <3>2, ProcessTypes
    <3> QED
      BY <1>2, <3>1, <3>2
  <2> QED
    BY <1>1, <1>2, <2>2 DEF LineTypes, Phases
<1>5. Position'
  BY <1>1, <1>2, <1>3 DEF Position
<1>6. ASSUME ~crossed' PROVE Kept' /\ Reported'
  <2>1. Kept /\ Reported
    BY <1>2, <1>6 DEF LineInv
  <2>2. Kept'
    BY <1>2, <2>1 DEF Kept
  <2>3. /\ pending # <<>> /\ ~discarding => /\ p \in Searched(text)
                                            /\ LineAt(text, p) = pending
                                            /\ Searched(text) = Before(p) \cup {p}
        /\ ~(pending # <<>> /\ ~discarding) => Searched(text) = Before(p)
        /\ LineStarts(text) \ Searched(text) = Long(p, discarding)
        /\ Cardinality(LineStarts(text))
             = lineNumber - 1 + (IF pending # <<>> \/ discarding THEN 1 ELSE 0)
    BY <1>1, <1>3, <2>1, AllSearched
  <2> PICK S : S = Before(p)
    OBVIOUS
  <2> PICK R : R = LineStarts(text) \ Searched(text)
    OBVIOUS
  <2> PICK T : T = Searched(text)
    OBVIOUS
  <2>4. Told(S) /\ Warned(R)
    BY <1>2, <2>1, <2>3 DEF Reported
  <2>5. Told(T)'
    <3>1. CASE pending # <<>> /\ ~discarding /\ ProcessLine(pending)
      <4>1. Told(S \cup {p})'
        BY <1>1, <1>2, <2>3, <2>4, <3>1, ToldGrows DEF Position
      <4> QED
        BY <2>3, <3>1, <4>1
    <3>2. CASE ~(pending # <<>> /\ ~discarding) /\ UNCHANGED matchVars
      BY <1>2, <2>3, <2>4, <3>2, SameTold
    <3> QED
      BY <1>2, <3>1, <3>2
  <2>6. Warned(R)'
    BY <1>2, <2>4, SameWarned
  <2>7. Searched(text)' = T /\ (LineStarts(text) \ Searched(text))' = R
    BY <1>2 DEF Searched
  <2>8. Told(Searched(text))' /\ Warned(LineStarts(text) \ Searched(text))'
    BY <2>5, <2>6, <2>7 DEF Told, Counted, Listed, Warned
  <2>9. (Cardinality(LineStarts(text))
          = lineNumber - 1 + (IF pending # <<>> \/ discarding THEN 1 ELSE 0))'
    BY <1>2, <2>3
  <2> QED
    BY <1>2, <2>2, <2>8, <2>9 DEF Reported
<1> QED
  BY <1>4, <1>5, <1>6 DEF LineInv

\* A match gets no more lines after it than it asks for.
LEMMA FollowersFew ==
  ASSUME options \in Options, NEW S \in SUBSET Nat, IsFiniteSet(S), NEW n \in Nat,
         \A r \in S : r <= n, NEW s \in S
  PROVE  Followers(S, s) \in 0..options.after
<1>1. n + 1 \in Nat /\ \A r \in S : r < n + 1
  OBVIOUS
<1> QED
  BY <1>1, FoundGrows

\* When everything is told, the report is that of the text.
LEMMA ReportIsComplete ==
  ASSUME LineTypes, Told(Searched(text)), Warned(LineStarts(text) \ Searched(text)),
         retained' = retained \cup {m.found : m \in waiting},
         UNCHANGED <<options, text, matchingLines, occurrences, warnedLossy, tooLong>>,
         totalLines' = Cardinality(LineStarts(text))
  PROVE  IsReportOf(text)'
<1> DEFINE T == Searched(text)
           a == options.after
<1>1. options \in Options /\ text \in Seq(Byte) /\ a \in Nat
  BY OptionTypes DEF LineTypes
<1>2. T \in SUBSET Nat /\ IsFiniteSet(T) /\ Len(text) \in Nat /\ \A r \in T : r <= Len(text)
  <2>1. /\ Len(text) \in Nat /\ LineStarts(text) \in SUBSET Nat
        /\ IsFiniteSet(LineStarts(text)) /\ T \subseteq LineStarts(text)
    BY <1>1, TextHas DEF Searched
  <2>2. IsFiniteSet(T)
    BY <2>1, FS_Subset
  <2>3. \A r \in T : r <= Len(text)
    BY <2>1 DEF LineStarts
  <2> QED
    BY <2>1, <2>2, <2>3
<1>3. \A s \in T : Followers(T, s) \in 0..a
  <2> HIDE DEF T
  <2> QED
    BY <1>1, <1>2, FollowersFew
<1>4. MatchesIn(T) = Matching(text) /\ \A s \in T : Found(T, s) = MatchAt(text, s)
  BY DEF MatchesIn, Matching, Found, MatchAt
<1>5. \A s \in MatchesIn(T) : s \in T
  BY DEF MatchesIn
<1>6. retained' = IF options.result = "Matches" THEN {MatchAt(text, s) : s \in Matching(text)}
                                               ELSE {}
  <2>1. CASE options.result = "Matches"
    <3>1. /\ retained = {Found(T, s) : s \in {r \in MatchesIn(T) : Followers(T, r) = a}}
          /\ waiting = {Waits(T, s) : s \in {r \in MatchesIn(T) : Followers(T, r) < a}}
      BY <2>1 DEF Told, Listed
    <3>2. \A s : Waits(T, s).found = Found(T, s)
      BY DEF Waits
    <3>3. {m.found : m \in waiting}
            = {Found(T, s) : s \in {r \in MatchesIn(T) : Followers(T, r) < a}}
      <4> HIDE DEF T, a
      <4> QED
        BY <3>1, <3>2
    <3>4. \A s \in MatchesIn(T) : Followers(T, s) = a \/ Followers(T, s) < a
      BY <1>1, <1>3, <1>5
    <3>5. retained' = {Found(T, s) : s \in MatchesIn(T)}
      <4> HIDE DEF T, a
      <4> QED
        BY <3>1, <3>3, <3>4
    <3>6. retained' = {MatchAt(text, s) : s \in Matching(text)}
      <4> HIDE DEF T
      <4> QED
        BY <1>4, <1>5, <3>5
    <3> QED
      BY <2>1, <3>6
  <2>2. CASE options.result # "Matches"
    <3>1. retained = {} /\ waiting = {}
      BY <2>2 DEF Told, Listed
    <3> QED
      BY <2>2, <3>1
  <2> QED
    BY <2>1, <2>2
<1>7. /\ matchingLines = Cardinality(Matching(text))
      /\ occurrences = Cardinality(UNION {SpansAt(text, s) : s \in Searched(text)})
      /\ warnedLossy = \E s \in Searched(text) : Lossy(Stripped(LineAt(text, s)))
  BY <1>4 DEF Told, Counted
<1>8. /\ ToSet(tooLong) = {NumberOf(text, s) : s \in LineStarts(text) \ Searched(text)}
      /\ Len(tooLong) = Cardinality(ToSet(tooLong))
  BY DEF Warned
<1>9. /\ Searched(text)' = Searched(text) /\ Matching(text)' = Matching(text)
      /\ \A s : /\ MatchAt(text, s)' = MatchAt(text, s) /\ SpansAt(text, s)' = SpansAt(text, s)
  BY DEF Searched, Matching, Spans, MatchAt, SpansAt
<1>10. (retained = IF options.result = "Matches" THEN {MatchAt(text, s) : s \in Matching(text)}
                                                ELSE {})'
  <2> DEFINE all == {MatchAt(text, s) : s \in Matching(text)}
  <2>1. all' = all /\ options' = options
    BY <1>9
  <2>2. retained' = IF options.result = "Matches" THEN all ELSE {}
    BY <1>6
  <2>3. (retained = IF options.result = "Matches" THEN all ELSE {})'
    <3> HIDE DEF all
    <3> QED
      BY <2>1, <2>2
  <2> QED
    BY <2>3
<1>11. (/\ matchingLines = Cardinality(Matching(text))
        /\ occurrences = Cardinality(UNION {SpansAt(text, s) : s \in Searched(text)})
        /\ warnedLossy = \E s \in Searched(text) : Lossy(Stripped(LineAt(text, s))))'
  BY <1>7, <1>9
<1>12. (/\ ToSet(tooLong) = {NumberOf(text, s) : s \in LineStarts(text) \ Searched(text)}
        /\ Len(tooLong) = Cardinality(ToSet(tooLong)))'
  BY <1>8, <1>9 DEF ToSet
<1> QED
  BY <1>10, <1>11, <1>12 DEF IsReportOf

\* The end of the search keeps the invariant.
LEMMA FinishSearchKeeps ==
  ASSUME LineInv, FinishSearch
  PROVE  LineInv'
<1>1. LineTypes /\ Position
  BY DEF LineInv
<1>2. /\ phase = "finish" /\ phase' = "done" /\ waiting' = {}
      /\ retained' = retained \cup {m.found : m \in waiting}
      /\ totalLines' = lineNumber - 1 + (IF pending # <<>> \/ discarding THEN 1 ELSE 0)
      /\ UNCHANGED <<options, text, given, at, lineVars, before, matchingLines, occurrences,
                     warnedLossy, tooLong, crossed>>
  BY DEF FinishSearch
<1>3. totalLines' \in Nat /\ Open \notin Nat
  BY <1>1, <1>2, LineAssumption DEF LineTypes
<1>4. LineTypes'
  BY <1>1, <1>2, <1>3 DEF LineTypes, Phases
<1>5. Position'
  BY <1>1, <1>2, <1>3 DEF Position
<1>6. ASSUME ~crossed' PROVE Kept' /\ Reported'
  <2>1. Kept /\ Reported
    BY <1>2, <1>6 DEF LineInv
  <2>2. Kept'
    BY <1>2, <2>1 DEF Kept
  <2>3. /\ Told(Searched(text)) /\ Warned(LineStarts(text) \ Searched(text))
        /\ Cardinality(LineStarts(text))
             = lineNumber - 1 + (IF pending # <<>> \/ discarding THEN 1 ELSE 0)
    BY <1>2, <2>1 DEF Reported
  <2>4. IsReportOf(text)'
    BY <1>1, <1>2, <2>3, ReportIsComplete
  <2> QED
    BY <1>2, <2>2, <2>4 DEF Reported
<1> QED
  BY <1>4, <1>5, <1>6 DEF LineInv

-----------------------------------------------------------------------------
(* The result *)

\* A LineSearcher that was given nothing yet, or one chunk.
Begun ==
  /\ given \in 0..Len(text) /\ phase = IF given = 0 THEN "idle" ELSE "push"
  /\ at = 0 /\ pending = <<>> /\ pendingOffset = 0 /\ lineNumber = 1 /\ discarding = FALSE
  /\ before = <<>> /\ waiting = {} /\ retained = {}
  /\ matchingLines = 0 /\ occurrences = 0
  /\ tooLong = <<>> /\ warnedLossy = FALSE
  /\ totalLines = Open
  /\ crossed = FALSE

\* It has the invariant, whatever the text.
LEMMA LineInvAtStart ==
  ASSUME Begun, options \in Options, text \in Seq(Byte)
  PROVE  LineInv
<1>1. /\ given \in 0..Len(text) /\ at = 0 /\ phase = IF given = 0 THEN "idle" ELSE "push"
      /\ pending = <<>> /\ pendingOffset = 0 /\ lineNumber = 1 /\ discarding = FALSE
      /\ before = <<>> /\ waiting = {} /\ retained = {}
      /\ matchingLines = 0 /\ occurrences = 0
      /\ tooLong = <<>> /\ warnedLossy = FALSE /\ totalLines = Open
  BY DEF Begun
<1>2. Len(text) \in Nat /\ Breaks(text) \in SUBSET (1..Len(text)) /\ LineStarts(text) \in SUBSET Nat
      /\ options.before \in Nat /\ options.lineBytes \in Nat
  BY TextHas, OptionTypes
<1>3. LineTypes
  <2>1. pending \in Seq(Byte) /\ before \in Seq(Context) /\ Len(before) = 0
    BY <1>1, EmptySeq
  <2>2. \A m \in waiting : m.remaining \in 1..options.after
    BY <1>1
  <2>3. given \in 0..Len(text) /\ at \in 0..given /\ Len(before) <= options.before
    BY <1>1, <1>2, <2>1
  <2>4. lineNumber \in Nat \ {0} /\ discarding \in BOOLEAN /\ totalLines \in Nat \cup {Open}
    <3>1. lineNumber \in Nat \ {0}
      BY DEF Begun
    <3>2. discarding \in BOOLEAN /\ totalLines \in Nat \cup {Open}
      BY Zenon DEF Begun
    <3> QED
      BY <3>1, <3>2
  <2>5. phase \in Phases
    BY <1>1 DEF Phases
  <2> QED
    BY <2>1, <2>2, <2>3, <2>4, <2>5 DEF LineTypes
<1>4. NumberOf(text, 0) = 1
  <2>1. {b \in Breaks(text) : b <= 0} = {}
    BY <1>2
  <2>2. Cardinality({b \in Breaks(text) : b <= 0}) = 0
    BY <2>1, FS_EmptySet
  <2> QED
    BY <2>2 DEF NumberOf
<1>5. Position
  BY <1>1, <1>2, <1>4 DEF Position
<1>6. Kept
  <2>1. SubSeq(text, 0 + 1, 0) = <<>>
    BY <1>2, NoSubSeq
  <2>2. Len(<<>>) = 0
    OBVIOUS
  <2> QED
    BY <1>1, <1>2, <2>1, <2>2 DEF Kept
<1>7. Before(pendingOffset) = {} /\ Long(pendingOffset, discarding) = {}
  BY <1>1, <1>2 DEF Before, Long, Searched
<1>8. Told({})
  <2>1. Cardinality({}) = 0 /\ UNION {SpansAt(text, s) : s \in {}} = {} /\ MatchesIn({}) = {}
    BY FS_EmptySet DEF MatchesIn
  <2>2. Counted({})
    BY <1>1, <2>1 DEF Counted
  <2>3. Recent({}) = <<>>
    <3>1. ContextAt(text, {}) = <<>>
      BY NoContext
    <3>2. (IF 0 < options.before THEN 0 ELSE options.before) = 0
      BY <1>2
    <3>3. Recent({}) = SubSeq(<<>>, 0 - 0 + 1, 0)
      BY <2>1, <3>1, <3>2, Zenon DEF Recent
    <3>4. SubSeq(<<>>, 0 - 0 + 1, 0) = <<>>
      BY SubSeqEmpty
    <3> QED
      BY <3>3, <3>4
  <2>4. Listed({})
    BY <1>1, <2>1, <2>3 DEF Listed
  <2> QED
    BY <2>2, <2>4 DEF Told
<1>9. Warned({})
  <2>1. tooLong \in Seq(Nat) /\ Len(tooLong) = 0 /\ ToSet(tooLong) = {}
    BY <1>1, EmptySeq DEF ToSet
  <2>2. Cardinality({}) = 0
    BY FS_EmptySet
  <2> QED
    BY <2>1, <2>2 DEF Warned
<1>10. Reported
  BY <1>1, <1>7, <1>8, <1>9 DEF Reported
<1> QED
  BY <1>3, <1>5, <1>6, <1>10 DEF LineInv

\* Every step of a LineSearcher keeps the invariant.
LEMMA LineInvKept ==
  ASSUME LineInv, LineStep \/ FinishLine \/ \E n \in Nat : Deliver(n)
  PROVE  LineInv'
BY QuietSteps, DiscardEndsKeeps, CompletePendingKeeps, ExtendPendingKeeps, TakeLineKeeps,
   KeepTrailingKeeps, FinishLineKeeps, FinishSearchKeeps DEF LineStep

\* A report depends on its parts, the text and the settings alone.
LEMMA SameReport ==
  ASSUME text' = text, options' = options, UNCHANGED <<matchVars, tooLong, totalLines>>,
         IsReportOf(text)
  PROVE  IsReportOf(text)'
<1> DEFINE all == {MatchAt(text, s) : s \in Matching(text)}
           places == UNION {SpansAt(text, s) : s \in Searched(text)}
           long == {NumberOf(text, s) : s \in LineStarts(text) \ Searched(text)}
<1>1. /\ Searched(text)' = Searched(text) /\ Matching(text)' = Matching(text)
      /\ \A s : /\ MatchAt(text, s)' = MatchAt(text, s) /\ SpansAt(text, s)' = SpansAt(text, s)
  BY DEF Searched, Matching, Spans, MatchAt, SpansAt
<1>2. all' = all /\ places' = places /\ long' = long /\ ToSet(tooLong)' = ToSet(tooLong)
  BY <1>1 DEF ToSet
<1>3. /\ retained' = retained /\ matchingLines' = matchingLines /\ occurrences' = occurrences
      /\ tooLong' = tooLong /\ warnedLossy' = warnedLossy /\ totalLines' = totalLines
  BY DEF matchVars
<1>4. /\ retained = IF options.result = "Matches" THEN all ELSE {}
      /\ matchingLines = Cardinality(Matching(text)) /\ occurrences = Cardinality(places)
      /\ ToSet(tooLong) = long /\ Len(tooLong) = Cardinality(ToSet(tooLong))
      /\ warnedLossy = (\E s \in Searched(text) : Lossy(Stripped(LineAt(text, s))))
      /\ totalLines = Cardinality(LineStarts(text))
  BY DEF IsReportOf
<1> HIDE DEF all, places, long
<1>5. (/\ retained = IF options.result = "Matches" THEN all ELSE {}
       /\ matchingLines = Cardinality(Matching(text)) /\ occurrences = Cardinality(places)
       /\ ToSet(tooLong) = long /\ Len(tooLong) = Cardinality(ToSet(tooLong))
       /\ totalLines = Cardinality(LineStarts(text)))'
  BY <1>1, <1>2, <1>3, <1>4
<1>6. (warnedLossy = (\E s \in Searched(text) : Lossy(Stripped(LineAt(text, s)))))'
  BY <1>1, <1>3, <1>4
<1> QED
  BY <1>5, <1>6 DEF IsReportOf, all, places, long

\* So does a step of something else.
LEMMA LineInvOfVars ==
  ASSUME LineInv, UNCHANGED vars
  PROVE  LineInv'
<1>1. /\ options' = options /\ text' = text /\ given' = given /\ at' = at /\ phase' = phase
      /\ UNCHANGED lineVars /\ UNCHANGED matchVars /\ tooLong' = tooLong
      /\ totalLines' = totalLines /\ crossed' = crossed
  BY DEF vars, searcherVars
<1>2. LineTypes' /\ Position'
  BY <1>1 DEF LineInv, LineTypes, Position, lineVars, matchVars
<1>3. ASSUME ~crossed' PROVE Kept' /\ Reported'
  <2>1. Kept /\ Reported
    BY <1>1, <1>3 DEF LineInv
  <2>2. Kept'
    BY <1>1, <2>1 DEF Kept, lineVars
  <2>3. CASE phase = "done"
    BY <1>1, <2>1, <2>2, <2>3, SameReport DEF Reported
  <2>4. CASE phase = "finish"
    <3> PICK S : S = Searched(text)
      OBVIOUS
    <3> PICK R : R = LineStarts(text) \ Searched(text)
      OBVIOUS
    <3>1. Told(S) /\ Warned(R)
      BY <2>1, <2>4 DEF Reported
    <3>2. Told(S)' /\ Warned(R)'
      BY <1>1, <3>1, SameTold, SameWarned
    <3>3. Searched(text)' = S /\ (LineStarts(text) \ Searched(text))' = R
      BY <1>1 DEF Searched
    <3>4. Told(Searched(text))' /\ Warned(LineStarts(text) \ Searched(text))'
      BY <3>2, <3>3 DEF Told, Counted, Listed, Warned
    <3> QED
      BY <1>1, <2>1, <2>2, <2>4, <3>4 DEF Reported, lineVars
  <2>5. CASE phase \notin {"finish", "done"}
    BY <1>1, <2>1, <2>2, <2>5, SameReported DEF lineVars
  <2> QED
    BY <2>3, <2>4, <2>5
<1> QED
  BY <1>2, <1>3 DEF LineInv

\* The specification of a LineSearcher alone: its report is that of the text,
\* however the text is cut (LineSearcher::push and finish).
THEOREM LinesReportIsThatOfText ==
  Spec => [](phase = "done" /\ ~crossed => IsReportOf(text))
<1>1. Init => LineInv
  <2> SUFFICES ASSUME Init PROVE LineInv
    OBVIOUS
  <2>1. text \in Seq(Byte) /\ options \in Options /\ LineInit
    BY LineAssumption DEF Init
  <2>2. Begun
    BY <2>1 DEF LineInit, Begun
  <2> QED
    BY <2>1, <2>2, LineInvAtStart
<1>2. LineInv /\ [Next]_vars => LineInv'
  <2> SUFFICES ASSUME LineInv, [Next]_vars PROVE LineInv'
    OBVIOUS
  <2>1. CASE UNCHANGED vars
    BY <2>1, LineInvOfVars
  <2>2. CASE LineStep \/ FinishLine
    BY <2>2, LineInvKept
  <2>3. CASE \E n \in 1..Len(text) : Deliver(n)
    <3>1. \E n \in Nat : Deliver(n)
      BY <2>3
    <3> QED
      BY <3>1, LineInvKept
  <2> QED
    BY <2>1, <2>2, <2>3 DEF Next, Done
<1>3. LineInv => (phase = "done" /\ ~crossed => IsReportOf(text))
  BY DEF LineInv, Reported
<1> QED
  BY <1>1, <1>2, <1>3, PTL DEF Spec

=============================================================================
