------------------------------ MODULE Prefilter ------------------------------
(***************************************************************************)
(* The conservative prefilter of an index search: query/mod.rs finds the   *)
(* trigrams every match must contain, index/entry.rs and metadata.rs keep  *)
(* a Bloom filter of the trigrams of each file, and a search asks only the *)
(* files whose filter has them.                                            *)
(*                                                                         *)
(* A regular expression is the tree regex-syntax makes of it: Hir maps a   *)
(* node to its kind, and a node's children have smaller numbers.           *)
(***************************************************************************)
EXTENDS Naturals, Sequences, FiniteSets, FiniteSetsExt, SequencesExt

CONSTANTS
  Byte,             \* bytes of a source
  Positions(_),     \* bloom_positions: the bits of a trigram
  Hir,              \* the nodes of regular expressions
  MaxLanguage,      \* bound: bytes of a match of a regular expression
  Nothing           \* None

-----------------------------------------------------------------------------
(* What a query demands *)

\* Of those that are something, the last of the longest.
Longest(literals) ==
  LET present == {i \in 1..Len(literals) : literals[i] # Nothing}
      longest == {i \in present : \A k \in present : Len(literals[k]) <= Len(literals[i])}
  IN IF present = {} THEN Nothing ELSE literals[Max(longest)]

\* longest_mandatory_literal
MandatoryLiteral[n \in DOMAIN Hir] ==
  LET children == [i \in 1..Len(Hir[n].children) |-> MandatoryLiteral[Hir[n].children[i]]]
  IN CASE Hir[n].kind = "literal"                          -> Hir[n].bytes
       [] Hir[n].kind = "capture"                          -> children[1]
       [] Hir[n].kind = "repetition" /\ Hir[n].min > 0     -> children[1]
       [] Hir[n].kind = "concat"                           -> Longest(children)
       [] OTHER                                            -> Nothing

Trigrams(bytes) == {SubSeq(bytes, i, i + 2) : i \in 1..(Len(bytes) - 2)}

\* What every match of a query contains, or Nothing.  (A case-insensitive query
\* is matched with other letters.)
Demand(q) ==
  CASE q.insensitive                            -> Nothing
    [] ~q.insensitive /\ q.kind = "literal"     -> q.bytes
    [] ~q.insensitive /\ q.kind = "regex"       -> MandatoryLiteral[q.node]

\* prefilter_trigrams: the trigrams of each alternative, or Nothing when one of
\* the queries demands none.
PrefilterTrigrams(queries) ==
  IF queries = {} \/ \E q \in queries : Demand(q) = Nothing \/ Len(Demand(q)) < 3
    THEN Nothing
    ELSE {Trigrams(Demand(q)) : q \in queries}

-----------------------------------------------------------------------------
(* What a file offers *)

TrigramBloom(bytes) == UNION {Positions(t) : t \in Trigrams(bytes)}
BloomContains(bloom, trigram) == Positions(trigram) \subseteq bloom

MayMatch(entry, alternatives) ==
  \/ ~entry.prefilterable
  \/ \E trigrams \in alternatives : \A t \in trigrams : BloomContains(entry.bloom, t)

-----------------------------------------------------------------------------
(* External: what a regular expression matches, up to MaxLanguage bytes *)

Letters == UNION {ToSet(Hir[n].bytes) : n \in DOMAIN Hir}
Words == BoundedSeq(Letters, MaxLanguage)

\* A word of each language, one after the other; the cut says where they end.
Joined(languages) ==
  LET k == Len(languages)
      piece(w, cut, i) == SubSeq(w, cut[i - 1] + 1, cut[i])
  IN {w \in Words : \E cut \in [0..k -> 0..Len(w)] :
        /\ cut[0] = 0 /\ cut[k] = Len(w)
        /\ \A i \in 1..k : cut[i - 1] <= cut[i] /\ piece(w, cut, i) \in languages[i]}

Language[n \in DOMAIN Hir] ==
  LET node == Hir[n]
      sub == [i \in 1..Len(node.children) |-> Language[node.children[i]]]
  IN CASE node.kind = "literal"          -> {node.bytes} \cap Words
       [] node.kind = "class"            -> {<<b>> : b \in ToSet(node.bytes)} \cap Words
       [] node.kind \in {"empty", "look"} -> {<<>>}
       [] node.kind = "capture"          -> sub[1]
       [] node.kind = "repetition"       -> UNION {Joined([i \in 1..k |-> sub[1]])
                                                     : k \in node.min..node.max}
       [] node.kind = "concat"           -> Joined(sub)
       [] node.kind = "alternation"      -> UNION ToSet(sub)

=============================================================================
