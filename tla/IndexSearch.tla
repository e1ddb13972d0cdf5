------------------------------ MODULE IndexSearch ------------------------------
(***************************************************************************)
(* index/search.rs: a search through an index asks only the files that the *)
(* prefilter of the query lets pass.  A file that passes goes through the  *)
(* same FileProcessor as in a direct search.                               *)
(***************************************************************************)
EXTENDS FileProcessor

CONSTANTS
  Positions(_),     \* bloom_positions: the bits of a trigram
  Hir,              \* the nodes of regular expressions
  MaxLanguage,      \* bound: bytes of a match of a regular expression
  Nothing           \* None

Filter == INSTANCE Prefilter

\* The literal of a line search, the regular expression of a multiline search.
Queries(o) ==
  {IF o.mode = "Line"
     THEN [kind |-> "literal", bytes |-> o.pattern, insensitive |-> o.insensitive]
     ELSE [kind |-> "regex", node |-> o.node, insensitive |-> o.insensitive]}

ASSUME QueryAssumption ==
  /\ MaxLanguage \in Nat /\ Nothing \notin Seq(Byte)
  /\ \A n \in DOMAIN Hir :
       LET node == Hir[n]
       IN /\ n \in Nat /\ node.min \in Nat /\ node.max \in Nat /\ node.bytes \in Seq(Byte)
          /\ node.children \in Seq({c \in DOMAIN Hir : c < n})
          /\ node.kind \in {"capture", "repetition"} => Len(node.children) = 1
          /\ node.kind \in {"literal", "class", "empty", "look", "capture", "repetition",
                            "concat", "alternation"}
  /\ \A o \in Options :
       \/ o.insensitive /\ o.mode = "Multiline"
       \/ ~o.insensitive /\ o.mode = "Line"
       \/ /\ ~o.insensitive /\ o.mode = "Multiline"
          /\ o.node \in DOMAIN Hir /\ o.language = Filter!Language[o.node]

-----------------------------------------------------------------------------

\* Slip: the trigrams are taken from content in any encoding.
FromPartsOfAny(content, archive) ==
  [prefilterable |-> ~archive,
   bloom |-> IF ~archive THEN Filter!TrigramBloom(content) ELSE {}]

\* IndexEntry::from_parts: trigrams of UTF-8 text only, and not of an archive.
FromParts(content, archive) ==
  LET prefilterable == ~Lossy(content) /\ ~archive
  IN [prefilterable |-> prefilterable,
      bloom |-> IF prefilterable THEN Filter!TrigramBloom(content) ELSE {}]

\* What the search demands of a file, or Nothing when every file is searched.
Alternatives(o) ==
  IF o.everyFile \/ o.encoding \notin {"Auto", "Utf8"}
    THEN Nothing
    ELSE Filter!PrefilterTrigrams(Queries(o))

IsCandidate(content, o) ==
  \/ Alternatives(o) = Nothing
  \/ Filter!MayMatch(FromParts(content, o.archive), Alternatives(o))

-----------------------------------------------------------------------------

\* The prefilter is conservative: a file it drops has no match in any encoding
\* and mode, whatever bits the trigrams share in the Bloom filter.  A search by
\* lines has a literal here and a multiline search an expression; the entry has
\* the filter of the content that is searched.  (A line too long that a later
\* chunk completes is joined to the next line, and such a match need not be in
\* the file.)
NoFalseNegative ==
  occurrences > 0 /\ expected = Len(source) /\ ~crossed => IsCandidate(source, options)

=============================================================================
