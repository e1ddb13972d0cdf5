----------------------------- MODULE MCIndexUpdate -----------------------------
(***************************************************************************)
(* A small instance of IndexUpdate for TLC.                                *)
(***************************************************************************)
EXTENDS IndexUpdate

\* Two files under one root, one under another.
FilesDef == {"a", "b", "c"}
RootOfDef == [f \in FilesDef |-> IF f = "c" THEN "other" ELSE "root"]
\* A content of one byte and one of two.
SizeDef == [c \in {"s", "l", Absent} |-> CASE c = "s" -> 1 [] c = "l" -> 2 [] OTHER -> 0]
=============================================================================
