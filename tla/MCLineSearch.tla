---------------------------- MODULE MCLineSearch ----------------------------
(***************************************************************************)
(* A small instance of LineSearch for TLC.                                 *)
(***************************************************************************)
EXTENDS LineSearch

Letters == {"a", "b", "nl", "cr"}
ShortTexts == UNION {[1..n -> Letters] : n \in 0..5}
Settings(result, b, a) ==
  [result |-> result, before |-> b, after |-> a, lineBytes |-> 2, pattern |-> <<"a">>]
FewOptions == {Settings("Matches", 1, 1), Settings("Matches", 2, 0), Settings("Count", 0, 0)}
=============================================================================
