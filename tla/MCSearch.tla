------------------------------ MODULE MCSearch ------------------------------
(***************************************************************************)
(* A small search for TLC: an archive of two members between two files.    *)
(***************************************************************************)
EXTENDS Search, TLC

MembersDef == (1 :> <<1>>) @@ (2 :> <<2, 3>>) @@ (3 :> <<4>>)
SourceOfDef == <<1, 1, 3, 4>>

Searched(backend, mode, result, limit, policy) ==
  [backend |-> backend, mode |-> mode, result |-> result, limit |-> limit,
   warningLimit |-> 1, evidence |-> "Matched", evidenceLimit |-> 1, visitor |-> FALSE,
   policy |-> policy]

OptionsDef == {
  Searched("scan", "Lines", "Matches", 2, "Continue"),
  [Searched("index", "Lines", "Matches", 1, "Abort") EXCEPT !.visitor = TRUE, !.evidence = "All"],
  Searched("index", "Multiline", "Files", 1, "Continue"),
  [Searched("scan", "Multiline", "Count", 0, "Continue") EXCEPT !.warningLimit = 0,
                                                                !.evidenceLimit = 0],
  Searched("scan", "Lines", "Quiet", 1, "Abort"),
  [Searched("index", "Multiline", "Quiet", 1, "Continue") EXCEPT !.evidence = "None"]}

KindsDef == {
  <<"text", "text", "text", "text">>,
  <<"lateNul", "binary", "text", "text">>,
  <<"text", "text", "error", "lateNul">>,
  <<"binary", "error", "text", "text">>,
  <<"error", "text", "binary", "binary">>}
=============================================================================
