---------------------------- MODULE MCLiveIndex ----------------------------
(***************************************************************************)
(* Small instances of LiveIndex for TLC.                                   *)
(***************************************************************************)
EXTENDS LiveIndex, TLC

CONSTANTS f1, f2, v1, v2, Writes, Calls, Starts, Faults

OneRoot == (f1 :> 1) @@ (f2 :> 1)
OneFile == (f1 :> 1)
TwoRoots == (f1 :> 1) @@ (f2 :> 2)

MCBound == [write |-> Writes, call |-> Calls, start |-> Starts, fault |-> Faults]

\* The contents of a file other than Absent are interchangeable.
ContentSymmetry == Permutations({v1, v2})

\* Every run starts with an empty file system: writes fill it.
MCInit == Init /\ disk = NoEntries
MCSpec == MCInit /\ [][Next]_vars
MCFairSpec == MCSpec /\ Fairness
=============================================================================
