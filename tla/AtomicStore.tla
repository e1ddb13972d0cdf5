----------------------------- MODULE AtomicStore -----------------------------
(***************************************************************************)
(* What a caller of PersistentIndex::save and open relies on: the saves of *)
(* one path happen one after the other, each replaces the stored index at  *)
(* once or not at all, and an open finds the stored index.  Ok says that   *)
(* the index was replaced and an error that it was not, except the error   *)
(* of the path of an index that is stored already ("late").  A save whose  *)
(* process dies may have happened or not.                                  *)
(*                                                                         *)
(* An index is known by the number of the save that stored it.             *)
(***************************************************************************)
EXTENDS Naturals

CONSTANTS MaxSaves,      \* bound of a run: the number of saves
          Reader         \* callers of open

VARIABLES store,         \* the stored index, 0 before the first save
          outcome,       \* what became of each save
          opened         \* the index a reader opened last, 0 before the first

vars == <<store, outcome, opened>>

Version == 1..MaxSaves

Init == /\ store = 0
        /\ outcome = [v \in Version |-> "unused"]
        /\ opened = [r \in Reader |-> 0]

Begin(v) ==
  /\ outcome[v] = "unused"
  /\ \A u \in 1..(v - 1) : outcome[u] \notin {"unused", "running"}
  /\ outcome' = [outcome EXCEPT ![v] = "running"]
  /\ UNCHANGED <<store, opened>>

Replace(v) ==
  /\ outcome[v] = "running"
  /\ store' = v
  /\ UNCHANGED <<outcome, opened>>

Return(v) ==
  /\ outcome[v] = "running"
  /\ \E result \in IF store = v THEN {"ok", "late"} ELSE {"error"} :
       outcome' = [outcome EXCEPT ![v] = result]
  /\ UNCHANGED <<store, opened>>

Die(v) ==
  /\ outcome[v] = "running"
  /\ outcome' = [outcome EXCEPT ![v] = "crashed"]
  /\ UNCHANGED <<store, opened>>

Open(r) ==
  /\ store # 0
  /\ opened' = [opened EXCEPT ![r] = store]
  /\ UNCHANGED <<store, outcome>>

Next == \/ \E v \in Version : Begin(v) \/ Replace(v) \/ Return(v) \/ Die(v)
        \/ \E r \in Reader : Open(r)

Spec == Init /\ [][Next]_vars
=============================================================================
