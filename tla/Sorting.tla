------------------------------- MODULE Sorting -------------------------------
(***************************************************************************)
(* A finite set put in turn: the stable sorts of the planner and of the    *)
(* reader of the journal.                                                  *)
(***************************************************************************)
EXTENDS Integers, FiniteSets

\* The members of a set in turn: each stands after those that are before it.
Sorted(S, before) ==
  [k \in 1..Cardinality(S) |-> CHOOSE i \in S : Cardinality(before[i]) = k - 1]
=============================================================================
