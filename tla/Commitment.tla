----------------------------- MODULE Commitment -----------------------------
(***************************************************************************)
(* What a sequence promises, with no plan, UPS, clock or hold in it: every *)
(* act can be given back until the sequence commits, it abandons only      *)
(* before that, an abandoned sequence tries to give back all it took and   *)
(* nothing else, and a committed one only ever goes on to its end.         *)
(* The README's "undoes all of it if mains return before the point of no   *)
(* return", as a specification; Executor implements it.                    *)
(***************************************************************************)
CONSTANT Acts

VARIABLES
  phase,  \* open, committed, returning, and the two ends: slept, returned
  taken,  \* acts in effect because of this sequence, not yet given back
  lost    \* acts it tried to give back and could not

vars == <<phase, taken, lost>>

TypeOK ==
  /\ phase \in {"open", "committed", "returning", "slept", "returned"}
  /\ taken \subseteq Acts
  /\ lost \subseteq Acts

\* A sequence with nothing to do has ended as it begins.
Init == phase \in {"open", "slept"} /\ taken = {} /\ lost = {}

Take ==
  /\ phase \in {"open", "committed"}
  /\ taken \subseteq taken' /\ taken' \subseteq Acts
  /\ UNCHANGED <<phase, lost>>

Commit == phase = "open" /\ phase' = "committed" /\ UNCHANGED <<taken, lost>>

Abandon == phase = "open" /\ phase' = "returning" /\ UNCHANGED <<taken, lost>>

GiveBack(a) ==
  /\ phase = "returning" /\ a \in taken
  /\ taken' = taken \ {a}
  /\ lost' \in {lost, lost \union {a}}
  /\ UNCHANGED phase

Sleep ==
  /\ phase \in {"open", "committed"}
  /\ phase' = "slept"
  /\ taken \subseteq taken' /\ taken' \subseteq Acts
  /\ UNCHANGED lost

Return ==
  /\ phase = "returning" /\ taken = {}
  /\ phase' = "returned"
  /\ UNCHANGED <<taken, lost>>

Next ==
  \/ Take \/ Commit \/ Abandon \/ Sleep \/ Return
  \/ \E a \in Acts : GiveBack(a)

Spec == Init /\ [][Next]_vars
=============================================================================
