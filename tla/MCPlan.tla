------------------------------- MODULE MCPlan -------------------------------
(***************************************************************************)
(* The planner over every small host.                                      *)
(***************************************************************************)
EXTENDS Planner, TLC

CONSTANTS
  Orders,     \* startup orders a guest may declare, 0 for none
  Roles,      \* sets of roles a host may have
  GroupSets   \* names of the group configurations below

\* No groups; a cover with a hole; two groups with the last one held; three
\* groups that overlap, two of them held.
GroupsNamed(name) ==
  CASE name = "none"    -> <<>>
    [] name = "partial" -> <<[lo |-> 2, hi |-> 99, notBefore |-> 0]>>
    [] name = "two"     -> <<[lo |-> 2, hi |-> 99, notBefore |-> 0],
                             [lo |-> 1, hi |-> 1, notBefore |-> 30]>>
    [] name = "overlap" -> <<[lo |-> 50, hi |-> 99, notBefore |-> 5],
                             [lo |-> 2, hi |-> 60, notBefore |-> 20],
                             [lo |-> 1, hi |-> 2, notBefore |-> 200]>>

Listed(id, running, order, down, shed) ==
  [id |-> id, running |-> running, order |-> order, down |-> down, shed |-> shed]

\* Four listed guests: one is already stopped, two declare a budget.
GuestLists ==
  {<<Listed("a", TRUE, x, 0, TRUE), Listed("b", TRUE, y, 60, FALSE),
     Listed("off", FALSE, x, 0, TRUE), Listed("c", TRUE, z, 400, FALSE)>> :
     x \in Orders, y \in Orders, z \in Orders}

Ends == {[omitHalt |-> FALSE, upsCut |-> 0], [omitHalt |-> FALSE, upsCut |-> 60],
         [omitHalt |-> TRUE, upsCut |-> 60]}

OptionSets ==
  {[guestTimeout |-> t, groups |-> GroupsNamed(n), concurrency |-> c, holdUntil |-> h,
    omitHalt |-> e.omitHalt, upsCut |-> e.upsCut] :
     t \in {0}, n \in GroupSets, c \in {AllAtOnce, 0, 1, 2}, h \in {0, 300}, e \in Ends}

MCHosts == [roles : Roles, guests : GuestLists, opts : OptionSets]
=============================================================================
