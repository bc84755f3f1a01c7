------------------------------- MODULE Steps -------------------------------
(***************************************************************************)
(* The vocabulary the planner and the executor share: what a step is, which *)
(* steps run together, and where a sequence stops being reversible.        *)
(* Source: src/src/plan/plan.go, src/src/execute/execute.go.               *)
(***************************************************************************)
EXTENDS Integers, Sequences

Noout      == "ceph.noout.set"
QuorumNote == "k8s.quorum.record"
CordonNode == "k8s.cordon"
Unmount    == "k8s.csi.unmount"
GuestStop  == "guest.shutdown"
UpsCut     == "ups.shutdown.return"
HostHalt   == "host.poweroff"

Action == {Noout, QuorumNote, CordonNode, Unmount, GuestStop, UpsCut, HostHalt}

Irreversible == {Unmount, UpsCut, HostHalt}

\* A step whose target is the host itself names this instead of a guest.
ThisHost == "host"

(***************************************************************************)
(* Startup orders. A guest that declares none counts as the highest order: *)
(* it starts last and so stops first.                                      *)
(***************************************************************************)
OrderUnset == -1
UnorderedOrder == 99

Unordered(order) == order \in {OrderUnset, 0}

OrderOf(order) == IF Unordered(order) THEN UnorderedOrder ELSE order

\* A group is an inclusive span of orders, [lo, hi, notBefore].
InGroup(group, order) == group.lo <= OrderOf(order) /\ OrderOf(order) <= group.hi

Covers(groups, order) == \E k \in DOMAIN groups : InGroup(groups[k], order)

-----------------------------------------------------------------------------
(***************************************************************************)
(* Waves: consecutive steps that carry the same wave number are issued     *)
(* together and awaited as a set.                                          *)
(***************************************************************************)
WaveFrom(steps, first) ==
  {j \in first..Len(steps) :
     \A k \in first..j : steps[k].wave = steps[first].wave}

(***************************************************************************)
(* The point of no return is the first step that cannot be undone. The     *)
(* executor only ever compares a wave's first index with it, and those two *)
(* comparisons are what Committed and Committing say.                      *)
(***************************************************************************)
PointOfNoReturn(steps) ==
  CHOOSE p \in 1..(Len(steps) + 1) :
    /\ \A i \in 1..(p - 1) : steps[i].reversible
    /\ p <= Len(steps) => ~steps[p].reversible

\* first > PointOfNoReturn: a step that cannot be undone has already run.
Committed(steps, first) == \E i \in 1..(first - 1) : ~steps[i].reversible

\* first >= PointOfNoReturn: the wave at first commits, or a previous one did.
Committing(steps, first) == \E i \in 1..first : i <= Len(steps) /\ ~steps[i].reversible

(***************************************************************************)
(* What the executor relies on and the planner delivers: only a guest stop *)
(* has a guest for its target, waves never run backwards, a step that      *)
(* cannot be undone is alone in its wave, rebalancing is off before any    *)
(* guest stops, and the cut and the halt come in waves of their own after  *)
(* the last of them.                                                       *)
(***************************************************************************)
PlanShape(steps) ==
  /\ \A i \in DOMAIN steps :
       /\ steps[i].reversible <=> steps[i].action \notin Irreversible
       /\ steps[i].action = GuestStop <=> steps[i].target # ThisHost
  /\ \A i, j \in DOMAIN steps :
       /\ i <= j => steps[i].wave <= steps[j].wave
       /\ ~steps[i].reversible /\ steps[i].wave = steps[j].wave => i = j
       /\ steps[i].action = Noout /\ steps[j].action = GuestStop => i < j
       /\ steps[i].action = GuestStop /\ steps[j].action \in {UpsCut, HostHalt}
            => i < j /\ steps[i].wave < steps[j].wave
=============================================================================
