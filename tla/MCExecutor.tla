----------------------------- MODULE MCExecutor -----------------------------
(***************************************************************************)
(* Instances of the executor whose plans come from the planner: each job   *)
(* is Plan!Build (or Plan!Shed) of one host, run the way the command line  *)
(* would run it. Times are in polls.                                       *)
(***************************************************************************)
EXTENDS Executor

CONSTANTS
  JobNames, OnNames, OffNames,
  PriorMarks     \* the sets of marks an operator may have left on the host

P == INSTANCE Plan

ToStop(id, order, down) ==
  [id |-> id, running |-> TRUE, order |-> order, down |-> down, shed |-> TRUE]

\* The routers, order 1, wait for every other guest of the estate.
HeldRouters == <<[lo |-> 2, hi |-> 99, notBefore |-> 0],
                 [lo |-> 1, hi |-> 1, notBefore |-> 2]>>

OrderMap == [app |-> 5, db |-> 2, router |-> 1, far |-> 3]
GuestSet == {"app", "db", "router", "far"}

Opts(groups, concurrency, holdUntil, omitHalt, upsCut) ==
  [guestTimeout |-> 1, groups |-> groups, concurrency |-> concurrency,
   holdUntil |-> holdUntil, omitHalt |-> omitHalt, upsCut |-> upsCut]

Job(ss, holdUntil, gated, dryRun, kit) ==
  [steps |-> ss, holdUntil |-> holdUntil, gated |-> gated, dryRun |-> dryRun,
   ups |-> TRUE, estate |-> TRUE, kit |-> kit, prior |-> {}]

JobNamed(name) ==
  CASE name = "powerloss" ->      \* a Proxmox host with OSDs, on battery
         Job(P!Build({"ceph-osd", "proxmox"},
                     <<ToStop("router", 1, 0), ToStop("app", 5, 0)>>,
                     Opts(HeldRouters, P!AllAtOnce, 3, FALSE, 1)),
             3, TRUE, FALSE, Action)
    [] name = "together" ->       \* two guests in one wave, then the cut
         Job(P!Build({"proxmox"}, <<ToStop("app", 0, 0), ToStop("db", 0, 1)>>,
                     Opts(<<>>, P!AllAtOnce, 2, FALSE, 1)),
             2, TRUE, FALSE, Action)
    [] name = "reboot" ->         \* systemd asked: no halt, no gate
         Job(P!Build({"ceph-osd", "proxmox"},
                     <<ToStop("app", 0, 0), ToStop("db", 2, 0)>>,
                     Opts(<<>>, 0, 0, TRUE, 0)),
             0, FALSE, FALSE, Action)
    [] name = "worker" ->         \* a kubernetes node with no guests
         Job(P!Build({"kubelet"}, <<>>, Opts(<<>>, 0, 2, FALSE, 0)),
             2, TRUE, FALSE, Action)
    [] name = "remote" ->         \* no Ceph, Kubernetes or estate to act on
         Job(P!Build({"ceph-osd", "proxmox"}, <<ToStop("app", 0, 0)>>,
                     Opts(<<>>, 0, 0, FALSE, 1)),
             0, TRUE, FALSE, {GuestStop, HostHalt})
    [] name = "rehearsal" ->      \* the same host, dry run
         Job(P!Build({"ceph-osd", "kubelet"}, <<>>, Opts(<<>>, 0, 0, FALSE, 1)),
             0, TRUE, TRUE, Action)
    [] name = "conserve" ->       \* shed two guests, reversibly
         Job(P!Shed(<<ToStop("app", 0, 0), ToStop("db", 2, 0)>>, Opts(<<>>, 0, 0, TRUE, 0)),
             0, TRUE, FALSE, Action)

MCJobs == {[JobNamed(n) EXCEPT !.prior = m] : n \in JobNames, m \in PriorMarks}

Sample(online, onBattery, volts, charge, runtime) ==
  [online |-> online, onBattery |-> onBattery, lowBattery |-> FALSE,
   inputV |-> volts, charge |-> charge, runtime |-> runtime, at |-> 0]

\* recharge keeps OB up after power is back, with the battery charging.
SampleNamed(name) ==
  CASE name = "OL"       -> Sample(TRUE, FALSE, 230, 50, Unknown)
    [] name = "recharge" -> Sample(FALSE, TRUE, 230, 60, Unknown)
    [] name = "OB"       -> Sample(FALSE, TRUE, 0, 50, 9)

MCSamplesOn == {SampleNamed(n) : n \in OnNames}
MCSamplesOff == {SampleNamed(n) : n \in OffNames}
=============================================================================
