------------------------------- MODULE Planner -------------------------------
(***************************************************************************)
(* The planner at work: each initial state is one host and one set of      *)
(* options, and the single step plans its shutdown. What is stated of the  *)
(* plan is stated of every host in Hosts.                                  *)
(***************************************************************************)
EXTENDS Plan

CONSTANTS
  Hosts,      \* what a plan may be asked for
  GuestIds    \* what the hypervisor names a guest

\* A guest's startup order is -1 where it declares none (exec.go ParseStartupOrder);
\* the list is the hypervisor's, which names no guest twice and none like the host.
Guest == [id : GuestIds, running : BOOLEAN, order : Int, down : Int, shed : BOOLEAN]

OrderGroup == [lo : Int, hi : Int, notBefore : Int]

Options ==
  [guestTimeout : Int, groups : Seq(OrderGroup), concurrency : Int, holdUntil : Int,
   omitHalt : BOOLEAN, upsCut : Int]

ASSUME HostsAssumption ==
  \A h \in Hosts :
    /\ h.guests \in Seq(Guest)
    /\ h.opts \in Options
    /\ \A i, j \in DOMAIN h.guests : h.guests[i].id = h.guests[j].id => i = j

ASSUME GuestIdsAssumption == ThisHost \notin GuestIds

VARIABLES host, steps

vars == <<host, steps>>

Init ==
  /\ host \in Hosts
  /\ steps = <<>>

BuildPlan ==
  /\ steps = <<>>
  /\ steps' = Build(host.roles, host.guests, host.opts)
  /\ UNCHANGED host

Next == BuildPlan

Spec == Init /\ [][Next]_vars

-----------------------------------------------------------------------------
Planned == steps # <<>>
Stops == {i \in DOMAIN steps : steps[i].action = GuestStop}
RunningGuests == {host.guests[i] : i \in {k \in DOMAIN host.guests : host.guests[k].running}}
GuestOf(i) == CHOOSE g \in RunningGuests : g.id = steps[i].target
Groups == UsableGroups(host.opts.groups)

\* Every running guest is stopped exactly once and a stopped one never appears,
\* whatever groups and concurrency do to the order (plan.go Build, shutdownOrder).
EveryRunningGuestStopsOnce ==
  Planned =>
    /\ \A g \in RunningGuests : Cardinality({i \in Stops : steps[i].target = g.id}) = 1
    /\ \A i \in Stops : \E g \in RunningGuests : steps[i].target = g.id

\* What must stop before what is never traded for speed: guests of different
\* startup orders (or groups) are never in one wave, and the one that starts
\* later is in the earlier wave (plan.go guestWaves: "Tiers never merge").
MustPrecede(a, b) ==
  IF Groups = <<>>
  THEN OrderOf(a.order) > OrderOf(b.order)
  ELSE \E k \in DOMAIN Groups :
         /\ InGroup(Groups[k], a.order)
         /\ \A j \in 1..k : ~InGroup(Groups[j], b.order)

DependenciesStopInOrder ==
  Planned => \A i, j \in Stops :
    MustPrecede(GuestOf(i), GuestOf(j)) => steps[i].wave < steps[j].wave

\* No wave holds more guests than may be stopping at once, a wave is issued
\* contiguously, and only guests ever share one (plan.go Options.GuestConcurrency).
WavesAreBounded ==
  LET limit == host.opts.concurrency
  IN  Planned => \A i \in DOMAIN steps :
        /\ {j \in DOMAIN steps : steps[j].wave = steps[i].wave}
             = {j \in DOMAIN steps : \E f \in 1..j : i \in WaveFrom(steps, f)
                                                  /\ j \in WaveFrom(steps, f)}
        /\ Cardinality({j \in DOMAIN steps : steps[j].wave = steps[i].wave})
             <= IF i \notin Stops THEN 1
                ELSE IF limit < 0 THEN Cardinality(Stops)
                ELSE IF limit = 0 THEN 1 ELSE limit

\* The cut arms the UPS against this host, so it is sent when everything but the
\* halt has been done, and a plan that leaves the halt to systemd sends none
\* (docs/design/Architecture.md section 2; plan.go Build, Options.OmitHalt).
CutThenHaltEndsThePlan ==
  LET at(a) == {i \in DOMAIN steps : steps[i].action = a}
  IN  Planned =>
        /\ at(HostHalt) = IF host.opts.omitHalt THEN {} ELSE {Len(steps)}
        /\ at(UpsCut) = IF host.opts.omitHalt \/ host.opts.upsCut <= 0
                        THEN {} ELSE {Len(steps) - 1}

\* A held wave waits exactly for the guests that stop in earlier groups: each of
\* them is counted, and none of its own is, or the hold could only run to its
\* ceiling (plan.go Build NotBefore/Clears, Covers).
HoldsWaitForEarlierGroups ==
  Planned => \A i \in Stops : steps[i].notBefore > 0 =>
    \A j \in Stops :
      Covers(steps[i].clears, GuestOf(j).order)
        <=> MustPrecede(GuestOf(j), GuestOf(i))

\* What the waves that start in the first k steps cost, one after another.
Spent ==
  LET cost(f) == Max({steps[j].timeout : j \in WaveFrom(steps, f)})
      upTo[k \in 0..Len(steps)] ==
        IF k = 0 THEN 0
        ELSE upTo[k - 1] + IF k \in WaveStarts(steps) THEN cost(k) ELSE 0
  IN  upTo

\* The worst case is the slowest path through the plan: some wave starts at its
\* ceiling and every wave from it on uses its whole budget (plan.go WorstCase).
WorstCaseIsTheSlowestPath ==
  LET hold(f) == IF \E j \in WaveFrom(steps, f) :
                      ~steps[j].reversible /\ ~Committed(steps, f)
                 THEN Max({steps[f].notBefore, host.opts.holdUntil})
                 ELSE steps[f].notBefore
      path(f) == hold(f) + Spent[Len(steps)] - Spent[f - 1]
  IN  Planned => WorstCase(steps, host.opts.holdUntil) = Max({path(f) : f \in WaveStarts(steps)})

\* Every plan has the shape the executor's guarantees rest on: a cut that shares a
\* wave with a guest, or a wave that can be half undone, would break them
\* (plan.go Build, Shed; execute.go waveIndices, runWave).
PlansHaveTheirShape == PlanShape(steps) /\ PlanShape(Shed(host.guests, host.opts))
=============================================================================
