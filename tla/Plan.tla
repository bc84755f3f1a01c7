-------------------------------- MODULE Plan --------------------------------
(***************************************************************************)
(* From what a host is to the ordered sequence of steps that stops it: a   *)
(* pure function, as src/src/plan/plan.go is. Guests are records           *)
(* [id, running, order, down, shed]; options are records                   *)
(* [guestTimeout, groups, concurrency, holdUntil, omitHalt, upsCut].       *)
(***************************************************************************)
EXTENDS Steps, Sorting, FiniteSetsExt

DefaultGuestTimeout == 180
AllAtOnce == -1

WithDefaults(opts) ==
  [opts EXCEPT !.guestTimeout = IF @ <= 0 THEN DefaultGuestTimeout ELSE @,
               !.concurrency  = IF @ = 0 THEN 1 ELSE @]

-----------------------------------------------------------------------------
(***************************************************************************)
(* Groups. An incomplete cover counts as no groups at all.                 *)
(***************************************************************************)
UsableGroups(groups) ==
  IF \A o \in 1..UnorderedOrder : Covers(groups, o) THEN groups ELSE <<>>

\* The position of the first declared group the order falls in, 0 for none.
GroupIndexOf(groups, order) ==
  IF Covers(groups, order)
  THEN Min({k \in DOMAIN groups : InGroup(groups[k], order)})
  ELSE 0

-----------------------------------------------------------------------------
(***************************************************************************)
(* The order guests stop in: by group where groups are in force, otherwise *)
(* unordered first and then from the highest startup order down. The sort  *)
(* is stable, so ties keep the order the hypervisor listed them in.        *)
(***************************************************************************)
StopsBefore(a, b, groups) ==
  IF groups # <<>>
  THEN GroupIndexOf(groups, a.order) < GroupIndexOf(groups, b.order)
  ELSE /\ ~Unordered(b.order)
       /\ Unordered(a.order) \/ a.order > b.order

\* Mutant: with groups in force, only guests that some group names are collected.
OnlyGrouped(guests, groups) ==
  SelectSeq(guests, LAMBDA g : g.running /\ GroupIndexOf(groups, g.order) # 0)

ShutdownOrder(guests, groups) ==
  LET running == {i \in DOMAIN guests : guests[i].running}
      before == [i \in running |-> {j \in running :
        \/ StopsBefore(guests[j], guests[i], groups)
        \/ ~StopsBefore(guests[i], guests[j], groups) /\ j < i}]
      positions == Sorted(running, before)
  IN  [k \in DOMAIN positions |-> guests[positions[k]]]

\* Mutant: any two ordered guests share a tier.
BothOrdered(a, b, groups) == Unordered(a.order) <=> Unordered(b.order)

\* Guests of one tier may stop together: one group, or one startup order.
SameTier(a, b, groups) ==
  IF groups # <<>>
  THEN GroupIndexOf(groups, a.order) = GroupIndexOf(groups, b.order)
  ELSE a.order = b.order \/ (Unordered(a.order) /\ Unordered(b.order))

TierStart(ordered, k, groups) ==
  Max({j \in 1..k : j = 1 \/ ~SameTier(ordered[j - 1], ordered[j], groups)})

\* Mutant: a wave takes one guest too many.
StartsWaveLate(ordered, k, concurrency, groups) ==
  LET place == k - TierStart(ordered, k, groups)
  IN  IF concurrency < 0 THEN place = 0 ELSE place % (concurrency + 1) = 0

\* A tier is cut into waves of at most `concurrency` guests; a negative
\* concurrency leaves it whole.
StartsWave(ordered, k, concurrency, groups) ==
  LET place == k - TierStart(ordered, k, groups)
  IN  IF concurrency < 0 THEN place = 0 ELSE place % concurrency = 0

GuestWave(ordered, k, concurrency, groups) ==
  Cardinality({j \in 1..k : StartsWave(ordered, j, concurrency, groups)})

Budget(g, opts) == IF g.down > 0 THEN g.down ELSE opts.guestTimeout

-----------------------------------------------------------------------------
HostStep(action, reversible, wave) ==
  [action |-> action, target |-> ThisHost, reversible |-> reversible, wave |-> wave,
   timeout |-> 0, notBefore |-> 0, clears |-> <<>>]

\* The groups a held wave waits for: all that are declared before its own.
\* Mutant: the last of them is forgotten.
ButTheLast(groups, gi) == SubSeq(groups, 1, gi - 2)
EarlierGroups(groups, gi) == SubSeq(groups, 1, gi - 1)

(***************************************************************************)
(* The stop of one guest. A guest of a held group that is not the first    *)
(* declared one waits for its hold, or for every earlier group to be clear *)
(* of running guests anywhere.                                             *)
(***************************************************************************)
StopStep(g, wave, opts, groups) ==
  LET gi == GroupIndexOf(groups, g.order)
      waits == gi > 1 /\ groups[gi].notBefore > 0
  IN  [action |-> GuestStop, target |-> g.id, reversible |-> TRUE, wave |-> wave,
       timeout   |-> Budget(g, opts),
       notBefore |-> IF waits THEN groups[gi].notBefore ELSE 0,
       clears    |-> IF waits THEN EarlierGroups(groups, gi) ELSE <<>>]

Prelude(roles) ==
  (IF "ceph-osd" \in roles THEN <<[action |-> Noout, back |-> TRUE]>> ELSE <<>>)
  \o (IF "kubelet" \in roles
      THEN << [action |-> QuorumNote, back |-> TRUE],
              [action |-> CordonNode, back |-> TRUE],
              [action |-> Unmount, back |-> FALSE] >>
      ELSE <<>>)

\* Mutant: the halt first, then the cut.
HaltThenCut(opts) ==
  IF opts.omitHalt THEN <<>>
  ELSE <<HostHalt>> \o (IF opts.upsCut > 0 THEN <<UpsCut>> ELSE <<>>)

Coda(opts) ==
  IF opts.omitHalt THEN <<>>
  ELSE (IF opts.upsCut > 0 THEN <<UpsCut>> ELSE <<>>) \o <<HostHalt>>

\* Mutant: what ends the plan begins in the last guests' wave.
LastWave(top, k) == top + k - 1

CodaWave(top, k) == top + k

Build(roles, guests, options) ==
  LET opts    == WithDefaults(options)
      groups  == UsableGroups(opts.groups)
      pre     == Prelude(roles)
      ordered == ShutdownOrder(guests, groups)
      wave(k) == Len(pre) + GuestWave(ordered, k, opts.concurrency, groups)
      top     == IF ordered = <<>> THEN Len(pre) ELSE wave(Len(ordered))
      post    == Coda(opts)
  IN  [k \in DOMAIN pre |-> HostStep(pre[k].action, pre[k].back, k)]
      \o [k \in DOMAIN ordered |-> StopStep(ordered[k], wave(k), opts, groups)]
      \o [k \in DOMAIN post |-> HostStep(post[k], FALSE, CodaWave(top, k))]

\* What `conserve` runs: the running guests tagged shed, as one wave.
Shed(guests, options) ==
  LET opts == WithDefaults(options)
      chosen == {i \in DOMAIN guests : guests[i].running /\ guests[i].shed}
      listed == Sorted(chosen, [i \in chosen |-> {j \in chosen : j < i}])
  IN  [k \in DOMAIN listed |-> StopStep(guests[listed[k]], 1, opts, <<>>)]

-----------------------------------------------------------------------------
(***************************************************************************)
(* The longest the sequence can take: waves run one after the other, each  *)
(* as long as its slowest member, none before its hold, and the first      *)
(* committing one not before holdUntil.                                    *)
(***************************************************************************)
WaveStarts(steps) == {i \in DOMAIN steps : i = 1 \/ steps[i].wave # steps[i - 1].wave}

Slowest(steps, first) == Max({steps[j].timeout : j \in WaveFrom(steps, first)})

\* Mutant: the barrier is left out of the worst case.
OwnHold(steps, first, holdUntil) == steps[first].notBefore

NotBefore(steps, first, holdUntil) ==
  IF PointOfNoReturn(steps) \in WaveFrom(steps, first)
  THEN Max({steps[first].notBefore, holdUntil})
  ELSE steps[first].notBefore

WorstCase(steps, holdUntil) ==
  LET t[i \in 0..Len(steps)] ==
        IF i = 0 THEN 0
        ELSE IF i \in WaveStarts(steps)
             THEN Max({t[i - 1], NotBefore(steps, i, holdUntil)}) + Slowest(steps, i)
             ELSE t[i - 1]
  IN  t[Len(steps)]
=============================================================================
