# CryoSheep, specified

CryoSheep stops a host well when its power fails, and puts back what it stopped
when the power returns. This directory holds TLA+ models of it, the TLC runs that
check them on small instances, and TLAPS proofs of what matters most for every
instance. Each definition that models code is listed with its lines in
`PROJECT.json` ("map").

    tlc -workers 2 -config MCExecutor.cfg MCExecutor.tla     # any of the cfg files
    tlapm ExecutorProofs.tla                                 # the proofs

## The system

| part | state it keeps | operations | what makes it correct |
|---|---|---|---|
| planner, `src/plan` | none: a pure function of roles, guests and options | `Build`, `Shed`, `WorstCase` | every running guest stopped once, in dependency order, in waves no larger than allowed; a hold waits for exactly the earlier groups; the cut and the halt come last; the worst case is the longest path |
| executor, `src/execute` | place in the plan, completed steps, UPS readings, time since it began, whether the barrier was held | `Run`: hold, gate, barrier, wave, `reverse` | no cut or halt before every guest stop has ended; abandon only on mains and only before the point of no return; undo what it did and only that; always reach an end |
| UPS model, `src/ups` | last two samples | `Observe`, `MainsBack` | absence of information is never recovery |
| verbs, `cmd/cryosheep/run.go` | two lock files | `conserve`, `sleep`, `cancel`, `wake` | nothing taken down is forgotten, nothing is undone twice, nobody waits for ever |
| journal, `src/audit` | the lines of past runs, across boots | `Open`, `StepStart`, `StepEnd`, `Close`, `LoadRuns`, `Episode` | an undo finds every run it must undo and no other |
| adapters, `src/adapters/exec`, `remote` | none; act on qm, ceph, kubectl, systemctl or the Proxmox API | one call per step | a call that fails may have taken effect |
| NUT client, `src/adapters/nut` | none; several endpoints of one UPS | `Read`, `Runtime`, `Cut`, `InstCmd` | it is back by its caller's deadline; a reading is of one upsd; a cut counts only when the UPS took it, and is not repeated when it did |
| estate: the hosts that share one UPS | the cluster's guests, the cut the UPS counts down to | each host's barrier, `Running`, `Cut` | no cut lands on a host that is still stopping its guests; unreadable is not clear; what halted comes back |
| calibration, `src/calibrate` | none | `Summarize`, `Recommend`, `Feasible` | the threshold covers the worst stop on record |
| self-install, `src/selfinstall` | binary, units, channel on disk; what systemd has loaded and enabled | `Install`, `Remove`, `Latest`, `Fetch` | what is armed can run, wherever a command was cut off; running it again converges |
| detection, `src/detect` | none | `Roles` | a failed query costs its own role only |

How they interact. A verb builds a plan from one listing of the guests and one
reading of the UPS, opens a run in the journal and hands the plan to the executor,
which calls the adapters, reads the UPS again before every wave and the estate
during holds, and writes each step to the journal. `cancel` and `wake` read the
journal back and undo the runs of the last episode. NUT starts `conserve`, `sleep`
and `cancel`; systemd starts `sleep` when the machine stops and `wake` when it
boots. Hosts share nothing but the UPS, the storage and the moment they were told.

What is hard: the steps of a wave run concurrently and fail apart; mains can come
back at any instant of a sequence, or between two verbs; a reading can be missing,
late or wrong; the process or the machine can stop between a step and its record;
five kinds of process contend for two locks and meet again only through the
journal; every call is cut off by a deadline, and the sequence by its own. The
40 hazards are listed, each at its line, under "hazards".

## The modules

`Steps` is the vocabulary the planner and the executor share: actions, startup
orders, groups, waves, the point of no return, and `PlanShape`, what the executor
relies on and the planner delivers (proved of every plan by `PlanProofs!Shapes`,
assumed of `Jobs` by `Executor`'s `JobsAssumption`).

`UpsModel` is `src/src/ups/model.go`: `Observe` and `MainsBack`. Volts, percent and
seconds are integers of which only signs and comparisons are used.

`Plan` is `src/src/plan/plan.go`, operator for function. The index loops of
`guestWaves` become: the position of a guest in its tier decides whether it starts
a wave (`StartsWave`), and its wave is how many starts lie at or before it. The
stable sort is `Sorted`, of the small module `Sorting` that `Journal` uses too: each
guest stands after those before it, which the comparator of the code and, among equals,
the listing order say.

`Planner` is the planner at work, so that there are states to speak of: an initial state
is one host and one set of options out of `Hosts`, the only step plans its shutdown, and
the seven properties of plans are stated of the result.

`Executor` is `Run` of `src/src/execute/execute.go`, one action per thing it does:

| code | actions |
|---|---|
| `hold`, for a wave's own hold and for the barrier | `HoldOver`, `HoldSeesMains`, `HoldPolls` |
| the gate before a wave, `mainsBack` | `GateSeesMains`, `GatePasses` |
| `runWave`: issue, each step concurrently, wait for all | `Issue`, `Perform(i)`, `EndWave` |
| `reverse` | `Undo(i)`, `Reversed` |
| the deadlines of `stepCtx` and of the run | `Tick`, which cannot pass them |
| everything else | `MainsChange`, `ElsewhereChange(g)` |

The state is the local variables of `Run` (`at`, `served`, `model`, `outcome`,
`undo`) and the world its calls act on (`up`, `marks`, `mains`). A call can succeed,
fail, or fail after it took effect; once the sequence's time is up, calls on its
context fail and reads come back empty, except for the cut and the halt, which run
detached.

`Commitment` is the abstract specification: acts are taken, the sequence commits or
abandons, an abandoned one gives back all it took, a committed one only goes on. It
knows no plan, UPS, clock, wave or hold. `Executor` implements it under the mapping
`Promise`: the acts are the plan's steps, `taken` is what is owed an undo.

`Host` is `run.go` with `audit/read.go`: five verbs as processes, each started at
most once at a time as systemd does, two locks, the journal, mains, and a machine
that can halt, lose power and boot. A sequence is seen by what it takes down and
writes. The record of a step is an action apart from the step, and the records of a
wave come after all of it, one line at a time, so that a kill or a power cut can fall
between. The variables `owed`, `lapsed`, `failed` and `settled` are history: they
say what was taken down and why it might not be found again, and no guard reads them.
`NothingForgotten` has three excuses: what no record says was taken down (`lapsed`), what
an undo could not give back (`failed`), and what a long pause put out of reach
(`BeyondTheGap`). They are the ways the code itself gives up, so it shows that there
are no others, and does not show that these are harmless: hazards that end in one of
them are listed without a property.

`Estate` composes the executor with itself: several hosts on one UPS. A sequence is
seen by what the others and the UPS can see of it (its guests stop, it holds at the
barrier, sends the cut, halts, or abandons and gives its guests back), which is
`Executor` with its waves and calls folded together. Shared are the mains, the
listing of all guests (`view`, which lags until `Refresh`), and the output of the
UPS: `due` is when it goes off, and a second `shutdown.return` either replaces the
first or is ignored, as devices differ.

`Nut` is one call through `nut.go` and `upsmon.go`: a reading of four variables, each
on a connection of its own, the runtime alone, or the cut, a conversation of five
lines. `pc` and `question` are the place in `Read` or `InstCmd`, `at` the place in
`Endpoints`. An upsd answers, refuses, drops packets, stays silent or does any of it
by turns; a connection can break with the command queued. `tracking` and `driver`
are the two sides of `GET TRACKING`.

`SelfInstall` is `install`, `update` and `remove`. `InstallList` and `RemoveList` are
the writes and systemctl calls of `Install` and `Remove` in order, and `proc.step` is
the place in them; between any two the command may fail, be killed, or the machine
boot. A download is the published content or `Garbage`. What is on disk (`units`)
and what systemd last read (`loaded`) are two things.

`Journal` is the record: a line goes to journald, or by way of a systemd-cat when a
person started the run, and a sync puts it on disk. A power cut takes what the disk
does not have. Reading is `parseRuns`, `WasCut` and `Episode` over the lines,
operator for function, and the durations `calibrate` goes by; the loop over the lines is
a recursive function (`Collected`) and the sorts are `Sorted`, so that both can be proved
about. `runs` is what really happened; only properties compare the two. No run is at work
longer than `Limit` (`InTime`): the context of a conserve ends after 5 minutes
(`run.go:393`), of a sequence after `sequenceTimeout`, 6 (`run.go:45`), of a wake after 10
(`run.go:593`), reversal included, and all lie well inside the `episodeGap` of 20
(`read.go:151`).

`MCPlan`, `MCExecutor`, `MCHost`, `MCNut`, `MCSelfInstall` and `MCJournal` instantiate
these for TLC; `Estate` is run as it is. `MCExecutor` composes planner and executor:
its jobs are plans that `Plan!Build` and `Plan!Shed` make of small hosts.
`ExecutorProofs`, `PlanProofs`, `HostProofs`, `EstateProofs`, `NutProofs`,
`SelfInstallProofs` and `JournalProofs` hold the proofs, on the lemmas about sequences
in `SequenceLemmas`.

## The runs

| run | shows |
|---|---|
| `plan_build` | the seven properties of plans, over 36,864 states: four guests with four orders, three role sets, four group configurations (none, with a hole, two groups, overlapping), four concurrencies, with and without barrier, cut and halt |
| `executor` | safety of the executor, that every run ends, and that the promise of `Commitment` is kept, on seven kinds of job: a Proxmox host with OSDs and a held group, two guests in one wave, a kubernetes node, a remote target without Ceph or estate, a conserve, a reboot (no halt, no gate), a rehearsal (dry run) |
| `host_safety` | `NothingForgotten` and `UndoneOnce` on two guests in one wave, with calls that fail, an unreadable UPS or journal, kills, power cuts and reboots |
| `host_pause` | `NothingForgotten` when the guests cannot be listed and when a run starts so long after the last that the episode ends between them; one guest |
| `host_live` | `VerbsEnd` and `EverythingComesBack` over two outages or reboots |
| `nut` | every call is back by its deadline, an endpoint that fails at once costs nothing, a reading is never put together from two upsds, a cut reported sent was taken, and no cut is repeated that was known to be taken |
| `install` | what is enabled has its unit files and a verified binary, an update reaches the newest build of its channel, an install leaves systemd with what is on disk, a removal leaves nothing, with a failure, a kill or a boot between any two steps |
| `estate` | three hosts that begin apart and read the UPS or not: no cut lands on a sequence still stopping its guests, the barrier opens early only when every host's guests were down, every sequence ends, whoever halted comes back |
| `journal` | whatever power takes, no step was performed unannounced, a run that was cut reads so and only that, an undo finds exactly the outage's runs, and the recommended threshold covers every stop on record |
| `exec_cordon` | finding: an operator's cordon is undone |
| `estate_cut` | finding: a cut lands on a host that gave its guests back |
| `nut_blind` | finding: one endpoint that swallows packets blinds the gate |

Runs have no state to go to when the sequence or the last event is over, so deadlock
is not checked; `RunEnds`, `VerbsEnd`,
`SequencesEnd` and `CallReturns` say instead that nothing stops early. `SelfInstall`
always has a next command, and there deadlock is checked.

### Bounds, and why they are enough

* Time in `Executor` is counted in polls of a hold. Guest budgets, the grace and the
  halt's limit are one poll, holds two or three, `Deadline` four: budgets,
  holds and the deadline expire in every order, and in one configuration the deadline
  comes before the barrier's ceiling.
* `Far` is one guest on another host. The estate matters to a hold only as "someone
  it waits for is running"; a guest the routers wait for is the case with two
  answers.
* Readings: `OL`; `OB` while recharging, which is mains back by trend only; `OB`
  draining. Any of them, or none, at each read.
* Two guests in a wave are the smallest wave with a member that ends after another.
* `MaxRuns` bounds the runs that stop something to two, which are a conserve and a
  sleep, two sleeps, or the unit's own sleep after the halt; undo runs are not
  bounded. `MaxTurns` bounds changes of mains and reboots: two for one outage, four
  in `host_live` for a second outage that overtakes the undoing of the first.
* `Estate`: three hosts, so that one can commit while a second abandons and a third is
  late. `Skew`, `StopTime`, `HoldUntil` and `Delay` are the smallest with
  `Skew + StopTime < HoldUntil + Delay` tight (`RoomAssumption`): the last guest stops
  in the very tick before a cut may land. `MaxTurns` 2 is mains back and gone again;
  `MaxClock` 7 lets a cut sent at the last ceiling fall.
* `Nut`: `DialTimeout` 3 and a gate of 3 ticks are the code's own 3 s and 3 s; 5 and 7
  stand for the longer deadlines of the cut and of the whole run. Two endpoints, one
  listed twice, without credentials, or among lines that do not count.
* `SelfInstall`: the four builds are the kinds a tag can say, with units that differ
  between two stable builds and between the channels.
* `Journal`: `MaxRuns` 3 with `MaxOf` two sleeps, one conserve and one undo: a chain of
  runs longer than `Gap` in total, with or without an undo in it. A conserve with a
  wave of two or with two waves, a sleep that notes evidence and may fail. `Gap` and
  `Limit` are both 2, the tightest the assumption allows; `MaxClock` 4 lets a pause longer
  than the gap fall between two runs. `MaxLines` 8 is less than two runs write, so that a
  window cuts one in two. One power cut; `Tick` only while a step is performed or between
  runs, since writing takes no time.
* `MCHost` puts the guest tagged shed in the sequence's wave as well, so that two
  verbs stop it at the same time.

### Fairness

`Executor` assumes only that its process is scheduled (`WF_vars(Walk)`). Every call is
made under a context with a deadline, and `Tick` cannot pass the deadline of a step
that is running, so a step does end. Nothing is assumed of mains, the UPS, the estate
or time.

`Host` assumes each process is scheduled and its calls return, that the kernel queues
those who wait for the undo lock (`SF_vars(TakeUndoLock(v))`: without it a wake could
lose to a conserve started over and over), and that the `cancel` NUT is told to start
starts. Outages, other starts, boots and faults need not happen.
`EverythingComesBack` supposes mains and machine back to stay; without faults the only
thing it excuses is a step whose machine went off before its end was written.

`Estate` assumes that time passes, that a sequence past its hold goes on (`Executor`'s
`RunEnds`), and that the UPS does as it was told. Nothing makes a host begin, a reading
succeed or the listing be renewed: `SequencesEnd` rests on the ceiling alone.
`HaltedComesBack` supposes mains back to stay. `Nut` assumes the process runs and time
passes, and of no upsd or driver that it answers. `SelfInstall` and `Journal` state no
liveness.

## The findings

Each is a run whose property states what a comment or a document says and whose
counterexample is what the code does; `PROJECT.json` quotes the line.

* **The cordon (and noout) an operator set is cleared.** Neither adapter says whether
  it changed anything, so an abandoned sequence uncordons a node that was cordoned
  before it began.
* **A cut lands on a host that gave its guests back.** A host that reaches its ceiling
  sends the cut without reading again. If mains return in that moment, a host still at
  its barrier abandons and starts its guests, and the cut takes their power.
  `SequencesAreSpared`, which holds, is the part of the claim that is true: hosts that
  go through with it are down in time.
* **One dead endpoint can blind the gate.** A dial may take 3 s, the gate has 3 s, and
  the endpoints share them. An endpoint that refuses costs nothing
  (`QuickFailuresCostNothing`); one that swallows packets leaves the next unasked.

Met while modelling, and without a run of its own:

* **A requested shutdown is gated on battery.** `NoGate` follows the reading of the UPS
  and not who asked (`run.go:558`; the comment at 556 says otherwise): the unit's own
  sleep after a power-event halt abandons and undoes when mains return, on a machine
  that is going down.
* **A sleep is refused by an undo.** "Without wait, ok is false only when another
  sequence holds it" (`run.go:473`), but `cancel` and `wake` hold the same lock.
* **A failed wake is final.** `recordUndo` runs whether or not the undos succeeded, so
  wake cannot "simply be run again" (`cryosheep-wake.service`).
* **Worst case without the grace.** `WorstCase` counts budgets; a stop may run
  `ForceStopGrace` longer.
* **An interrupted update does not reload.** An update that was cut off once the new binary was
  in place answers "already on" when it is run again (`cmd/cryosheep/install.go:82`),
  and neither writes nor reloads the units. An install does both.
* **Kubelet and guests on one host.** The unmount commits the sequence before the
  first guest stop, so none is gated (`plan.go:430` says every guest is).
* **The units are those of the running binary.** "`cryosheep install` writes the units
  that match the binary it installs" (`deploy/systemd/units.go:1`), but
  `fetchAndInstall` passes the units embedded in the binary it runs, which an update
  replaces.
* **An order above 99 lies outside every group.** Groups that "cover every order a guest
  could hold" are ranges up to 99 (`plan.go:303`), while Proxmox accepts any order. A
  guest of order 100 is then in no group: it stops before the first of them, whatever
  they say, and no hold waits for it; `PlanProofs!Dependencies` has the range as its hypothesis (`OrdersFit`).
* **A stop that fails after taking effect is not undone.** "And it undoes all of it if
  mains return before the point of no return" (`README.md:53`), but `Run` keeps for
  `reverse` only the steps that returned no error (`execute.go:188`). A guest whose stop
  timed out and that went down all the same stays down when the sequence abandons, and
  since the run is closed as aborted no later undo reads it. `AbortGivesBack` therefore
  says what is true: whatever an abandoned sequence leaves changed has a failed step, or
  a failed undo, on record. It does not say that a failed step left nothing.
* **A rehearsal counts as a shutdown.** A dry run of sleep closes its record complete,
  and `FromAudit` does not tell it from a real one: three rehearsals make a confident
  recommendation.

## The proofs

`ExecutorProofs` proves about `Executor`, for any plans of the planner's shape, any
guests and orders, any readings, any limits, any faults and environment:

| theorem | property |
|---|---|
| `TypeCorrect` | `TypeOK` |
| `InductiveInvariant` | `IInv` |
| `CutWaitsForGuests` | `QuietBeforeTheCut` |
| `AbandonsOnlyReversible` | `AbandonedMeansNothingArmed` |
| `AbandonedRunGivesBack` | `AbortGivesBack` |
| `NooutClearedLast` | `NooutOutlivesTheGuests` |
| `CommitsThroughTheBarrier` | `CommitsTogether` |
| `HonestUpsMainsAlone`, `NoVoltageIsHonest` | `OnlyMainsAbandon`, for a UPS whose readings on battery never look like recovery, and that one reporting no input voltage is such a UPS |
| `ExecutorImplementsCommitment` | `KeepsThePromise` |

Assumptions: the named ones of `Executor` (`JobsAssumption`: plans of `PlanShape`;
`GuestsAssumption`, `LimitsAssumption`), which TLC evaluates on every run, and
`HonestUps` where stated.

The argument. None of the properties is inductive: that the cut waits for the guests
needs that every step before the wave in hand has ended; that an abandoned sequence
left nothing irreversible needs to know which step made which mark; that nothing is
left changed without a failure on record needs to know, at every moment, which step
each change is owed to. `IInv` says those things:

* `StepsEndInOrder`: behind the current wave all has ended, ahead of it nothing began;
* `DoneForReal`: a step is done only by a collaborator that exists, not in a rehearsal;
* `ArmedByAStep`: what cannot be undone comes from an issued step, and an abandoned
  sequence has issued none;
* `UndoneNewestFirst`: undoing is in reverse, and is over when nothing is owed;
* `ChangesAreItsOwn`: a guest that is down, or a mark that was not there before, is the
  work of a step that failed, or of one that was done and not undone since;
* `BarrierFirst`: past its gate a committing wave has been through the barrier.

Each kind of step keeps `IInv` by a lemma of its own (`LoopKeepsIInv`,
`EndWaveKeepsIInv`, `PerformKeepsIInv`, `UndoKeepsIInv`, `ElsewhereKeepsIInv`). For
the refinement each kind of step maps to a step of `Commitment` or a stutter
(`LoopRefines`, `EndWaveRefines`, `PerformRefines`, `UndoRefines`): the one that
needs thought is `EndWave`, where the completed steps of a wave become owed at once,
and `Issue` of the wave at the point of no return, which is the commit.

### The planner

| theorem of `PlanProofs` | property |
|---|---|
| `Shapes` | `PlansHaveTheirShape` |
| `CutThenHalt` | `CutThenHaltEndsThePlan` |
| `StopsOnce` | `EveryRunningGuestStopsOnce` |
| `Dependencies` | `DependenciesStopInOrder`, where `OrdersFit` |
| `HoldsWait` | `HoldsWaitForEarlierGroups` |
| `WavesBounded` | `WavesAreBounded` |
| `WorstCaseHolds` | `WorstCaseIsTheSlowestPath` |

For any hosts, guests, roles, groups and options. `HostsAssumption` says what a host is
and that its hypervisor names no guest twice, `GuestIdsAssumption` that no guest has the
name the host's own steps are filed under. `OrdersFit` is the one hypothesis of a theorem:
every startup order is unset or in 1..99, the range a cover of groups is tested for. It is
needed (see "Met while modelling"); the other six theorems do without it.

Here the invariant is simple (`PlanOfTheHost`: there is no plan yet, or it is the one
`Build` makes of the host) and the work is in what `Build` makes:

* `SortedInTurn`: what `Sorted` gives of a finite set, by counting: the members are as
  many as the places, and no two have as many before them. `StopsInOrder` applies it to
  the guests: `ShutdownOrder` has each running guest once and nobody before one who stops
  before them.
* `TierStarts`, `WavesGrow`, `WavesAreShort`: a tier begins where its first guest stands,
  wave numbers never fall, and a wave has no more guests than the concurrency, since
  `NextMultiple` puts a start within that many places. `TiersNeverMerge`: two guests with
  one who stops before the other are in two waves.
* `BuildInParts`, `StepsRead`: a plan is a prelude, the stops and a coda, and what a step
  is follows from where it stands. The first six theorems are read off from that.
* `LongestIsSlowest`: `WorstCase` is a recursion over the steps, and the property says
  what it comes to. By induction over the steps, with `UpTo` of `SequenceLemmas`: so far
  every path takes at most what the recursion has, and one takes as much (`IsSlowest`); a
  wave more either starts when the one before it is over, which lengthens each path by
  the wave's budget, or at its own hold, which is the start of a longer path
  (`OneWaveMore`). That the recursive functions exist at all is shown first
  (`LongestExists`, `SumExists`). `CommitsHere` has the wave of the barrier.

`Shapes` is what `JobsAssumption` assumes in `ExecutorProofs`: the theorems about the
executor hold of what the planner delivers, and of what `conserve` makes of it (`Shed`).

### The verbs

| theorem of `HostProofs` | property |
|---|---|
| `TypeCorrect` | `TypeOK` |
| `NothingIsForgotten` | `NothingForgotten` |
| `UndoneOnlyOnce` | `UndoneOnce` |

For any finite set of guests, any waves, any number of runs, outages, reboots, and any
faults: the bounds `MaxRuns` and `MaxTurns` are any numbers. `GuestsAssumption` is the only
assumption.

`NothingForgotten` says that what was taken down is in the record an undo would read, in
somebody's hands, or excused. It is not inductive: it does not say that the run on record is
not one that an undo at work is about to settle without having the guest on its list.
`IInv` says who answers for a guest at every moment (`Accounted`): a process that has it in
a wave and has not written its record yet, an undo that has it on its list, a run of the
episode that is not being undone just now, an episode that a long pause ended, or one of the
reasons the code has to give up. What carries that from step to step:

* `LocksHeld`: a verb is where it needs a lock only with the lock. That makes undos and
  sequences exclude one another where the code says they do: an undo at work holds both;
* `OwnRun`: the run of a sequence at work is open and no undo follows it. Together with
  the locks it gives that a sequence never records into an episode somebody else is
  undoing;
* `ReversesItsRun`, `UndoesTheEpisode`: what is on an undo's list comes from the runs it
  will settle;
* `SettledIsOver`, `UndosApart`: a settled run reads so, and an undo is of an episode that
  was not empty. `UndoneOnce` rests on these and the locks.

Most of the length is in how the journal changes: a run opened, a record added, a run
closed, an undo recorded each change `Episode` in one way (a run more, the same runs, or
none at all), and each is a lemma; `SequenceLemmas` has what those need about sequences
(appending, replacing one element, mapping, concatenating).

### The journal

| theorem of `JournalProofs` | property |
|---|---|
| `TypeCorrect` | `TypeOK` |
| `Announced` | `NothingActsUnannounced` |
| `RecordIsSound` | `IInv /\ RecordInv` |
| `CutIsCut` | `CutReadsAsCut` |
| `UndoFinds` | `UndoFindsTheOutage` |
| `ThresholdCovers` | `ThresholdCoversEveryRun` |

For any jobs, any number of runs, any window, margin and floor, and any `Limit` up to
`Gap`. `Announced` is of steps performed; `AnnouncedOnDisk` says it of every step
announced, which is earlier, and `RunsInOrder` that the announced steps are those of the
waves up to the one at hand, so that a wave's record cannot be skipped. A power cut keeps
it because it takes only what the disk does not have.

The other three are about reading, and have two halves. What the lines are, at every
moment, is `RecordInv`:

* `LinesTrue`: a line says what is true of its run, and stays so;
* `LinesInTurn`: the lines of one run are in the order in which they were written, and a
  line of a newer run is before one of an older only where the two overlapped, which they
  do for no longer than `Limit` (`RunsSound`);
* `WireOfTheLiving`, `Kept`: what a systemd-cat still holds is of runs at work, and a run
  that was synced, or that came to its end, has every line on the disk.

Each action keeps these by a lemma of its own; a line that is written goes last of its run
(`GoesLast`), and a power cut leaves a first part of what there was. What reading makes of
lines in turn is the other half: `ToldMore` and `CollectMore` take one line further what
`ToldOf` says of a run (its start, its end and its steps are those the lines tell),
`CollectedReads` all of them, `NewestOf` sorts. `WindowIsLast` says that what the window
leaves out may stand before what it has.

* `CutIsCut`: the end of a run is its last line, so that a window with any of its lines
  has the end too, if there is one (`EndRead`).
* `ThresholdCovers`: the durations are sorted (`SortedInTurn`), so that the last is the
  longest; a run whose start the window lost counts like a sleep, which only raises it.
* `UndoFinds`: that nothing else is undone (`NothingElse`) is where the window bites. A run
  that lost its start sorts as the oldest. If an undo or a long pause came after it, the
  runs that began after that did not overlap with it (this is where `Limit` at most `Gap`
  is needed), so their starts are in the window, and they, or the pause before them, end
  the episode before it. With `Limit` above `Gap` the property is false: a conserve at
  work for longer than the gap writes on after a sleep began, and a window that has the
  start of neither cannot tell that they are of two outages. That nothing is
  missing (`NothingMissing`) needs the whole journal in the window; then the order read is
  the order in which the runs began.

### The other components

| theorem | property |
|---|---|
| `EstateProofs!TypeCorrect` | `TypeOK` |
| `EstateProofs!Spared` | `SequencesAreSpared` |
| `EstateProofs!EarlyRelease` | `EarlyMeansEveryone` |
| `NutProofs!TypeCorrect` | `TypeOK` |
| `NutProofs!ReportedIsTaken` | `CutReportedIsTaken` |
| `NutProofs!RepeatedOnlyUnheard` | `CutRepeatedOnlyUnheard` |
| `NutProofs!OneUpsd` | `ReadingOfOneUpsd` |
| `NutProofs!Deadline` | `DeadlineHonoured` |
| `NutProofs!QuickFailures` | `QuickFailuresCostNothing`, where `ReadsHaveTime` |
| `SelfInstallProofs!TypeCorrect` | `TypeOK` |
| `SelfInstallProofs!Armable` | `ArmedCanRun` |
| `SelfInstallProofs!Updates` | `UpdateReachesNewest` |
| `SelfInstallProofs!Installs` | `InstallIsLoaded` |
| `SelfInstallProofs!Removes` | `RemoveLeavesNothing` |

`EstateProofs`, for any number of hosts and any settings that leave room. That the cut
spares every sequence (`SequencesAreSpared`) is not inductive: a cut that is due says
nothing of who sent it or when. `IInv` follows it back: a cut is due no earlier than the
earliest ceiling plus the delay unless every host has stopped (`DueIsLate`), since it
was sent past a barrier that opened for one of those reasons (`BarrierHeld`), and a
listing without guests, however old, is of a time after every stop (`ViewIsPast`,
`GuestsFollow`). With `InTime` and `RoomAssumption` the last guest of a sequence is down
before that. `RoomAssumption` is the one condition on the settings, and the theorem says
that it is enough. `EarlyMeansEveryone` follows from `ViewIsPast`.

`NutProofs`, for any upsds, file and timeouts. `IInv` adds that a cut is dialled for its
first line (`CutStartsOver`), that a reading past its status has it from the endpoint in
use (`StatusComesFirst`), and that a command a driver has, or may yet carry out, is the
one being followed or was not heard out (`Followed`). `ConfsAssumption` says that what
`Monitors` selects is a sequence of lines, which is beyond the provers for `SelectSeq`;
TLC checks it of the files it is given. What quick failures cost has an invariant of its own,
`TimeInv`: time that has passed passed at an endpoint that is slow
(`TimeGoesOnTheSlow`), and no sound endpoint was given up unless one before it was
(`PassedForCause`, `FailedForCause`). `ReadsHaveTime` is its hypothesis: no reading is
asked for with no time at all, which the executor never does (a gate without a timeout
gets 3 s); `CallsAssumption` has the dial timeout positive, as `nut.go:121` makes it.

`SelfInstallProofs`, for any builds and any unit files. `ArmedCanRun` needs that past its
first line an install has a published binary (`BinaryIsFirst`) and a removal has disarmed
(`DisarmedFirst`), that what was fetched was published (`GoalIsPublished`), and that a
removal has no line that arms (`RemoveBegins`). How a command ends is `EndInv`: at each
place in its list, the lines before that place have had their effect (`Found`, `Brought`,
`Updated`, `Cleared`), and the list ends with the reload and the arming, which is why a
command that got to its end leaves systemd with what is on disk, whatever an earlier one
that was cut off had left.

### What is only model-checked

Every invariant and action property that a passing run checks is proved, some under the
hypotheses named above, and so is the refinement. What is left:

* Liveness: `RunEnds`, `VerbsEnd`, `EverythingComesBack`, `SequencesEnd`, `HaltedComesBack`,
  `CallReturns`. The prover has no rule for fairness.

## What is not modelled

* Parsing of what qm, pvesh, kubectl and upsd print, and all wording.
* In `Host`: a sleep started by hand, dry runs, the kubernetes steps (their undo is
  noout's), the remote target, a lock file that cannot be opened (the code then runs
  without it), guests that Proxmox starts by itself at boot (they are then up and
  their undo changes nothing), and the split of the cut from the halt.
* In `Executor`: the conversion of times; a clock that jumps.
* Role detection: three independent queries and no state; the planner is checked over
  the sets of roles they can give. The commands that only print: `status`, `plan`,
  `doctor`, and of calibration the percentiles, the confidence mark and `Feasible`.
* In `Nut`, the branch where tracking was accepted and the command is then answered with
  a plain `OK` (`nut.go:284`): the cut is reported sent without a verdict, as it is with
  tracking off, which is modelled.
* In `SelfInstall`: an update run from a binary other than the installed one (the code
  compares the version of the build that runs, and only looks whether a binary is
  installed, `cmd/cryosheep/install.go:66`); the temporary file that `writeAtomic` leaves
  when it is killed before its rename; and a disk that loses what was renamed, since
  nothing is synced (`selfinstall/install.go:129`). A write counts as durable at the rename.
* The bytes of the NUT protocol, of archives and of HTTP; `Nut` has the lines, `SelfInstall`
  content that is or is not what was published.
* In `Journal`: the lines of a reversal, two power cuts, two runs that start in the same
  nanosecond, a wall clock set back between two runs (they would then sort wrongly).
* In `Estate`: what `Executor` already shows of one sequence, and a host whose mains
  differ from the others'.

## Plan

1. `Steps`, `UpsModel`, `Plan`, `Planner`: the planner. Done, proved.
2. `Executor` with `Commitment`: the sequence and its promise. Done, proved.
3. `Host`: the verbs, the locks and the journal. Done; its safety is proved.
4. `Estate`, `Nut`, `SelfInstall`. Done; their safety is proved.
5. `Journal`. Done, proved.

What is left, in order of importance:

1. That `Estate`'s host is what `Executor` does, seen from outside: a refinement of its
   part of the state.
2. A run of `Host` with a UPS that cannot be read, for the conserve that waited
   behind a cancel.
