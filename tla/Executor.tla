------------------------------ MODULE Executor ------------------------------
(***************************************************************************)
(* Walking one plan: src/src/execute/execute.go.                           *)
(*                                                                         *)
(* For each wave: the hold its steps carry, the gate that re-reads the     *)
(* UPS, once the barrier before the first committing wave, then every step *)
(* of the wave at once. Mains seen back at a gate or during a hold         *)
(* abandons the sequence and undoes its completed steps, newest first.     *)
(*                                                                         *)
(* The environment is the utility power, the guests of the other hosts     *)
(* that share the storage, and every way a call can fail. One tick of      *)
(* clock is one poll interval of a hold.                                   *)
(***************************************************************************)
EXTENDS Steps, UpsModel

CONSTANTS
  Jobs,            \* the plans that may be run, with how: see JobType
  MaxSteps,        \* no plan is longer
  Guests,          \* guests of the whole estate
  Far,             \* those on the other hosts
  Order,           \* startup order of each guest
  SamplesOn,       \* readings the UPS may give with utility power present
  SamplesOff,      \* ... and without it
  Deadline,        \* the sequence's own time limit
  ForceStopGrace,  \* how far past its budget a guest stop may run
  HaltTimeout      \* the limit of the cut and of the halt

\* The effects that belong to the whole host, not to one guest, and can be undone.
HostMarks == {Noout, CordonNode}

GroupType == [lo : Int, hi : Int, notBefore : Nat]

StepType == [action : Action, target : Guests \union {ThisHost}, reversible : BOOLEAN,
             wave : Nat, timeout : Nat, notBefore : Nat, clears : Seq(GroupType)]

\* holdUntil is the barrier; gated is ~NoGate; dryRun performs nothing; ups and
\* estate say whether those collaborators exist; kit is the actions that have one;
\* prior is the marks an operator had set on the host beforehand.
JobType == [steps : Seq(StepType), holdUntil : Nat, gated : BOOLEAN, dryRun : BOOLEAN,
            ups : BOOLEAN, estate : BOOLEAN, kit : SUBSET Action, prior : SUBSET HostMarks]

ASSUME JobsAssumption ==
  /\ MaxSteps \in Nat
  /\ Jobs \subseteq JobType
  /\ \A j \in Jobs : PlanShape(j.steps) /\ Len(j.steps) <= MaxSteps
ASSUME GuestsAssumption ==
  /\ ThisHost \notin Guests /\ Order \in [Guests -> Int] /\ Far \subseteq Guests
  /\ \A j \in Jobs : \A i \in DOMAIN j.steps : j.steps[i].target \notin Far
ASSUME LimitsAssumption ==
  Deadline \in Nat /\ ForceStopGrace \in Nat /\ HaltTimeout \in Nat

VARIABLES
  job,       \* the plan being run; never changes
  pc,        \* hold, gate, barrier, issue, wave, reverse, completed, aborted
  at,        \* first step of the current wave
  served,    \* whether the barrier has been held
  model,     \* the UPS readings so far
  outcome,   \* per step: "", done, failed, skipped
  undo,      \* per step: "", done, failed
  clock,     \* time since the sequence began
  issuedAt,  \* when the current wave was issued
  mains,     \* utility power is present
  up,        \* guests running anywhere in the estate
  marks      \* host-wide effects in force, by the action that makes them

world == <<mains, up, marks>>
progress == <<job, at, served, outcome, undo, issuedAt>>
vars == <<job, pc, at, served, model, outcome, undo, clock, issuedAt, mains, up, marks>>

steps == job.steps
Wave == WaveFrom(steps, at)
Targets(j) == {j.steps[i].target : i \in DOMAIN j.steps} \ {ThisHost}

AnySample == SamplesOn \union SamplesOff \union {NoSample}
ModelType == [last : AnySample, prev : AnySample, seen : 0..2]

Outcomes == {"", "done", "failed", "skipped"}

TypeOK ==
  /\ job \in Jobs
  /\ pc \in {"hold", "gate", "barrier", "issue", "wave", "reverse", "completed", "aborted"}
  /\ at \in 1..(Len(steps) + 1)
  /\ served \in BOOLEAN
  /\ model \in ModelType
  /\ outcome \in [DOMAIN steps -> Outcomes]
  /\ undo \in [DOMAIN steps -> {"", "done", "failed"}]
  /\ clock \in Nat /\ issuedAt \in Nat
  /\ mains \in BOOLEAN
  /\ up \subseteq Guests
  /\ marks \subseteq Action

-----------------------------------------------------------------------------
\* Where the loop over waves enters the wave that begins at `first`.
Enter(s, first) ==
  IF first > Len(s) THEN "completed"
  ELSE IF s[first].notBefore > 0 THEN "hold" ELSE "gate"

Init ==
  /\ job \in Jobs
  /\ pc = Enter(steps, 1) /\ at = 1
  /\ served = FALSE
  /\ model = EmptyModel
  /\ outcome = [i \in DOMAIN steps |-> ""]
  /\ undo = [i \in DOMAIN steps |-> ""]
  /\ clock = 0 /\ issuedAt = 0
  /\ mains \in BOOLEAN
  /\ up \in {Targets(job) \union f : f \in SUBSET Far}
  /\ marks = job.prior

-----------------------------------------------------------------------------
(***************************************************************************)
(* Reading the UPS. A read can always fail, and does once the sequence's   *)
(* time is up; only a reading that came back can say that mains are back.  *)
(***************************************************************************)
Expired == clock >= Deadline

\* Mutant: the gates go on after the sequence has committed.
GatingForever == job.gated

Gating == job.gated /\ ~Committed(steps, at)

Readings == IF ~job.ups \/ Expired THEN {} ELSE IF mains THEN SamplesOn ELSE SamplesOff

SeesMainsBack == \E s \in Readings : model' = Observe(model, s) /\ MainsBack(model')

SeesNothingNew ==
  \/ UNCHANGED model
  \/ \E s \in Readings : model' = Observe(model, s) /\ ~MainsBack(model')

Abandon == pc' = "reverse"

-----------------------------------------------------------------------------
(***************************************************************************)
(* Holds. A wave's own hold waits for the groups it clears, the barrier    *)
(* for every guest of the estate; neither outlasts its ceiling or the      *)
(* sequence. An estate that cannot be read is not clear.                   *)
(***************************************************************************)
Ceiling == IF pc = "hold" THEN steps[at].notBefore ELSE job.holdUntil

WaitsFor(g) == pc = "barrier" \/ Covers(steps[at].clears, Order[g])

\* Mutant: the guests an estate that did not answer would have named are not there.
EstateAnswered == job.estate /\ ~Expired /\ (pc = "barrier" \/ steps[at].clears # <<>>)

EstateClear ==
  /\ job.estate /\ ~Expired
  /\ pc = "barrier" \/ steps[at].clears # <<>>
  /\ \A g \in up : ~WaitsFor(g)

Release ==
  /\ pc' = IF pc = "hold" THEN "gate" ELSE "issue"
  /\ served' = (served \/ pc = "barrier")

HoldOver ==
  /\ pc \in {"hold", "barrier"}
  /\ clock >= Ceiling
  /\ Release
  /\ UNCHANGED <<job, at, model, outcome, undo, clock, issuedAt, world>>

\* One poll that finds mains back.
HoldSeesMains ==
  /\ pc \in {"hold", "barrier"}
  /\ clock < Ceiling
  /\ Gating /\ SeesMainsBack
  /\ Abandon
  /\ UNCHANGED <<progress, clock, world>>

\* One poll that does not: the hold releases early, or waits one interval more
\* if the sequence has any time left to wait in.
HoldPolls ==
  /\ pc \in {"hold", "barrier"}
  /\ clock < Ceiling
  /\ IF Gating THEN SeesNothingNew ELSE UNCHANGED model
  /\ \/ (EstateClear \/ Expired) /\ Release /\ UNCHANGED clock
     \/ /\ ~Expired
        /\ clock' = clock + 1
        /\ IF clock' >= Ceiling \/ clock' >= Deadline
           THEN Release ELSE UNCHANGED <<pc, served>>
  /\ UNCHANGED <<job, at, outcome, undo, issuedAt, world>>

-----------------------------------------------------------------------------
(***************************************************************************)
(* The gate, once per wave.                                                *)
(***************************************************************************)
GateSeesMains ==
  /\ pc = "gate"
  /\ Gating /\ SeesMainsBack
  /\ Abandon
  /\ UNCHANGED <<progress, clock, world>>

NeedsBarrier == ~served /\ job.holdUntil > 0 /\ Committing(steps, at)

GatePasses ==
  /\ pc = "gate"
  /\ IF Gating THEN SeesNothingNew ELSE UNCHANGED model
  /\ pc' = IF NeedsBarrier THEN "barrier" ELSE "issue"
  /\ UNCHANGED <<progress, clock, world>>

-----------------------------------------------------------------------------
(***************************************************************************)
(* A wave. Its steps are issued together and run concurrently; the next    *)
(* wave waits for all of them.                                             *)
(***************************************************************************)
Issue ==
  /\ pc = "issue"
  /\ pc' = "wave" /\ issuedAt' = clock
  /\ UNCHANGED <<job, at, served, model, outcome, undo, clock, world>>

Flying == {i \in Wave : pc = "wave" /\ outcome[i] = ""}

\* The cut and the halt run detached from the sequence's time limit.
Detached(i) == steps[i].action \in {UpsCut, HostHalt}

Sooner(a, b) == IF a <= b THEN a ELSE b

\* Nothing is performed without a collaborator, nor on a dry run; the quorum
\* record is a read, which a dry run makes too.
Skips(i) ==
  \/ steps[i].action \notin job.kit
  \/ job.dryRun /\ steps[i].action # QuorumNote

\* No step outlives its context: a guest's budget and grace, the halt's own
\* limit, otherwise what is left of the sequence.
DueBy(i) ==
  IF Skips(i) THEN issuedAt
  ELSE IF Detached(i) THEN issuedAt + HaltTimeout
  ELSE IF steps[i].action = GuestStop /\ steps[i].timeout > 0
       THEN Sooner(issuedAt + steps[i].timeout + ForceStopGrace, Deadline)
       ELSE Deadline

TakesEffect(i) ==
  CASE steps[i].action = GuestStop  -> up' = up \ {steps[i].target} /\ UNCHANGED marks
    [] steps[i].action = QuorumNote -> UNCHANGED <<up, marks>>
    [] OTHER -> marks' = marks \union {steps[i].action} /\ UNCHANGED up

Ends(i, result) == outcome' = [outcome EXCEPT ![i] = result]

\* A call whose time is up before it starts does nothing; one that fails may
\* have taken effect before it failed.
Perform(i) ==
  /\ i \in Flying
  /\ \/ Skips(i) /\ Ends(i, "skipped") /\ UNCHANGED <<up, marks>>
     \/ /\ ~Skips(i)
        /\ Detached(i) \/ ~Expired
        /\ Ends(i, "done") /\ TakesEffect(i)
     \/ /\ ~Skips(i)
        /\ Ends(i, "failed")
        /\ \/ UNCHANGED <<up, marks>>
           \/ (Detached(i) \/ issuedAt < Deadline) /\ TakesEffect(i)
  /\ UNCHANGED <<job, pc, at, served, model, undo, clock, issuedAt, mains>>

\* Mutant: the wave is over when its first step is.
FirstOfWaveOver == \E i \in Wave : outcome[i] # ""

WaveOver == Flying = {}

EndWave ==
  /\ pc = "wave" /\ WaveOver
  /\ \E next \in (at + 1)..(Len(steps) + 1) :
       /\ Wave = at..(next - 1)
       /\ at' = next
       /\ pc' = Enter(steps, next)
  /\ UNCHANGED <<job, served, model, outcome, undo, clock, issuedAt, world>>

\* Time passes while a wave runs or is undone, never past a running step's limit.
Tick ==
  /\ \/ Flying # {} /\ \A i \in Flying : clock < DueBy(i)
     \/ pc = "reverse" /\ ~Expired
  /\ clock' = clock + 1
  /\ UNCHANGED <<progress, pc, model, world>>

-----------------------------------------------------------------------------
(***************************************************************************)
(* Undoing, newest first, only what this run completed. A failed undo is   *)
(* recorded and passed over.                                               *)
(***************************************************************************)
Undoable == HostMarks \union {GuestStop}

Completed(i) == i < at /\ outcome[i] \in {"done", "skipped"}

\* Mutants: the loop over completed steps stops one short of the oldest; a failed
\* undo is tried again.
OwedButTheOldest == {i \in DOMAIN steps :
  i > 1 /\ Completed(i) /\ undo[i] = "" /\ steps[i].action \in Undoable \intersect job.kit}
OwedUntilDone == {i \in DOMAIN steps :
  Completed(i) /\ undo[i] # "done" /\ steps[i].action \in Undoable \intersect job.kit}

Owed == {i \in DOMAIN steps :
           /\ Completed(i) /\ undo[i] = ""
           /\ steps[i].action \in Undoable \intersect job.kit}

\* Mutant: every undo starts the step's target as if it were a guest.
StartsTarget(i) == up' = up \union {steps[i].target} /\ UNCHANGED marks

IsGivenBack(i) ==
  IF job.dryRun THEN UNCHANGED <<up, marks>>
  ELSE IF steps[i].action = GuestStop
       THEN up' = up \union {steps[i].target} /\ UNCHANGED marks
       ELSE marks' = marks \ {steps[i].action} /\ UNCHANGED up

\* Mutant: oldest first.
OldestToUndo(i) == i \in Owed /\ \A j \in Owed : i <= j

NextToUndo(i) == i \in Owed /\ \A j \in Owed : j <= i

Undo(i) ==
  /\ pc = "reverse"
  /\ NextToUndo(i)
  /\ \/ /\ job.dryRun \/ ~Expired
        /\ undo' = [undo EXCEPT ![i] = "done"] /\ IsGivenBack(i)
     \/ /\ ~job.dryRun
        /\ undo' = [undo EXCEPT ![i] = "failed"] /\ UNCHANGED <<up, marks>>
  /\ UNCHANGED <<job, pc, at, served, model, outcome, clock, issuedAt, mains>>

Reversed ==
  /\ pc = "reverse" /\ Owed = {}
  /\ pc' = "aborted"
  /\ UNCHANGED <<progress, model, clock, world>>

-----------------------------------------------------------------------------
(***************************************************************************)
(* Everything this host does not decide.                                   *)
(***************************************************************************)
MainsChange ==
  /\ mains' = ~mains
  /\ UNCHANGED <<progress, pc, model, clock, up, marks>>

\* A guest of another host stops, or is started again by that host's reversal.
ElsewhereChange(g) ==
  /\ up' = IF g \in up THEN up \ {g} ELSE up \union {g}
  /\ UNCHANGED <<progress, pc, model, clock, mains, marks>>

-----------------------------------------------------------------------------
Walk ==
  \/ HoldOver \/ HoldSeesMains \/ HoldPolls
  \/ GateSeesMains \/ GatePasses
  \/ Issue \/ EndWave \/ Reversed
  \/ \E i \in DOMAIN steps : Perform(i) \/ Undo(i)

Environment == MainsChange \/ \E g \in Far : ElsewhereChange(g)

Next == Walk \/ Tick \/ Environment

\* The process is scheduled and every call it makes returns by its context's
\* deadline; nothing is assumed of the UPS, the estate or the power.
Spec == Init /\ [][Next]_vars /\ WF_vars(Walk)

-----------------------------------------------------------------------------
(***************************************************************************)
(* Safety.                                                                 *)
(***************************************************************************)
Issued(i) == i < at \/ (pc = "wave" /\ i \in Wave)

\* The output is never armed to drop, nor the machine told to halt, while any
\* guest stop of the plan has yet to end: a guest of the last wave included, and
\* one that hangs for its whole budget (Run, runWave: a wave is awaited as a set).
QuietBeforeTheCut ==
  \A i, j \in DOMAIN steps :
    Issued(i) /\ Detached(i) /\ steps[j].action = GuestStop => outcome[j] # ""

\* A sequence that abandons has done nothing it cannot undo: no mount released,
\* no cut armed, no halt issued ("the gates stop once committed").
AbandonedMeansNothingArmed ==
  pc \in {"reverse", "aborted"} =>
    /\ \A i \in DOMAIN steps : Issued(i) => steps[i].reversible
    /\ marks \intersect Irreversible = {}

\* The step, or its undo, is recorded as failed.
FailureOnRecord(i) == outcome[i] = "failed" \/ undo[i] = "failed"

\* When an abandoned sequence is over, whatever it leaves changed is owed to a
\* failure on record: for a guest of its plan that is down, and a mark that was
\* not there before, a step of that very kind failed, or the undo of one did.
\* Nothing is left behind in silence, and one failure does not cost the others;
\* but a step that failed is not undone, whether it took effect or not (Run keeps
\* for reverse only the steps whose err is nil).
AbortGivesBack ==
  pc = "aborted" =>
    /\ \A g \in Targets(job) \ up :
         \E i \in DOMAIN steps : steps[i].target = g /\ FailureOnRecord(i)
    /\ \A a \in (marks \intersect HostMarks) \ job.prior :
         \E i \in DOMAIN steps : steps[i].action = a /\ FailureOnRecord(i)

\* Rebalancing stays off until the guests have been asked to start again: noout,
\* set first, is cleared last (reverse is last in, first out).
NooutOutlivesTheGuests ==
  pc = "reverse" /\ (\E i \in DOMAIN steps : steps[i].action = Noout /\ undo[i] = "done") =>
    \A j \in Owed : steps[j].action # GuestStop

\* What an operator had already set is still set when a sequence has been
\* abandoned: "must never uncordon it" (docs/design/Architecture.md section 5).
PriorMarksKept ==
  pc = "aborted" => job.prior \subseteq marks

-----------------------------------------------------------------------------
(***************************************************************************)
(* The inductive invariant: what a sequence has left behind it by the time *)
(* it stands at a step.                                                    *)
(***************************************************************************)
\* Every step before the wave in hand has ended, and none after it has begun.
StepsEndInOrder ==
  /\ \A i \in DOMAIN steps : i < at => outcome[i] # ""
  /\ \A i \in DOMAIN steps : outcome[i] # "" => Issued(i)
  /\ pc \in {"hold", "gate", "barrier", "issue", "wave"} => at <= Len(steps)

\* A step is done only by a collaborator that exists, and only for real.
DoneForReal ==
  \A i \in DOMAIN steps : outcome[i] = "done" =>
    /\ steps[i].action \in job.kit
    /\ job.dryRun => steps[i].action = QuorumNote

\* What cannot be undone comes from a step that was issued, and an abandoned
\* sequence has issued none.
ArmedByAStep ==
  /\ \A a \in marks \intersect Irreversible :
       \E i \in DOMAIN steps : Issued(i) /\ steps[i].action = a
  /\ pc \in {"reverse", "aborted"} => ~Committed(steps, at)

\* Undoing begins with the reversal, goes from the newest step to the oldest, and
\* leaves nothing it owes.
UndoneNewestFirst ==
  /\ \A i \in DOMAIN steps : undo[i] # "" =>
       /\ pc \in {"reverse", "aborted"}
       /\ \A j \in Owed : j < i
  /\ pc = "aborted" => Owed = {}

\* What the step did may still be there.
Lasts(i) == outcome[i] = "failed" \/ (outcome[i] = "done" /\ undo[i] # "done")

\* Whatever differs from what the sequence found is the work of a step that failed,
\* or of one that was done and not undone since.
ChangesAreItsOwn ==
  /\ \A g \in Targets(job) \ up :
       \E i \in DOMAIN steps : steps[i].target = g /\ Lasts(i)
  /\ \A a \in (marks \intersect HostMarks) \ job.prior :
       \E i \in DOMAIN steps : steps[i].action = a /\ Lasts(i)

\* Past its gate, a wave that commits has been through the barrier.
BarrierFirst ==
  pc = "issue" /\ job.holdUntil > 0 /\ ~served => ~Committing(steps, at)

IInv ==
  /\ TypeOK /\ StepsEndInOrder /\ DoneForReal
  /\ ArmedByAStep /\ UndoneNewestFirst /\ ChangesAreItsOwn /\ BarrierFirst

-----------------------------------------------------------------------------
(***************************************************************************)
(* Action properties.                                                      *)
(***************************************************************************)
\* Only power that is really there abandons a sequence: never a UPS that cannot
\* be read, never the deadline, never a failed step (mainsBack).
OnlyMainsAbandon == [][pc # "reverse" /\ pc' = "reverse" => mains]_vars

\* The barrier lets the host commit only once its time has come, nothing runs
\* anywhere in the estate, or the sequence has no time left; an estate that
\* cannot be read never shortens it (hold, estateClear).
CommitsTogether ==
  [][/\ ~served /\ served' => \/ clock' >= job.holdUntil
                              \/ clock' >= Deadline
                              \/ up = {}
     /\ pc = "issue" /\ pc' = "wave" /\ job.holdUntil > 0
          => served \/ \A i \in Wave : steps[i].reversible]_vars

-----------------------------------------------------------------------------
(***************************************************************************)
(* Liveness, and the abstract specification.                               *)
(***************************************************************************)
\* Whatever fails, hangs or cannot be read, the sequence reaches an end; if it is
\* not the reversal's, every step of the plan has been tried, the halt included.
RunEnds ==
  <>(\/ pc = "aborted"
     \/ pc = "completed" /\ \A i \in DOMAIN steps : outcome[i] # "")

Phase ==
  CASE pc = "reverse"   -> "returning"
    [] pc = "aborted"   -> "returned"
    [] pc = "completed" -> "slept"
    [] OTHER -> IF \E i \in DOMAIN steps : Issued(i) /\ ~steps[i].reversible
                THEN "committed" ELSE "open"

Promise == INSTANCE Commitment
             WITH Acts <- 1..MaxSteps, phase <- Phase, taken <- Owed,
                  lost <- {i \in DOMAIN steps : undo[i] = "failed"}

\* The executor keeps the promise of Commitment.
KeepsThePromise == Promise!Spec
=============================================================================
