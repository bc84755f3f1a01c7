-------------------------------- MODULE Journal --------------------------------
(***************************************************************************)
(* The record of what the runs of one host did, and what is read back of   *)
(* it: src/src/audit/audit.go, read.go and src/src/calibrate/calibrate.go. *)
(*                                                                         *)
(* A run writes a line when it starts, when each step starts and ends, and *)
(* when it ends, and syncs journald after each. A run that systemd started *)
(* writes to journald; one started by hand writes to a systemd-cat, which  *)
(* passes the lines on when it gets to them. Power may go at any moment,   *)
(* and takes what the disk does not have.                                  *)
(*                                                                         *)
(* Reading takes the last lines of the journal, puts the runs together     *)
(* again, finds the episode an undo is to reverse, and the times that      *)
(* calibration goes by.                                                    *)
(***************************************************************************)
EXTENDS Sorting, SequencesExt

CONSTANTS
  Jobs,      \* the runs there may be: see JobType
  MaxLines,  \* how far back a read goes
  Gap,       \* episodeGap
  Limit,     \* the longest a run is at work: sequenceTimeout, and conserve's own
  Margin,    \* the margin of a recommendation, as a fraction <<of, in>>
  Floor,     \* never recommend below this
  MaxRuns, MaxOf, MaxClock   \* bounds: on the runs, on those of each verb, on time

Undoers == {"cancel", "wake"}

\* waves: how many steps each has. note: its first step attaches evidence to its line.
\* hand: it was started from a shell. fails: its steps may.
\* busy: journald may be too busy to sync for it.
JobType == [verb : {"conserve", "sleep"} \union Undoers, waves : Seq(Nat \ {0}),
            note : BOOLEAN, hand : BOOLEAN, fails : BOOLEAN, busy : BOOLEAN]

ASSUME JobsAssumption ==
  Jobs \subseteq JobType /\ \A job \in Jobs : job.verb \in Undoers => job.waves = <<>>
ASSUME NumbersAssumption ==
  /\ MaxLines \in Nat \ {0} /\ Gap \in Nat /\ Floor \in Nat
  /\ Limit \in 0..Gap
  /\ Margin \in Nat \X (Nat \ {0})
  /\ MaxRuns \in Nat /\ MaxOf \in [{"conserve", "sleep"} \union Undoers -> Nat] /\ MaxClock \in Nat

VARIABLES
  clock,
  runs,     \* what really happened, oldest first
  wire,     \* lines a systemd-cat has yet to pass on
  memory,   \* lines journald has and the disk has not
  disk,
  unsynced  \* history: runs that went on after a sync that failed

lines == <<wire, memory, disk, unsynced>>
vars == <<clock, runs, lines>>

\* What is only skipped has nobody to act on, and is not undone either.
Outcomes == {"done", "failed"}

\* announced, ended: how many steps had their line; acted: the outcome of each step that
\* was performed; wave: how many waves are over.
RunType == [job : Jobs, began : Nat, alive : BOOLEAN, wave : Nat,
            announced : Nat, acted : Seq(Outcomes \union {""}), ended : Nat,
            ending : {"", "complete", "aborted"}, took : Nat]

\* is: the verb of a run that starts, the outcome of a step, how a run ended.
LineType == [run : Nat, ev : {"run.start", "step.start", "note", "step.end", "run.end"},
             step : Nat, time : Nat,
             is : {"", "conserve", "sleep", "complete", "aborted"} \union Undoers \union Outcomes]

TypeOK ==
  /\ clock \in 0..MaxClock
  /\ runs \in Seq(RunType) /\ Len(runs) <= MaxRuns
  /\ wire \in Seq(LineType) /\ memory \in Seq(LineType) /\ disk \in Seq(LineType)
  /\ unsynced \subseteq DOMAIN runs

Init ==
  /\ clock = 0 /\ runs = <<>>
  /\ wire = <<>> /\ memory = <<>> /\ disk = <<>> /\ unsynced = {}

-----------------------------------------------------------------------------
(***************************************************************************)
(* Writing.                                                                *)
(***************************************************************************)
Line(r, ev, step, is, time) == [run |-> r, ev |-> ev, step |-> step, is |-> is, time |-> time]

\* Mutant: the sync comes first.
SyncThenWrite(r, job, line) ==
  /\ disk' = disk \o memory
  /\ wire' = IF job.hand THEN Append(wire, line) ELSE wire
  /\ memory' = IF job.hand THEN <<>> ELSE <<line>>
  /\ UNCHANGED unsynced

\* A line, then a sync, whose failure is not fatal. What is still on its way through a
\* systemd-cat is not synced.
Write(r, job, line) ==
  LET held == IF job.hand THEN memory ELSE Append(memory, line) IN
  /\ wire' = IF job.hand THEN Append(wire, line) ELSE wire
  /\ \/ disk' = disk \o held /\ memory' = <<>> /\ UNCHANGED unsynced
     \/ job.busy /\ memory' = held /\ unsynced' = unsynced \union {r} /\ UNCHANGED disk

Alive(r) == runs[r].alive
Waves(r) == runs[r].job.waves
Hand(r) == runs[r].job.hand

\* conserve and sleep may overlap; cancel and wake wait for both, and one another.
MayRunWith(job, other) == {job.verb, other.verb} = {"conserve", "sleep"}

\* Time may pass for every run at work.
InTime == \A r \in DOMAIN runs : Alive(r) => clock < runs[r].began + Limit

\* No two runs start at the same nanosecond.
Open(job) ==
  /\ Len(runs) < MaxRuns /\ clock < MaxClock /\ InTime
  /\ Cardinality({r \in DOMAIN runs : runs[r].job.verb = job.verb}) < MaxOf[job.verb]
  /\ \A r \in DOMAIN runs : Alive(r) => MayRunWith(job, runs[r].job)
  /\ clock' = clock + 1
  /\ runs' = Append(runs, [job |-> job, began |-> clock', alive |-> TRUE, wave |-> 0,
                           announced |-> 0, acted |-> <<>>, ended |-> 0,
                           ending |-> "", took |-> 0])
  /\ Write(Len(runs) + 1, job,
           Line(Len(runs) + 1, "run.start", 0, job.verb, clock'))

InWave(r) == Alive(r) /\ runs[r].wave < Len(Waves(r))

\* The steps up to and with those of the wave under way.
ThisFar(r) == LET upTo[k \in 0..Len(Waves(r))] ==
                    IF k = 0 THEN 0 ELSE upTo[k - 1] + Waves(r)[k]
              IN  upTo[runs[r].wave + 1]

\* Every step of a wave is announced before any is performed.
StepStart(r) ==
  /\ InWave(r) /\ runs[r].announced < ThisFar(r)
  /\ runs' = [runs EXCEPT ![r].announced = @ + 1, ![r].acted = Append(@, "")]
  /\ Write(r, runs[r].job, Line(r, "step.start", runs[r].announced + 1, "", clock))
  /\ UNCHANGED clock

Performs(r, k) ==
  /\ InWave(r) /\ runs[r].announced = ThisFar(r)
  /\ k \in DOMAIN runs[r].acted /\ runs[r].acted[k] = ""

\* A step that gathers evidence notes it before it is done.
Perform(r, k) ==
  /\ Performs(r, k)
  /\ \E outcome \in Outcomes :
       /\ outcome # "done" => runs[r].job.fails
       /\ runs' = [runs EXCEPT ![r].acted[k] = outcome]
       /\ IF runs[r].job.note /\ k = 1 /\ outcome = "done"
          THEN Write(r, runs[r].job, Line(r, "note", k, "", clock))
          ELSE UNCHANGED lines
  /\ UNCHANGED clock

\* The ends of a wave are written in order, when all of it is done.
StepEnd(r) ==
  /\ InWave(r) /\ runs[r].announced = ThisFar(r)
  /\ \A k \in DOMAIN runs[r].acted : runs[r].acted[k] # ""
  /\ LET k == runs[r].ended + 1 IN
       /\ runs' = [runs EXCEPT ![r].ended = k,
                               ![r].wave = IF k = ThisFar(r) THEN @ + 1 ELSE @]
       /\ Write(r, runs[r].job, Line(r, "step.end", k, runs[r].acted[k], clock))
  /\ UNCHANGED clock

\* Mutant: the difference is taken the wrong way round.
TookBackwards(r) == runs[r].began - clock

Took(r) == clock - runs[r].began

\* A sequence ends complete, or is abandoned before a wave. The pipe of a run started
\* by hand is drained before the last sync.
Close(r) ==
  /\ Alive(r) /\ runs[r].announced = runs[r].ended
  /\ \E ending \in {"complete", "aborted"} :
       /\ ending = "complete" <=> ~InWave(r)
       /\ LET took == Took(r) IN
            /\ runs' = [runs EXCEPT ![r].alive = FALSE, ![r].ending = ending, ![r].took = took]
            /\ IF Hand(r)
               THEN /\ wire' = <<>>
                    /\ memory' = <<>>
                    /\ disk' = disk \o memory \o wire \o <<Line(r, "run.end", 0, ending, took)>>
                    /\ UNCHANGED unsynced
               ELSE Write(r, runs[r].job, Line(r, "run.end", 0, ending, took))
  /\ UNCHANGED clock

-----------------------------------------------------------------------------
(***************************************************************************)
(* What happens around it.                                                 *)
(***************************************************************************)
PassOn ==
  /\ wire # <<>>
  /\ memory' = Append(memory, Head(wire)) /\ wire' = Tail(wire)
  /\ UNCHANGED <<clock, runs, disk, unsynced>>

\* Time passes while a step is performed, and between runs; writing takes none.
Tick ==
  /\ clock < MaxClock /\ InTime
  /\ \A r \in DOMAIN runs : Alive(r) => \E k \in DOMAIN runs[r].acted : Performs(r, k)
  /\ clock' = clock + 1
  /\ UNCHANGED <<runs, lines>>

AllEnd == [r \in DOMAIN runs |-> [runs[r] EXCEPT !.alive = FALSE]]

\* The power goes, once as a bound. Of what was not on the disk, some may have been.
PowerGoes ==
  /\ \E r \in DOMAIN runs : Alive(r)
  /\ \A r \in DOMAIN runs : Alive(r) \/ runs[r].ending # ""
  /\ \E k \in 0..Len(memory) : disk' = disk \o SubSeq(memory, 1, k)
  /\ runs' = AllEnd /\ memory' = <<>> /\ wire' = <<>>
  /\ UNCHANGED <<clock, unsynced>>

Run(r) == StepStart(r) \/ StepEnd(r) \/ Close(r) \/ \E k \in DOMAIN runs[r].acted : Perform(r, k)

Next == PassOn \/ Tick \/ PowerGoes
          \/ (\E job \in Jobs : Open(job)) \/ \E r \in DOMAIN runs : Run(r)

Spec == Init /\ [][Next]_vars

-----------------------------------------------------------------------------
(***************************************************************************)
(* Reading: parseRuns. A run whose first line is not in the window has no  *)
(* start and no verb. The lines of a reversal, which no reader asks for,   *)
(* are left out.                                                           *)
(***************************************************************************)
LongAgo == -Gap - 1

\* The journal a reader sees, and the part of it that it reads.
Text == disk \o memory
Window == IF Len(Text) <= MaxLines THEN Text ELSE SubSeq(Text, Len(Text) - MaxLines + 1, Len(Text))

Unknown(id) == [id |-> id, verb |-> "", began |-> LongAgo, took |-> 0, ending |-> "",
                steps |-> <<>>]
NoStep == [action |-> FALSE, outcome |-> "", finished |-> FALSE]

\* A note is not the end of its step.
AfterLine(step, line) ==
  IF line.ev = "note" THEN step
  ELSE [step EXCEPT !.outcome = line.is, !.finished = TRUE]

\* What one line adds to the run it is of.
Told(run, line) ==
  CASE line.ev = "run.start" -> [run EXCEPT !.began = line.time, !.verb = line.is]
    [] line.ev = "step.start" ->
         [run EXCEPT !.steps =
            [k \in 1..(IF Len(@) < line.step THEN line.step ELSE Len(@)) |->
               IF k = line.step THEN [NoStep EXCEPT !.action = TRUE]
               ELSE IF k <= Len(@) THEN @[k] ELSE NoStep]]
    [] line.ev \in {"note", "step.end"} ->
         IF line.step \notin DOMAIN run.steps THEN run
         ELSE [run EXCEPT !.steps[line.step] = AfterLine(@, line)]
    [] OTHER -> [run EXCEPT !.ending = line.is, !.took = line.time]

\* Runs in the order their first lines are found.
Collect(read, line) ==
  LET known == {i \in DOMAIN read : read[i].id = line.run} IN
  IF known = {} THEN Append(read, Told(Unknown(line.run), line))
  ELSE [i \in DOMAIN read |-> IF i \in known THEN Told(read[i], line) ELSE read[i]]

Collected(text) ==
  LET upTo[n \in 0..Len(text)] == IF n = 0 THEN <<>> ELSE Collect(upTo[n - 1], text[n])
  IN  upTo[Len(text)]

\* Newest first; where there is no telling, in the order found.
NewestFirst(read) ==
  LET before == [i \in DOMAIN read |-> {j \in DOMAIN read :
        \/ read[j].began > read[i].began
        \/ read[j].began = read[i].began /\ j < i}]
      order == Sorted(DOMAIN read, before)
  IN  [k \in DOMAIN order |-> read[order[k]]]

LoadRuns == NewestFirst(Collected(Window))

\* Mutant: only a step cut short tells a run that was.
StepCutShort(run) == /\ run.ending = ""
                     /\ \E k \in DOMAIN run.steps : ~run.steps[k].finished

\* A run stopped without finishing.
WasCut(run) ==
  /\ run.ending = ""
  /\ (\E k \in DOMAIN run.steps : ~run.steps[k].finished) \/ run.took = 0

\* Mutant: every run is measured from the newest.
FarFromNewest(read, i) == i > 1 /\ read[1].began - read[i].began > Gap

\* A pause that ends the episode.
FarApart(read, i) == i > 1 /\ read[i - 1].began - read[i].began > Gap

\* The newest run and those that led up to it.
Episode(read) ==
  LET ends == {i \in DOMAIN read : read[i].verb \in Undoers \/ FarApart(read, i)}
  IN  {read[i] : i \in {i \in DOMAIN read : /\ \A j \in ends : i < j
                                            /\ read[i].ending # "aborted"}}

\* What an undo of it reverses: the steps that ended as done.
Completed(run) == {k \in DOMAIN run.steps : run.steps[k].action /\ run.steps[k].outcome = "done"}

Undoes(read) == UNION {{<<run.id, k>> : k \in Completed(run)} : run \in Episode(read)}

-----------------------------------------------------------------------------
(***************************************************************************)
(* Calibration.                                                            *)
(***************************************************************************)
\* Durations of the completed sleeps, shortest first.
Durations(read) ==
  LET timed == {i \in DOMAIN read : /\ read[i].verb \in {"sleep", ""}
                                    /\ read[i].ending = "complete" /\ read[i].took > 0}
      before == [i \in timed |-> {j \in timed :
        \/ read[j].took < read[i].took
        \/ read[j].took = read[i].took /\ j < i}]
      order == Sorted(timed, before)
  IN  [k \in DOMAIN order |-> read[order[k]].took]

\* The basis is the worst run seen.
Basis(ds) == ds[Len(ds)]

\* Mutant: the margin is left out.
NoMargin(ds) == Basis(ds)

\* The basis with the margin on top, to the nearest unit, and never below the floor.
Measured(ds) == (2 * Basis(ds) * (Margin[1] + Margin[2]) + Margin[2]) \div (2 * Margin[2])

Recommended(ds) == IF ds = <<>> \/ Measured(ds) < Floor THEN Floor ELSE Measured(ds)
-----------------------------------------------------------------------------
(***************************************************************************)
(* Properties.                                                             *)
(***************************************************************************)
\* "a machine that loses power before the first step still leaves evidence", and "what
\* was it doing when the power went" has an answer (audit.go:113, :178): whenever the
\* power goes, the disk has the start of every step that was performed, unless a sync
\* failed or the run was started by hand.
NothingActsUnannounced ==
  \A r \in DOMAIN runs : r \notin unsynced /\ ~Hand(r) =>
    \A k \in DOMAIN runs[r].acted : runs[r].acted[k] # "" =>
      \E i \in DOMAIN disk : disk[i].run = r /\ disk[i].ev = "step.start" /\ disk[i].step = k

ReadWhole(r) == \E i \in DOMAIN Window : Window[i].run = r /\ Window[i].ev = "run.start"

\* A run that is over reads as cut exactly if it never came to its end, wherever the
\* power went, between two steps as well as in one.
CutReadsAsCut ==
  \A run \in ToSet(LoadRuns) :
    ReadWhole(run.id) /\ ~Alive(run.id) /\ run.id \notin unsynced =>
      (WasCut(run) <=> runs[run.id].ending = "")

AllRecorded == unsynced = {} /\ \A r \in DOMAIN runs : Hand(r) => runs[r].ending # ""

\* What really belongs to the outage: the runs since the last undo and the last pause.
Outage == {r \in DOMAIN runs :
  /\ runs[r].ending # "aborted"
  /\ \A j \in r..Len(runs) : runs[j].job.verb \notin Undoers
  /\ \A j \in (r + 1)..Len(runs) : runs[j].began - runs[j - 1].began <= Gap}

TookDown == UNION {{<<r, k>> : k \in {k \in 1..runs[r].ended : runs[r].acted[k] = "done"}} : r \in Outage}

\* An undo reverses what the runs of the outage completed, all of it and no step of an
\* older run, of one already undone or of one that reversed itself, however conserve
\* and sleep wrote through each other and wherever the power went. A window too short
\* to hold the runs may lose some, and adds none.
UndoFindsTheOutage ==
  AllRecorded /\ (\A r \in DOMAIN runs : ~Alive(r)) =>
    LET undoes == Undoes(LoadRuns) IN
      /\ undoes \subseteq TookDown
      /\ Len(Text) <= MaxLines => TookDown \subseteq undoes

\* What is left of the threshold is the margin, give or take the rounding.
LeavesMargin(low, took) ==
  2 * Margin[2] * low >= 2 * took * (Margin[1] + Margin[2]) - Margin[2]

\* The threshold holds on a bad day: every sleep that was read back whole would have
\* fitted in it with the margin to spare.
ThresholdCoversEveryRun ==
  LET read == LoadRuns
      low == Recommended(Durations(read))
  IN  \A run \in ToSet(read) :
        runs[run.id].job.verb = "sleep" /\ run.ending = "complete" /\ run.took > 0 =>
          LeavesMargin(low, runs[run.id].took)
=============================================================================
