--------------------------------- MODULE Host ---------------------------------
(***************************************************************************)
(* The verbs of one host, each a process of its own that systemd starts at *)
(* most one instance of: src/cmd/cryosheep/run.go, with what they read     *)
(* back of each other from the journal, src/src/audit/read.go.             *)
(*                                                                         *)
(*   conserve  stops the guests tagged shed, once an outage is confirmed   *)
(*   sleep     runs the whole sequence and halts, on a power decision      *)
(*   stasis    the same sequence, asked for by systemd, which halts itself *)
(*   cancel    undoes the episode when mains return                        *)
(*   wake      undoes the episode at boot                                  *)
(*                                                                         *)
(* Two locks order them: conserve, cancel and wake hold the undo lock,     *)
(* sleep, stasis, cancel and wake the sequence lock, which the two that    *)
(* shut down do not wait for. Only the journal outlives a process.         *)
(* A sequence is seen here by what it takes down and what it writes; its   *)
(* holds, barrier and clock are Executor's.                                *)
(***************************************************************************)
EXTENDS Integers, FiniteSets, SequencesExt

CONSTANTS
  Guests,    \* the guests of this host
  ShedTag,   \* those tagged shed
  Tiers,     \* the guests in the waves a sequence stops them in
  Faults,    \* what may go wrong: see FaultsAssumption
  MaxRuns,   \* bound on the runs that stop something
  MaxTurns   \* bound on the changes of utility power and the reboots

Noout == "noout"   \* the one mark of the host itself that outlives a boot
Targets == Guests \union {Noout}

Shutdowns == {"sleep", "stasis"}
Undoers   == {"cancel", "wake"}
Verb      == {"conserve"} \union Shutdowns \union Undoers
Free      == "free"

ASSUME GuestsAssumption ==
  /\ IsFiniteSet(Guests) /\ Noout \notin Guests /\ ShedTag \subseteq Guests
  /\ Tiers \in Seq(Seq(Guests))
\* A call that stops or starts something fails; the UPS, the journal or the guests
\* cannot be read; a run starts more than episodeGap after the one before; a
\* process is killed; an operator reboots the machine.
ASSUME FaultsAssumption ==
  Faults \subseteq {"stop", "start", "blind", "journal", "listing", "gap", "kill", "reboot"}
ASSUME BoundsAssumption == MaxRuns \in Nat /\ MaxTurns \in Nat

VARIABLES
  mains,      \* utility power is present
  turns,      \* changes of power and reboots so far
  host,       \* on, stopping, off
  online,     \* mains are back and NUT has yet to start cancel
  down,       \* guests that are stopped, and Noout when it is set
  undoLock, sleepLock,
  proc,       \* per verb, where its process is and what it holds in memory
  journal,    \* runs, oldest first
  owed,       \* history: what CryoSheep took down and has not given back
  lapsed,     \* history: of it, what no line says was done
  failed,     \* history: of it, what an undo tried to give back and could not
  settled     \* history: runs that an undo has been through to its end

locks == <<undoLock, sleepLock>>
power == <<mains, turns, host, online>>
debts == <<owed, lapsed, failed, settled>>
vars == <<power, down, locks, proc, journal, debts>>

\* late: it started more than episodeGap after the run before it.
\* done: the steps whose end was recorded as done, in order.
RunType == [verb : Verb, late : BOOLEAN, done : Seq(Targets),
            ending : {"", "complete", "aborted"}]

ProcType ==
  [pc : {"idle", "plan", "lock", "await", "built", "gate", "wave", "halt", "close",
         "reverse", "read", "undo"},
   waves : Seq(Seq(Targets)), wave : Seq(Targets),
   result : [Targets -> {"", "done", "failed"}],
   gated : BOOLEAN, run : Nat, todo : Seq([run : Nat, target : Targets])]

Idle == [pc |-> "idle", waves |-> <<>>, wave |-> <<>>, result |-> [t \in Targets |-> ""],
         gated |-> FALSE, run |-> 0, todo |-> <<>>]

TypeOK ==
  /\ mains \in BOOLEAN /\ turns \in 0..MaxTurns
  /\ host \in {"on", "stopping", "off"} /\ online \in BOOLEAN
  /\ down \subseteq Targets
  /\ undoLock \in Verb \union {Free} /\ sleepLock \in Verb \union {Free}
  /\ proc \in [Verb -> ProcType]
  /\ journal \in Seq(RunType)
  /\ 2 * Cardinality({i \in DOMAIN journal : journal[i].verb \in Undoers}) <= Len(journal)
  /\ owed \subseteq Targets /\ lapsed \subseteq owed /\ failed \subseteq owed
  /\ settled \subseteq DOMAIN journal

Init ==
  /\ mains = TRUE /\ turns = 0 /\ host = "on" /\ online = FALSE
  /\ down = {} /\ undoLock = Free /\ sleepLock = Free
  /\ proc = [v \in Verb |-> Idle]
  /\ journal = <<>>
  /\ owed = {} /\ lapsed = {} /\ failed = {} /\ settled = {}

-----------------------------------------------------------------------------
At(v, where) == proc[v].pc = where
GoTo(v, where) == proc' = [proc EXCEPT ![v].pc = where]

Live == {v \in Verb : ~At(v, "idle")}

\* Another run that stops something may start.
MayStart(v) ==
  /\ At(v, "idle")
  /\ Cardinality(Live \ Undoers)
       + Cardinality({i \in DOMAIN journal : journal[i].verb \notin Undoers}) < MaxRuns

\* Mutant: it keeps them.
ExitHolding(v) == proc' = [proc EXCEPT ![v] = Idle] /\ UNCHANGED locks

\* A process that ends gives up its locks.
Exit(v) ==
  /\ proc' = [proc EXCEPT ![v] = Idle]
  /\ undoLock' = IF undoLock = v THEN Free ELSE undoLock
  /\ sleepLock' = IF sleepLock = v THEN Free ELSE sleepLock

-----------------------------------------------------------------------------
(***************************************************************************)
(* Starting. NUT starts conserve and sleep in an outage and cancel after   *)
(* it, systemd stasis when the machine is stopping.                        *)
(***************************************************************************)
\* A listing that fails leaves the plan with no guests.
Listed == {Guests \ down} \union (IF "listing" \in Faults THEN {{}} ELSE {})

\* Of each wave the guests that are to stop; a wave with none is left out.
Of(wave, guests) ==
  FlattenSeq([k \in DOMAIN wave |-> IF wave[k] \in guests THEN <<wave[k]>> ELSE <<>>])

KeepOnly(waves, guests) ==
  FlattenSeq([k \in DOMAIN waves |->
                IF Of(waves[k], guests) = <<>> THEN <<>> ELSE <<Of(waves[k], guests)>>])

\* What the UPS says to a process that plans.
Statuses ==
  {IF mains THEN "OL" ELSE "OB"} \union (IF "blind" \in Faults THEN {"unknown"} ELSE {})

\* Power is the reason to stop when the UPS says so, or cannot be read by a run
\* that only a power decision starts.
PowerIsTheReason(v, status) == status = "OB" \/ (status = "unknown" /\ v = "sleep")

\* A sleep the UPS asked for has nothing to do once the UPS reports mains.
StillReason(v, status) == v = "sleep" => status # "OL"

\* NUT starts sleep; systemd stops the stasis unit, which checks that the machine
\* really is stopping.
StartShutdown(v) ==
  /\ v \in Shutdowns /\ MayStart(v)
  /\ \/ v = "sleep" /\ ~mains /\ host = "on"
     \/ v = "stasis" /\ host = "stopping"
  /\ GoTo(v, "plan")
  /\ UNCHANGED <<power, down, locks, journal, debts>>

PlanShutdown(v) ==
  /\ v \in Shutdowns /\ At(v, "plan")
  /\ \E guests \in Listed, status \in Statuses :
       IF StillReason(v, status)
       THEN proc' = [proc EXCEPT ![v] =
              [Idle EXCEPT !.pc = "built", !.gated = PowerIsTheReason(v, status),
                           !.waves = <<<<Noout>>>> \o KeepOnly(Tiers, guests)]]
       ELSE proc' = [proc EXCEPT ![v] = Idle]
  /\ UNCHANGED <<power, down, locks, journal, debts>>

StartConserve ==
  /\ MayStart("conserve") /\ host = "on" /\ ~mains
  /\ GoTo("conserve", "lock")
  /\ UNCHANGED <<power, down, locks, journal, debts>>

\* One instance of a unit at a time: a report that finds cancel at work is lost.
StartCancel ==
  /\ online /\ host = "on"
  /\ online' = FALSE
  /\ IF At("cancel", "idle") THEN GoTo("cancel", "lock") ELSE UNCHANGED proc
  /\ UNCHANGED <<mains, turns, host, down, locks, journal, debts>>

-----------------------------------------------------------------------------
(***************************************************************************)
(* The locks, and what is read under them.                                 *)
(***************************************************************************)
\* Mutant: cancel and wake do not wait for each other, nor conserve for them.
UndoLockAnyway == TRUE

UndoLockFree == undoLock = Free

TakeUndoLock(v) ==
  /\ At(v, "lock") /\ UndoLockFree
  /\ undoLock' = v
  /\ GoTo(v, IF v = "conserve" THEN "plan" ELSE "await")
  /\ UNCHANGED <<power, down, sleepLock, journal, debts>>

\* conserve plans under its lock: the running guests tagged shed, in one wave.
PlanConserve ==
  /\ At("conserve", "plan")
  /\ \E guests \in Listed :
       LET wave == SetToSeq(ShedTag \intersect guests)
       IN  IF wave = <<>> THEN Exit("conserve")
           ELSE /\ proc' = [proc EXCEPT !["conserve"].pc = "built",
                                        !["conserve"].gated = TRUE,
                                        !["conserve"].waves = <<wave>>]
                /\ UNCHANGED locks
  /\ UNCHANGED <<power, down, journal, debts>>

\* Mutant: an undo does not wait for a sequence to end.
SequenceLockAnyway == TRUE

SequenceLockFree == sleepLock = Free

TakeSequenceLock(v) ==
  /\ At(v, "await") /\ SequenceLockFree
  /\ sleepLock' = v
  /\ GoTo(v, "read")
  /\ UNCHANGED <<power, down, undoLock, journal, debts>>

Lateness == IF "gap" \in Faults THEN BOOLEAN ELSE {FALSE}

Opened(v) ==
  \E late \in Lateness :
    journal' = Append(journal, [verb |-> v, late |-> late, done |-> <<>>, ending |-> ""])

\* One sequence per host: a second one gives up rather than wait.
Open(v) ==
  /\ At(v, "built")
  /\ \/ /\ v = "conserve" \/ sleepLock = Free
        /\ sleepLock' = IF v = "conserve" THEN sleepLock ELSE v
        /\ Opened(v)
        /\ proc' = [proc EXCEPT ![v].pc = "gate", ![v].run = Len(journal) + 1]
        /\ UNCHANGED undoLock
     \/ /\ v # "conserve" /\ sleepLock # Free
        /\ Exit(v)
        /\ UNCHANGED journal
  /\ UNCHANGED <<power, down, debts>>

-----------------------------------------------------------------------------
(***************************************************************************)
(* A sequence: gate, wave, and so on to the halt.                          *)
(***************************************************************************)
\* Only a UPS that was read can say that mains are back. Reversal takes the
\* steps this process completed.
GateAbandons(v) ==
  /\ At(v, "gate") /\ proc[v].gated /\ mains
  /\ proc' = [proc EXCEPT ![v].pc = "reverse",
                ![v].todo = [k \in DOMAIN journal[proc[v].run].done |->
                   [run |-> proc[v].run, target |-> journal[proc[v].run].done[k]]]]
  /\ UNCHANGED <<power, down, locks, journal, debts>>

\* Each wave is gated, and so is the halt, which only sleep's plan has.
AfterWave(v) ==
  IF proc[v].waves = <<>> /\ v # "sleep" THEN "close" ELSE "gate"

GatePasses(v) ==
  /\ At(v, "gate")
  /\ proc[v].gated /\ mains => "blind" \in Faults
  /\ IF proc[v].waves = <<>> THEN GoTo(v, "halt")
     ELSE proc' = [proc EXCEPT ![v].pc = "wave",
                     ![v].wave = Head(proc[v].waves), ![v].waves = Tail(proc[v].waves)]
  /\ UNCHANGED <<power, down, locks, journal, debts>>

Flying(v) == {t \in ToSet(proc[v].wave) : At(v, "wave") /\ proc[v].result[t] = ""}

\* A target taken down: what it owes is new unless it was down already.
TakesDown(t) ==
  /\ down' = down \union {t}
  /\ owed' = IF t \in down THEN owed ELSE owed \union {t}

\* A stop that fails may have taken effect: a guest forced off at the last moment.
Stop(v, t) ==
  /\ t \in Flying(v)
  /\ \/ /\ proc' = [proc EXCEPT ![v].result[t] = "done"]
        /\ TakesDown(t) /\ UNCHANGED lapsed
     \/ /\ "stop" \in Faults
        /\ proc' = [proc EXCEPT ![v].result[t] = "failed"]
        /\ \/ UNCHANGED <<down, owed, lapsed>>
           \/ TakesDown(t) /\ lapsed' = lapsed \union (owed' \ owed)
  /\ UNCHANGED <<power, locks, journal, failed, settled>>

\* The ends of a wave are written when all of it has returned, one line at a time.
RecordEnd(v) ==
  /\ At(v, "wave") /\ Flying(v) = {}
  /\ LET t == Head(proc[v].wave) IN
       /\ journal' = IF proc[v].result[t] = "done"
                     THEN [journal EXCEPT ![proc[v].run].done = Append(@, t)]
                     ELSE journal
       /\ proc' = [proc EXCEPT ![v].wave = Tail(@), ![v].result[t] = "",
                               ![v].pc = IF Len(proc[v].wave) = 1 THEN AfterWave(v) ELSE "wave"]
  /\ UNCHANGED <<power, down, locks, debts>>

\* Telling the machine to halt is the last step. It can fail.
Halt(v) ==
  /\ At(v, "halt")
  /\ host' \in {"stopping"} \union (IF "stop" \in Faults THEN {host} ELSE {})
  /\ GoTo(v, "close")
  /\ UNCHANGED <<mains, turns, online, down, locks, journal, debts>>

Close(v) ==
  /\ At(v, "close") \/ (At(v, "reverse") /\ proc[v].todo = <<>>)
  /\ journal' = [journal EXCEPT ![proc[v].run].ending =
                   IF At(v, "close") THEN "complete" ELSE "aborted"]
  /\ Exit(v)
  /\ settled' = IF At(v, "close") THEN settled ELSE settled \union {proc[v].run}
  /\ UNCHANGED <<power, down, owed, lapsed, failed>>

-----------------------------------------------------------------------------
(***************************************************************************)
(* Undoing. The episode is every run since the last recorded undo, back to *)
(* a pause of more than episodeGap; a run that reversed itself is left out.*)
(***************************************************************************)
Episode(runs) ==
  {i \in DOMAIN runs :
     /\ \A j \in i..Len(runs) : runs[j].verb \notin Undoers
     /\ \A j \in (i + 1)..Len(runs) : ~runs[j].late
     /\ runs[i].ending # "aborted"}

\* The completed steps of the episode, oldest first.
StepsToUndo(runs) ==
  FlattenSeq([i \in DOMAIN runs |->
    IF i \in Episode(runs)
    THEN [k \in DOMAIN runs[i].done |-> [run |-> i, target |-> runs[i].done[k]]]
    ELSE <<>>])

\* Mutant: an empty episode is undone, and marked so, like any other.
ReadAnything(v) ==
  /\ At(v, "read")
  /\ proc' = [proc EXCEPT ![v].pc = "undo", ![v].todo = StepsToUndo(journal)]
  /\ UNCHANGED <<power, down, locks, journal, debts>>

\* A journal that cannot be read, or that has no episode, ends the verb.
ReadEpisode(v) ==
  /\ At(v, "read")
  /\ \/ /\ Episode(journal) # {}
        /\ proc' = [proc EXCEPT ![v].pc = "undo", ![v].todo = StepsToUndo(journal)]
        /\ UNCHANGED locks
     \/ /\ Episode(journal) = {} \/ "journal" \in Faults
        /\ Exit(v)
  /\ UNCHANGED <<power, down, journal, debts>>

\* Newest first; one failure does not stop the others.
Undo(v) ==
  /\ At(v, "undo") \/ At(v, "reverse")
  /\ proc[v].todo # <<>>
  /\ proc' = [proc EXCEPT ![v].todo = Front(@)]
  /\ LET t == Last(proc[v].todo).target IN
       \/ /\ down' = down \ {t}
          /\ owed' = owed \ {t} /\ lapsed' = lapsed \ {t} /\ failed' = failed \ {t}
       \/ /\ "start" \in Faults
          /\ failed' = failed \union ({t} \intersect owed)
          /\ UNCHANGED <<down, owed, lapsed>>
  /\ UNCHANGED <<power, locks, journal, settled>>

\* What was undone, or tried, is marked so: the next undo leaves it.
\* Mutant: it is not marked.
UndoneUnmarked(v) ==
  /\ At(v, "undo") /\ proc[v].todo = <<>>
  /\ settled' = settled \union Episode(journal)
  /\ Exit(v)
  /\ UNCHANGED <<power, down, journal, owed, lapsed, failed>>

RecordUndo(v) ==
  /\ At(v, "undo") /\ proc[v].todo = <<>>
  /\ \E late \in Lateness :
       journal' = Append(journal, [verb |-> v, late |-> late, done |-> <<>>,
                                   ending |-> "complete"])
  /\ settled' = settled \union Episode(journal)
  /\ Exit(v)
  /\ UNCHANGED <<power, down, owed, lapsed, failed>>

-----------------------------------------------------------------------------
(***************************************************************************)
(* Everything no verb decides.                                             *)
(***************************************************************************)
\* What a process that dies takes with it: stops that took effect, or still may,
\* and that no line says were done.
Unrecorded(v) == {t \in ToSet(proc[v].wave) : proc[v].result[t] = "done"}

Killed(v) ==
  /\ "kill" \in Faults /\ v \in Live
  /\ \E landed \in SUBSET Flying(v) :
       /\ down' = down \union landed
       /\ owed' = owed \union (landed \ down)
       /\ lapsed' = lapsed \union (landed \ down) \union (owed \intersect Unrecorded(v))
  /\ Exit(v)
  /\ UNCHANGED <<power, journal, failed, settled>>

MainsChange ==
  /\ turns < MaxTurns
  /\ mains' = ~mains /\ turns' = turns + 1
  /\ online' = (mains' /\ host # "off")
  /\ UNCHANGED <<host, down, locks, proc, journal, debts>>

OperatorReboots ==
  /\ "reboot" \in Faults /\ host = "on" /\ turns < MaxTurns
  /\ host' = "stopping" /\ turns' = turns + 1
  /\ UNCHANGED <<mains, online, down, locks, proc, journal, debts>>

\* The machine stops, told to or because the battery is spent, and every process
\* and guest of it stops too.
MachineStops ==
  /\ host = "stopping" \/ (host = "on" /\ ~mains)
  /\ host' = "off" /\ online' = FALSE
  /\ down' = down \union Guests
  /\ lapsed' = lapsed \union (owed \intersect UNION {Unrecorded(v) : v \in Verb})
  /\ undoLock' = Free /\ sleepLock' = Free
  /\ proc' = [v \in Verb |-> Idle]
  /\ UNCHANGED <<mains, turns, journal, owed, failed, settled>>

\* Its boot starts wake.
Boot ==
  /\ host = "off" /\ mains
  /\ host' = "on"
  /\ GoTo("wake", "lock")
  /\ UNCHANGED <<mains, turns, online, down, locks, journal, debts>>

-----------------------------------------------------------------------------
Process(v) ==
  \/ PlanShutdown(v) \/ TakeUndoLock(v) \/ (v = "conserve" /\ PlanConserve)
  \/ TakeSequenceLock(v) \/ Open(v)
  \/ GateAbandons(v) \/ GatePasses(v) \/ RecordEnd(v)
  \/ \E t \in Targets : Stop(v, t)
  \/ Halt(v) \/ Close(v) \/ ReadEpisode(v) \/ Undo(v) \/ RecordUndo(v)

Environment ==
  \/ \E v \in Verb : StartShutdown(v) \/ Killed(v)
  \/ StartConserve \/ StartCancel
  \/ MainsChange \/ OperatorReboots \/ MachineStops \/ Boot

Next == Environment \/ \E v \in Verb : Process(v)

\* Every process is scheduled and every call it makes returns; the undo lock
\* goes to each waiter in time, as the kernel queues them; NUT has cancel
\* started. Nothing makes an outage, any other start, a boot or a fault happen.
Fairness ==
  /\ \A v \in Verb : WF_vars(Process(v))
  /\ \A v \in Verb \ Shutdowns : SF_vars(TakeUndoLock(v))
  /\ WF_vars(StartCancel)

Spec == Init /\ [][Next]_vars /\ Fairness

-----------------------------------------------------------------------------
(***************************************************************************)
(* Safety.                                                                 *)
(***************************************************************************)
Remembered == {step.target : step \in ToSet(StepsToUndo(journal))}

\* What an episode leaves out because too long a pause followed it.
BeyondTheGap ==
  UNION {ToSet(journal[i].done) : i \in
    {k \in DOMAIN journal : \E j \in (k + 1)..Len(journal) : journal[j].late}}

InHand == UNION {Unrecorded(v) : v \in Verb}

\* However conserve, sleep, cancel and wake are interleaved, killed or cut off, what
\* this host took down and has not given back is what the next cancel or wake will
\* find, unless a call about that very target failed, its process died before its
\* end could be written, or the outage outlived episodeGap (lockUndo, lockSleep,
\* Episode, recordUndo): an undo never overtakes a run it should have waited for.
NothingForgotten == owed \subseteq Remembered \union InHand \union lapsed \union failed
                               \union BeyondTheGap

\* A run that one undo has been through is never undone by another: every endpoint
\* reports each transition, so each verb is started several times over (lockUndo),
\* and a guest stopped by hand after it was given back stays down.
UndoneOnce ==
  [][\A v \in Undoers :
       At(v, "undo") /\ proc'[v].pc = "undo" /\ proc'[v].todo # proc[v].todo
         => Last(proc[v].todo).run \notin settled]_vars

-----------------------------------------------------------------------------
(***************************************************************************)
(* Liveness.                                                               *)
(***************************************************************************)
\* No verb waits for ever: not for a lock, whose holder may itself be waiting.
VerbsEnd == \A v \in Verb : ~At(v, "idle") ~> At(v, "idle")

\* Once mains and the machine are back to stay, everything this host took down comes
\* back, whichever of its verbs was at work when the mains returned and whatever halt
\* or reboot came between.
EverythingComesBack == <>[](mains /\ host = "on") => <>[](owed \subseteq lapsed)
=============================================================================
