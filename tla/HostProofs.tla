------------------------------- MODULE HostProofs -------------------------------
(***************************************************************************)
(* Proofs about Host, for any guests, waves and faults and any number of   *)
(* runs, power changes and reboots.                                        *)
(***************************************************************************)
EXTENDS Host, SequenceLemmas

\* What TypeOK says of each variable by itself.
Types ==
  /\ mains \in BOOLEAN /\ turns \in 0..MaxTurns
  /\ host \in {"on", "stopping", "off"} /\ online \in BOOLEAN
  /\ down \subseteq Targets
  /\ undoLock \in Verb \union {Free} /\ sleepLock \in Verb \union {Free}
  /\ proc \in [Verb -> ProcType]
  /\ journal \in Seq(RunType)
  /\ owed \subseteq Targets /\ lapsed \subseteq owed /\ failed \subseteq owed
  /\ settled \subseteq DOMAIN journal

\* A process with a run of its own that is not over.
Underway == {"gate", "wave", "halt", "close", "reverse"}

Places(v) ==
  IF v \in Undoers THEN {"idle", "lock", "await", "read", "undo"}
  ELSE IF v = "conserve" THEN {"idle", "lock", "plan", "built"} \union Underway
  ELSE {"idle", "plan", "built"} \union Underway

InPlace == \A v \in Verb : proc[v].pc \in Places(v)

\* Where a verb may be only with a lock in its hands.
NeedsUndoLock(v, place) ==
  \/ v = "conserve" /\ place \in {"plan", "built"} \union Underway
  \/ v \in Undoers /\ place \in {"await", "read", "undo"}

NeedsSleepLock(v, place) ==
  \/ v \in Undoers /\ place \in {"read", "undo"}
  \/ v \in Shutdowns /\ place \in Underway

LocksHeld ==
  \A v \in Verb : /\ NeedsUndoLock(v, proc[v].pc) => undoLock = v
                  /\ NeedsSleepLock(v, proc[v].pc) => sleepLock = v

\* A process has a wave in its hands while it is at one, and none is empty.
WavesFull ==
  \A v \in Verb :
    /\ At(v, "wave") <=> proc[v].wave # <<>>
    /\ \A k \in DOMAIN proc[v].waves : proc[v].waves[k] # <<>>

\* The run of a process that is under way is its own, is open and has not been undone.
OwnRun ==
  \A v \in Verb : proc[v].pc \in Underway =>
    /\ proc[v].run \in DOMAIN journal
    /\ journal[proc[v].run].verb = v
    /\ journal[proc[v].run].ending = ""
    /\ \A j \in proc[v].run..Len(journal) : journal[j].verb \notin Undoers

\* What is to be given back is what the run, or the episode, took.
ReversesItsRun ==
  \A v \in Verb : At(v, "reverse") =>
    \A k \in DOMAIN proc[v].todo :
      proc[v].todo[k].target \in ToSet(journal[proc[v].run].done)

UndoesTheEpisode ==
  \A v \in Verb : At(v, "undo") =>
    /\ Episode(journal) # {}
    /\ \A k \in DOMAIN proc[v].todo :
         /\ proc[v].todo[k].run \in Episode(journal)
         /\ proc[v].todo[k].target \in ToSet(journal[proc[v].todo[k].run].done)

\* What was settled reads as such: it reversed itself, or an undo follows it.
SettledIsOver ==
  \A i \in settled :
    \/ journal[i].ending = "aborted"
    \/ \E j \in i..Len(journal) : journal[j].verb \in Undoers

\* No undo follows another, or comes first.
Apart(runs) ==
  \A i \in DOMAIN runs : runs[i].verb \in Undoers => i # 1 /\ runs[i - 1].verb \notin Undoers

UndosApart == Apart(journal)

(***************************************************************************)
(* Who answers for what is owed: a process that has it in hand, the run in *)
(* the episode that recorded it unless that run is being undone, the list  *)
(* of who is undoing it, or one of the reasons not to.                     *)
(***************************************************************************)
Undoing(v, i) == At(v, "undo") \/ (At(v, "reverse") /\ proc[v].run = i)

BeingUndone(i) == \E v \in Verb : Undoing(v, i)

Recorded(t) == \E i \in Episode(journal) : ~BeingUndone(i) /\ t \in ToSet(journal[i].done)

PendingWith(v, t) ==
  proc[v].pc \in {"undo", "reverse"} /\ \E k \in DOMAIN proc[v].todo : proc[v].todo[k].target = t

Outlived(t) == \E i \in DOMAIN journal : /\ \E j \in (i + 1)..Len(journal) : journal[j].late
                                         /\ t \in ToSet(journal[i].done)

AnsweredFor(t) ==
  \/ t \in lapsed \/ t \in failed
  \/ \E v \in Verb : t \in Unrecorded(v)
  \/ \E v \in Verb : PendingWith(v, t)
  \/ Recorded(t) \/ Outlived(t)

Accounted == \A t \in owed : AnsweredFor(t)

IInv ==
  /\ Types /\ InPlace /\ LocksHeld /\ WavesFull /\ OwnRun
  /\ ReversesItsRun /\ UndoesTheEpisode /\ SettledIsOver /\ UndosApart /\ Accounted

-----------------------------------------------------------------------------
(***************************************************************************)
(* The sequences the model is built from.                                  *)
(***************************************************************************)
Step == [run : Nat, target : Targets]

\* A process with nothing in its hands is well typed.
LEMMA IdleType == Idle \in ProcType
<1>1. /\ <<>> \in Seq(Seq(Targets)) /\ <<>> \in Seq(Targets)
      /\ <<>> \in Seq([run : Nat, target : Targets])
  BY EmptySeq
<1>2. [t \in Targets |-> ""] \in [Targets -> {"", "done", "failed"}]
  OBVIOUS
<1> QED
  BY <1>1, <1>2 DEF Idle, ProcType

\* Filtering a wave leaves a wave.
LEMMA OfType ==
  ASSUME NEW wave \in Seq(Guests), NEW guests
  PROVE  Of(wave, guests) \in Seq(Guests)
<1> DEFINE parts == [k \in DOMAIN wave |-> IF wave[k] \in guests THEN <<wave[k]>> ELSE <<>>]
<1>1. Len(wave) \in Nat /\ DOMAIN wave = 1..Len(wave)
  BY LenProperties
<1>2. \A k \in DOMAIN wave : wave[k] \in Guests
  BY ElementOfSeq, <1>1
<1>3. \A k \in 1..Len(wave) : parts[k] \in Seq(Guests)
  BY <1>1, <1>2
<1>4. parts = [k \in 1..Len(wave) |-> parts[k]]
  BY <1>1
<1>5. parts \in Seq(Seq(Guests))
  <2> HIDE DEF parts
  <2> QED
    BY <1>1, <1>3, <1>4, IsASeq
<1> QED
  BY <1>5, FlattenElements DEF Of

\* Of a plan's waves the filter leaves waves, none of them empty.
LEMMA KeepOnlyType ==
  ASSUME NEW guests
  PROVE  /\ KeepOnly(Tiers, guests) \in Seq(Seq(Guests))
         /\ \A w \in ToSet(KeepOnly(Tiers, guests)) : w # <<>>
<1> DEFINE part(k) == IF Of(Tiers[k], guests) = <<>> THEN <<>> ELSE <<Of(Tiers[k], guests)>>
           parts == [k \in DOMAIN Tiers |-> part(k)]
           Full == {w \in Seq(Guests) : w # <<>>}
<1>1. Tiers \in Seq(Seq(Guests)) /\ Len(Tiers) \in Nat /\ DOMAIN Tiers = 1..Len(Tiers)
  BY GuestsAssumption, LenProperties
<1>2. ASSUME NEW k \in 1..Len(Tiers)
      PROVE  part(k) \in Seq(Full)
  <2>1. Tiers[k] \in Seq(Guests)
    BY <1>1, ElementOfSeq
  <2>2. Of(Tiers[k], guests) \in Seq(Guests)
    BY <2>1, OfType
  <2>3. CASE Of(Tiers[k], guests) = <<>>
    BY <2>3, EmptySeq
  <2>4. CASE Of(Tiers[k], guests) # <<>>
    <3>1. Of(Tiers[k], guests) \in Full
      BY <2>2, <2>4
    <3> HIDE DEF Full
    <3> QED
      BY <3>1, <2>4
  <2> QED
    BY <2>3, <2>4
<1>3. parts = [k \in 1..Len(Tiers) |-> part(k)] /\ parts = [k \in 1..Len(Tiers) |-> parts[k]]
  BY <1>1
<1>4. parts \in Seq(Seq(Full))
  <2>1. \A k \in 1..Len(Tiers) : parts[k] \in Seq(Full)
    BY <1>2, <1>3
  <2> HIDE DEF parts, Full
  <2> QED
    BY <1>1, <1>3, <2>1, IsASeq
<1>5. FlattenSeq(parts) = KeepOnly(Tiers, guests)
  BY DEF KeepOnly
<1>6. KeepOnly(Tiers, guests) \in Seq(Full)
  <2> HIDE DEF parts, Full
  <2> QED
    BY <1>4, <1>5, FlattenElements
<1>7. ToSet(KeepOnly(Tiers, guests)) \subseteq Full
  <2> HIDE DEF Full
  <2> QED
    BY <1>6, ElementsInSet
<1>8. Seq(Full) \subseteq Seq(Seq(Guests))
  <2>1. Full \subseteq Seq(Guests)
    OBVIOUS
  <2> HIDE DEF Full
  <2> QED
    BY <2>1, SeqMonotonic
<1> QED
  BY <1>6, <1>7, <1>8

\* A set of guests can be put in a row.
LEMMA RowOfGuests ==
  ASSUME NEW G \in SUBSET Guests
  PROVE  SetToSeq(G) \in Seq(Guests)
<1>1. IsFiniteSet(G)
  BY GuestsAssumption, FS_Subset
<1>2. Cardinality(G) \in Nat /\ ExistsBijection(1..Cardinality(G), G)
  BY <1>1, FS_CardinalityType
<1>3. \E f \in [1..Cardinality(G) -> G] : IsInjective(f)
  BY <1>2 DEF ExistsBijection, Bijection, Injection
<1>4. SetToSeq(G) \in [1..Cardinality(G) -> G]
  BY <1>3 DEF SetToSeq
<1>5. SetToSeq(G) \in [1..Cardinality(G) -> Guests]
  BY <1>4
<1> QED
  BY <1>2, <1>5, SeqDef

-----------------------------------------------------------------------------
(***************************************************************************)
(* Types.                                                                  *)
(***************************************************************************)
\* Of a typed process, what its record holds, and where a verb is one.
LEMMA ProcFields ==
  ASSUME Types, NEW v \in Verb
  PROVE  /\ proc[v] \in ProcType
         /\ proc[v].waves \in Seq(Seq(Targets)) /\ proc[v].wave \in Seq(Targets)
         /\ proc[v].result \in [Targets -> {"", "done", "failed"}]
         /\ proc[v].gated \in BOOLEAN /\ proc[v].run \in Nat
         /\ proc[v].todo \in Seq([run : Nat, target : Targets])
<1>1. proc[v] \in ProcType
  BY DEF Types
<1> QED
  BY <1>1 DEF ProcType

\* A process that ends, or moves on, is still well typed, and so are the locks.
LEMMA ExitTypes ==
  ASSUME Types, NEW v \in Verb, Exit(v)
  PROVE  /\ proc' \in [Verb -> ProcType]
         /\ undoLock' \in Verb \union {Free} /\ sleepLock' \in Verb \union {Free}
BY IdleType DEF Types, Exit

LEMMA GoToTypes ==
  ASSUME Types, NEW v \in Verb,
         NEW place \in {"idle", "plan", "lock", "await", "built", "gate", "wave", "halt",
                        "close", "reverse", "read", "undo"},
         GoTo(v, place)
  PROVE  proc' \in [Verb -> ProcType]
<1>1. proc \in [Verb -> ProcType] /\ proc' = [proc EXCEPT ![v].pc = place]
  BY DEF Types, GoTo
<1>2. [proc[v] EXCEPT !.pc = place] \in ProcType
  BY <1>1 DEF ProcType
<1> QED
  BY <1>1, <1>2

\* The completed steps of the episode, as a list, and what is in it.
LEMMA StepsToUndoHolds ==
  ASSUME NEW runs \in Seq(RunType)
  PROVE  /\ StepsToUndo(runs) \in Seq([run : Nat, target : Targets])
         /\ \A s \in ToSet(StepsToUndo(runs)) :
              s.run \in Episode(runs) /\ s.target \in ToSet(runs[s.run].done)
         /\ \A i \in Episode(runs) : \A t \in ToSet(runs[i].done) :
              \E s \in ToSet(StepsToUndo(runs)) : s.run = i /\ s.target = t
<1> DEFINE S == [run : Nat, target : Targets]
           part(i) == IF i \in Episode(runs)
                      THEN [k \in DOMAIN runs[i].done |-> [run |-> i, target |-> runs[i].done[k]]]
                      ELSE <<>>
           parts == [i \in DOMAIN runs |-> part(i)]
<1>1. Len(runs) \in Nat /\ DOMAIN runs = 1..Len(runs) /\ \A i \in DOMAIN runs : runs[i] \in RunType
  BY LenProperties, ElementOfSeq
<1>2. \A i \in DOMAIN runs : /\ runs[i].done \in Seq(Targets) /\ Len(runs[i].done) \in Nat
                             /\ DOMAIN runs[i].done = 1..Len(runs[i].done)
                             /\ \A k \in DOMAIN runs[i].done : runs[i].done[k] \in Targets
  <2> TAKE i \in DOMAIN runs
  <2>1. runs[i].done \in Seq(Targets)
    BY <1>1 DEF RunType
  <2> QED
    BY <2>1, LenProperties, ElementOfSeq
<1>3. ASSUME NEW i \in 1..Len(runs)
      PROVE  part(i) \in Seq(S)
  <2>1. CASE i \in Episode(runs)
    <3> DEFINE n == Len(runs[i].done)
               p == [k \in 1..n |-> [run |-> i, target |-> runs[i].done[k]]]
    <3>1. part(i) = p
      BY <2>1, <1>1, <1>2
    <3>2. i \in Nat /\ n \in Nat /\ \A k \in 1..n : runs[i].done[k] \in Targets
      BY <1>1, <1>2
    <3> HIDE DEF n
    <3>3. \A k \in 1..n : p[k] \in S
      BY <3>2
    <3>4. p \in [1..n -> S]
      <4>1. p = [k \in 1..n |-> p[k]]
        OBVIOUS
      <4> HIDE DEF p, S
      <4> QED
        BY <3>3, <4>1
    <3>5. p \in Seq(S)
      <4> HIDE DEF p, S
      <4> QED
        BY <3>2, <3>4, SeqDef
    <3> QED
      BY <3>1, <3>5
  <2>2. CASE i \notin Episode(runs)
    BY <2>2, EmptySeq
  <2> QED
    BY <2>1, <2>2
<1>4. parts = [i \in 1..Len(runs) |-> part(i)]
  BY <1>1
<1>5. parts \in Seq(Seq(S))
  <2> HIDE DEF part, S
  <2> QED
    BY <1>1, <1>3, <1>4, IsASeq
<1>6. FlattenSeq(parts) = StepsToUndo(runs)
  BY DEF StepsToUndo
<1>7. /\ StepsToUndo(runs) \in Seq(S)
      /\ ToSet(StepsToUndo(runs)) = UNION {ToSet(parts[i]) : i \in DOMAIN parts}
  <2> HIDE DEF parts, S
  <2> QED
    BY <1>5, <1>6, FlattenElements
<1>8. DOMAIN parts = DOMAIN runs /\ \A i \in DOMAIN runs : parts[i] = part(i)
  OBVIOUS
<1>9. \A s : s \in ToSet(StepsToUndo(runs)) <=> \E i \in DOMAIN runs : s \in ToSet(part(i))
  <2> HIDE DEF part
  <2> QED
    BY <1>7, <1>8
<1>10. \A i \in DOMAIN runs : \A s :
         s \in ToSet(part(i)) <=> /\ i \in Episode(runs)
                                  /\ \E k \in DOMAIN runs[i].done :
                                       s = [run |-> i, target |-> runs[i].done[k]]
  <2> TAKE i \in DOMAIN runs
  <2> TAKE s
  <2>1. CASE i \in Episode(runs)
    <3> DEFINE p == [k \in DOMAIN runs[i].done |-> [run |-> i, target |-> runs[i].done[k]]]
    <3>1. part(i) = p
      BY <2>1
    <3>2. s \in ToSet(p) <=> \E k \in DOMAIN runs[i].done :
                               s = [run |-> i, target |-> runs[i].done[k]]
      BY DEF ToSet
    <3> QED
      BY <2>1, <3>1, <3>2
  <2>2. CASE i \notin Episode(runs)
    <3>1. part(i) = <<>>
      BY <2>2
    <3>2. s \notin ToSet(<<>>)
      BY DEF ToSet
    <3> QED
      BY <2>2, <3>1, <3>2
  <2> QED
    BY <2>1, <2>2
<1>11. ASSUME NEW s \in ToSet(StepsToUndo(runs))
       PROVE  s.run \in Episode(runs) /\ s.target \in ToSet(runs[s.run].done)
  <2>1. PICK i \in DOMAIN runs : /\ i \in Episode(runs)
                                 /\ \E k \in DOMAIN runs[i].done :
                                      s = [run |-> i, target |-> runs[i].done[k]]
    <3> HIDE DEF part
    <3> QED
      BY <1>9, <1>10
  <2> QED
    BY <2>1 DEF ToSet
<1>12. ASSUME NEW i \in Episode(runs), NEW t \in ToSet(runs[i].done)
       PROVE  \E s \in ToSet(StepsToUndo(runs)) : s.run = i /\ s.target = t
  <2>1. i \in DOMAIN runs
    BY DEF Episode
  <2>2. PICK k \in DOMAIN runs[i].done : t = runs[i].done[k]
    BY DEF ToSet
  <2>3. [run |-> i, target |-> t] \in ToSet(StepsToUndo(runs))
    <3> HIDE DEF part
    <3> QED
      BY <1>9, <1>10, <2>1, <2>2
  <2> QED
    BY <2>3
<1> QED
  BY <1>7, <1>11, <1>12

\* A journal with one run more is a journal, and keeps the runs it had.
LEMMA AppendedRuns ==
  ASSUME NEW runs \in Seq(RunType), NEW run \in RunType, NEW more, more = Append(runs, run)
  PROVE  /\ more \in Seq(RunType) /\ Len(runs) \in Nat /\ Len(more) = Len(runs) + 1
         /\ DOMAIN runs = 1..Len(runs) /\ DOMAIN more = 1..Len(more)
         /\ DOMAIN runs \subseteq DOMAIN more
         /\ \A i \in DOMAIN runs : more[i] = runs[i]
         /\ more[Len(more)] = run
<1>1. /\ Len(runs) \in Nat /\ DOMAIN runs = 1..Len(runs)
      /\ more \in Seq(RunType) /\ Len(more) = Len(runs) + 1
      /\ \A i \in 1..Len(runs) : more[i] = runs[i]
      /\ more[Len(runs) + 1] = run
  <2> HIDE DEF RunType
  <2> QED
    BY AppendProperties, LenProperties
<1>2. DOMAIN more = 1..Len(more)
  <2> HIDE DEF RunType
  <2> QED
    BY <1>1, LenProperties
<1> QED
  BY <1>1, <1>2

\* A step leaves every variable typed.
LEMMA TypesStep ==
  ASSUME IInv, [Next]_vars
  PROVE  Types'
<1> USE DEF IInv
<1>0. Types
  OBVIOUS
<1>1. CASE UNCHANGED vars
  BY <1>0, <1>1 DEF Types, vars, power, locks, debts
<1>2. ASSUME NEW v \in Verb, StartShutdown(v)
      PROVE  Types'
  <2>1. proc' \in [Verb -> ProcType]
    BY <1>0, <1>2, GoToTypes DEF StartShutdown
  <2> QED
    BY <1>0, <1>2, <2>1 DEF Types, StartShutdown, power, locks, debts
<1>3. ASSUME NEW v \in Verb, PlanShutdown(v)
      PROVE  Types'
  <2>1. PICK guests \in Listed, status \in Statuses :
          proc' = [proc EXCEPT ![v] =
             IF StillReason(v, status)
             THEN [Idle EXCEPT !.pc = "built", !.gated = PowerIsTheReason(v, status),
                               !.waves = <<<<Noout>>>> \o KeepOnly(Tiers, guests)]
             ELSE Idle]
    BY <1>3 DEF PlanShutdown
  <2>2. PowerIsTheReason(v, status) \in BOOLEAN
    BY DEF PowerIsTheReason
  <2>3. <<<<Noout>>>> \o KeepOnly(Tiers, guests) \in Seq(Seq(Targets))
    <3>1. <<<<Noout>>>> \in Seq(Seq(Targets))
      BY DEF Targets
    <3>2. Seq(Guests) \subseteq Seq(Targets)
      BY SeqMonotonic DEF Targets
    <3>3. Seq(Seq(Guests)) \subseteq Seq(Seq(Targets))
      BY <3>2, SeqMonotonic
    <3>4. KeepOnly(Tiers, guests) \in Seq(Seq(Targets))
      BY <3>3, KeepOnlyType
    <3> QED
      BY <3>1, <3>4, ConcatProperties
  <2>4. [Idle EXCEPT !.pc = "built", !.gated = PowerIsTheReason(v, status),
                     !.waves = <<<<Noout>>>> \o KeepOnly(Tiers, guests)] \in ProcType
    BY <2>2, <2>3, IdleType DEF ProcType
  <2>5. proc' \in [Verb -> ProcType]
    BY <1>0, <2>1, <2>4, IdleType DEF Types
  <2> QED
    BY <1>0, <1>3, <2>5 DEF Types, PlanShutdown, power, locks, debts
<1>4. ASSUME StartConserve
      PROVE  Types'
  <2>1. proc' \in [Verb -> ProcType]
    BY <1>0, <1>4, GoToTypes DEF StartConserve, Verb
  <2> QED
    BY <1>0, <1>4, <2>1 DEF Types, StartConserve, power, locks, debts
<1>5. ASSUME StartCancel
      PROVE  Types'
  <2>1. proc' \in [Verb -> ProcType]
    <3>1. "cancel" \in Verb
      BY DEF Verb, Undoers
    <3> QED
      BY <1>0, <1>5, <3>1, GoToTypes DEF StartCancel, Types
  <2> QED
    BY <1>0, <1>5, <2>1 DEF Types, StartCancel, locks, debts
<1>6. ASSUME NEW v \in Verb, TakeUndoLock(v)
      PROVE  Types'
  <2>1. proc' \in [Verb -> ProcType]
    BY <1>0, <1>6, GoToTypes DEF TakeUndoLock
  <2> QED
    BY <1>0, <1>6, <2>1 DEF Types, TakeUndoLock, power, debts
<1>7. ASSUME PlanConserve
      PROVE  Types'
  <2>0. "conserve" \in Verb
    BY DEF Verb
  <2>1. /\ proc' \in [Verb -> ProcType]
        /\ undoLock' \in Verb \union {Free} /\ sleepLock' \in Verb \union {Free}
    <3>1. CASE Exit("conserve")
      BY <1>0, <2>0, <3>1, ExitTypes
    <3>2. CASE ~Exit("conserve")
      <4>1. PICK guests \in Listed :
              /\ proc' = [proc EXCEPT !["conserve"].pc = "built",
                                      !["conserve"].gated = TRUE,
                                      !["conserve"].waves = <<SetToSeq(ShedTag \intersect guests)>>]
              /\ UNCHANGED locks
        BY <1>7, <3>2 DEF PlanConserve
      <4>2. SetToSeq(ShedTag \intersect guests) \in Seq(Targets)
        <5>1. ShedTag \intersect guests \in SUBSET Guests
          BY GuestsAssumption
        <5>2. Seq(Guests) \subseteq Seq(Targets)
          BY SeqMonotonic DEF Targets
        <5> QED
          BY <5>1, <5>2, RowOfGuests
      <4>3. <<SetToSeq(ShedTag \intersect guests)>> \in Seq(Seq(Targets))
        BY <4>2
      <4>4. proc["conserve"] \in ProcType /\ proc \in [Verb -> ProcType]
        BY <1>0, <2>0 DEF Types
      <4>5. [proc["conserve"] EXCEPT !.pc = "built", !.gated = TRUE,
                                     !.waves = <<SetToSeq(ShedTag \intersect guests)>>] \in ProcType
        BY <4>3, <4>4 DEF ProcType
      <4>6. proc' \in [Verb -> ProcType]
        BY <2>0, <4>1, <4>4, <4>5
      <4> QED
        BY <1>0, <4>1, <4>6 DEF Types, locks
    <3> QED
      BY <3>1, <3>2
  <2> QED
    BY <1>0, <1>7, <2>1 DEF Types, PlanConserve, power, debts
<1>8. ASSUME NEW v \in Verb, TakeSequenceLock(v)
      PROVE  Types'
  <2>1. proc' \in [Verb -> ProcType]
    BY <1>0, <1>8, GoToTypes DEF TakeSequenceLock
  <2> QED
    BY <1>0, <1>8, <2>1 DEF Types, TakeSequenceLock, power, debts
<1>9. ASSUME NEW v \in Verb, Open(v)
      PROVE  Types'
  <2>1. journal \in Seq(RunType) /\ Len(journal) \in Nat
    BY <1>0, LenProperties DEF Types
  <2>2. CASE ~Exit(v)
    <3>1. /\ sleepLock' = IF v = "conserve" THEN sleepLock ELSE v
          /\ Opened(v)
          /\ proc' = [proc EXCEPT ![v].pc = "gate", ![v].run = Len(journal) + 1]
          /\ UNCHANGED undoLock
      BY <1>9, <2>2 DEF Open
    <3>2. PICK late \in BOOLEAN :
            journal' = Append(journal, [verb |-> v, late |-> late, done |-> <<>>, ending |-> ""])
      BY <3>1 DEF Opened, Lateness
    <3>3. [verb |-> v, late |-> late, done |-> <<>>, ending |-> ""] \in RunType
      BY EmptySeq DEF RunType
    <3>4. journal' \in Seq(RunType) /\ DOMAIN journal \subseteq DOMAIN journal'
      <4> DEFINE run == [verb |-> v, late |-> late, done |-> <<>>, ending |-> ""]
      <4>1. journal' = Append(journal, run) /\ run \in RunType
        BY <3>2, <3>3
      <4> HIDE DEF run
      <4> QED
        BY <2>1, <4>1, AppendedRuns
    <3>5. proc' \in [Verb -> ProcType]
      <4>1. proc[v] \in ProcType /\ proc \in [Verb -> ProcType]
        BY <1>0 DEF Types
      <4> DEFINE n == Len(journal) + 1
      <4>2. n \in Nat
        BY <2>1
      <4> HIDE DEF n
      <4>3. [proc[v] EXCEPT !.pc = "gate", !.run = n] \in ProcType
        BY <4>2, <4>1 DEF ProcType
      <4> QED
        BY <3>1, <4>1, <4>3 DEF n
    <3> QED
      BY <1>0, <1>9, <3>1, <3>4, <3>5 DEF Types, Open, power, debts
  <2>3. CASE Exit(v) /\ UNCHANGED journal
    <3>1. /\ proc' \in [Verb -> ProcType]
          /\ undoLock' \in Verb \union {Free} /\ sleepLock' \in Verb \union {Free}
      BY <1>0, <2>3, ExitTypes
    <3> QED
      BY <1>0, <1>9, <2>3, <3>1 DEF Types, Open, power, debts
  <2>4. CASE Exit(v) /\ ~UNCHANGED journal
    <3>1. /\ proc' = [proc EXCEPT ![v] = Idle]
          /\ proc' = [proc EXCEPT ![v].pc = "gate", ![v].run = Len(journal) + 1]
      BY <1>9, <2>4 DEF Open, Exit
    <3>2. proc[v] \in ProcType /\ proc \in [Verb -> ProcType]
      BY <1>0 DEF Types
    <3>3. proc'[v].pc = "gate"
      BY <3>1, <3>2 DEF ProcType
    <3>4. proc'[v] = Idle
      BY <3>1, <3>2
    <3>5. Idle.pc = "idle"
      BY DEF Idle
    <3> QED
      BY <3>3, <3>4, <3>5
  <2> QED
    BY <2>2, <2>3, <2>4
<1>10. ASSUME NEW v \in Verb, GateAbandons(v)
       PROVE  Types'
  <2> DEFINE S == [run : Nat, target : Targets]
             r == proc[v].run
             n == Len(journal[r].done)
             list == [k \in DOMAIN journal[r].done |-> [run |-> r, target |-> journal[r].done[k]]]
  <2>1. r \in DOMAIN journal /\ r \in Nat
    <3>1. r \in DOMAIN journal
      BY <1>10 DEF GateAbandons, OwnRun, At, Underway
    <3> QED
      BY <1>0, <3>1, ProcFields
  <2>2. journal[r].done \in Seq(Targets)
    <3>1. journal[r] \in RunType
      BY <1>0, <2>1, ElementOfSeq, LenProperties DEF Types
    <3> QED
      BY <3>1 DEF RunType
  <2>3. n \in Nat /\ DOMAIN journal[r].done = 1..n /\ \A k \in 1..n : journal[r].done[k] \in Targets
    BY <2>2, LenProperties, ElementOfSeq
  <2>4. list \in Seq(S)
    <3>1. list = [k \in 1..n |-> [run |-> r, target |-> journal[r].done[k]]]
      BY <2>3
    <3>2. \A k \in 1..n : [run |-> r, target |-> journal[r].done[k]] \in S
      BY <2>1, <2>3
    <3>3. list \in [1..n -> S]
      <4> HIDE DEF n, r, S
      <4> QED
        BY <3>1, <3>2
    <3> HIDE DEF list, S
    <3> QED
      BY <2>3, <3>3, SeqDef
  <2>5. proc' \in [Verb -> ProcType]
    <3>1. proc[v] \in ProcType /\ proc \in [Verb -> ProcType]
      BY <1>0 DEF Types
    <3>2. proc' = [proc EXCEPT ![v].pc = "reverse", ![v].todo = list]
      BY <1>10 DEF GateAbandons
    <3> HIDE DEF list
    <3>3. [proc[v] EXCEPT !.pc = "reverse", !.todo = list] \in ProcType
      BY <2>4, <3>1 DEF ProcType
    <3> QED
      BY <3>1, <3>2, <3>3
  <2> QED
    BY <1>0, <1>10, <2>5 DEF Types, GateAbandons, power, locks, debts
<1>11. ASSUME NEW v \in Verb, GatePasses(v)
       PROVE  Types'
  <2>1. proc[v] \in ProcType /\ proc \in [Verb -> ProcType]
    BY <1>0 DEF Types
  <2>2. proc' \in [Verb -> ProcType]
    <3>1. CASE proc[v].waves = <<>>
      BY <1>0, <1>11, <3>1, GoToTypes DEF GatePasses
    <3>2. CASE proc[v].waves # <<>>
      <4>1. Head(proc[v].waves) \in Seq(Targets) /\ Tail(proc[v].waves) \in Seq(Seq(Targets))
        BY <1>0, <3>2, ProcFields, HeadTailProperties
      <4> DEFINE h == Head(proc[v].waves)
                 t == Tail(proc[v].waves)
      <4>2. proc' = [proc EXCEPT ![v].pc = "wave", ![v].wave = h, ![v].waves = t]
        BY <1>11, <3>2 DEF GatePasses
      <4>3. h \in Seq(Targets) /\ t \in Seq(Seq(Targets))
        BY <4>1
      <4> HIDE DEF h, t
      <4>4. [proc[v] EXCEPT !.pc = "wave", !.wave = h, !.waves = t] \in ProcType
        BY <2>1, <4>3 DEF ProcType
      <4> QED
        BY <2>1, <4>2, <4>4
    <3> QED
      BY <3>1, <3>2
  <2> QED
    BY <1>0, <1>11, <2>2 DEF Types, GatePasses, power, locks, debts
<1>12. ASSUME NEW v \in Verb, NEW t \in Targets, Stop(v, t)
       PROVE  Types'
  <2>1. proc[v] \in ProcType /\ proc \in [Verb -> ProcType]
    BY <1>0 DEF Types
  <2>2. proc' \in [Verb -> ProcType]
    <3>1. PICK how \in {"done", "failed"} : proc' = [proc EXCEPT ![v].result[t] = how]
      BY <1>12 DEF Stop
    <3>2. [proc[v].result EXCEPT ![t] = how] \in [Targets -> {"", "done", "failed"}]
      BY <1>0, ProcFields
    <3>3. [proc[v] EXCEPT !.result = [proc[v].result EXCEPT ![t] = how]] \in ProcType
      BY <2>1, <3>2 DEF ProcType
    <3>4. proc' = [proc EXCEPT ![v] = [proc[v] EXCEPT !.result = [proc[v].result EXCEPT ![t] = how]]]
      BY <2>1, <3>1 DEF ProcType
    <3> QED
      BY <2>1, <3>3, <3>4
  <2>3. /\ down' \subseteq Targets /\ owed' \subseteq Targets
        /\ lapsed' \subseteq owed' /\ owed \subseteq owed'
    BY <1>0, <1>12 DEF Types, Stop, TakesDown
  <2> QED
    BY <1>0, <1>12, <2>2, <2>3 DEF Types, Stop, power, locks
<1>13. ASSUME NEW v \in Verb, RecordEnd(v)
       PROVE  Types'
  <2> DEFINE w == proc[v].wave
             t == Head(w)
             place == IF Len(w) = 1 THEN AfterWave(v) ELSE "wave"
  <2>1. proc[v] \in ProcType /\ proc \in [Verb -> ProcType]
    BY <1>0 DEF Types
  <2>2. w # <<>>
    BY <1>13 DEF RecordEnd, WavesFull
  <2>3. t \in Targets /\ Tail(w) \in Seq(Targets)
    BY <1>0, <2>2, ProcFields, HeadTailProperties
  <2>4. place \in {"close", "gate", "wave"}
    BY DEF AfterWave
  <2>5. proc' \in [Verb -> ProcType]
    <3> DEFINE tail == Tail(w)
    <3>1. proc' = [proc EXCEPT ![v].wave = tail, ![v].result[t] = "", ![v].pc = place]
      BY <1>13, <2>1 DEF RecordEnd, ProcType
    <3>2. tail \in Seq(Targets)
      BY <2>3
    <3>3. [proc[v].result EXCEPT ![t] = ""] \in [Targets -> {"", "done", "failed"}]
      BY <1>0, ProcFields
    <3> HIDE DEF t, tail, place, w
    <3> DEFINE res == [proc[v].result EXCEPT ![t] = ""]
    <3>4. proc' = [proc EXCEPT ![v] = [proc[v] EXCEPT !.wave = tail, !.result = res, !.pc = place]]
      BY <2>1, <3>1 DEF ProcType
    <3>5. res \in [Targets -> {"", "done", "failed"}]
      BY <3>3
    <3> HIDE DEF res
    <3>6. [proc[v] EXCEPT !.wave = tail, !.result = res, !.pc = place] \in ProcType
      BY <2>1, <2>4, <3>2, <3>5 DEF ProcType
    <3> QED
      BY <2>1, <3>4, <3>6
  <2>6. journal' \in Seq(RunType) /\ DOMAIN journal' = DOMAIN journal
    <3> DEFINE r == proc[v].run
    <3>1. r \in DOMAIN journal
      BY <1>13 DEF RecordEnd, At, OwnRun, Underway
    <3>2. journal[r] \in RunType /\ journal \in Seq(RunType)
      BY <1>0, <3>1, ElementOfSeq, LenProperties DEF Types
    <3>3. journal[r].done \in Seq(Targets)
      BY <3>2 DEF RunType
    <3>4. Append(journal[r].done, t) \in Seq(Targets)
      <4> HIDE DEF t, r
      <4> QED
        BY <2>3, <3>3, AppendProperties
    <3>5. \/ journal' = journal
          \/ journal' = [journal EXCEPT ![r].done = Append(@, t)]
      BY <1>13 DEF RecordEnd
    <3> DEFINE more == [journal[r] EXCEPT !.done = Append(journal[r].done, t)]
    <3>6. more \in RunType
      BY <3>2, <3>4 DEF RunType
    <3>7. journal' = journal \/ journal' = [journal EXCEPT ![r] = more]
      BY <3>1, <3>5
    <3> HIDE DEF more, r
    <3> QED
      BY <3>1, <3>2, <3>6, <3>7, ExceptSeq
  <2> QED
    BY <1>0, <1>13, <2>5, <2>6 DEF Types, RecordEnd, power, locks, debts
<1>14. ASSUME NEW v \in Verb, Halt(v)
       PROVE  Types'
  <2>1. proc' \in [Verb -> ProcType]
    BY <1>0, <1>14, GoToTypes DEF Halt
  <2> QED
    BY <1>0, <1>14, <2>1 DEF Types, Halt, locks, debts
<1>15. ASSUME NEW v \in Verb, Close(v)
       PROVE  Types'
  <2> DEFINE r == proc[v].run
             how == IF At(v, "close") THEN "complete" ELSE "aborted"
             over == [journal[r] EXCEPT !.ending = how]
  <2>1. r \in DOMAIN journal
    BY <1>15 DEF Close, At, OwnRun, Underway
  <2>2. journal[r] \in RunType /\ journal \in Seq(RunType)
    BY <1>0, <2>1, ElementOfSeq, LenProperties DEF Types
  <2>3. over \in RunType
    BY <2>2 DEF RunType
  <2>4. journal' = [journal EXCEPT ![r] = over]
    BY <1>15, <2>1 DEF Close
  <2>5. journal' \in Seq(RunType) /\ DOMAIN journal' = DOMAIN journal
    <3> HIDE DEF over, r
    <3> QED
      BY <2>1, <2>2, <2>3, <2>4, ExceptSeq
  <2>6. /\ proc' \in [Verb -> ProcType]
        /\ undoLock' \in Verb \union {Free} /\ sleepLock' \in Verb \union {Free}
    BY <1>0, <1>15, ExitTypes DEF Close
  <2> QED
    BY <1>0, <1>15, <2>1, <2>5, <2>6 DEF Types, Close, power
<1>16. ASSUME NEW v \in Verb, ReadEpisode(v)
       PROVE  Types'
  <2>1. CASE Exit(v)
    <3>1. /\ proc' \in [Verb -> ProcType]
          /\ undoLock' \in Verb \union {Free} /\ sleepLock' \in Verb \union {Free}
      BY <1>0, <2>1, ExitTypes
    <3> QED
      BY <1>0, <1>16, <3>1 DEF Types, ReadEpisode, power, debts
  <2>2. CASE ~Exit(v)
    <3> DEFINE steps == StepsToUndo(journal)
    <3>1. /\ proc' = [proc EXCEPT ![v].pc = "undo", ![v].todo = steps]
          /\ UNCHANGED locks
      BY <1>16, <2>2 DEF ReadEpisode
    <3>2. steps \in Seq([run : Nat, target : Targets])
      BY <1>0, StepsToUndoHolds DEF Types
    <3>3. proc[v] \in ProcType /\ proc \in [Verb -> ProcType]
      BY <1>0 DEF Types
    <3> HIDE DEF steps
    <3>4. [proc[v] EXCEPT !.pc = "undo", !.todo = steps] \in ProcType
      BY <3>2, <3>3 DEF ProcType
    <3>5. proc' \in [Verb -> ProcType]
      BY <3>1, <3>3, <3>4
    <3> QED
      BY <1>0, <1>16, <3>1, <3>5 DEF Types, ReadEpisode, power, locks, debts
  <2> QED
    BY <2>1, <2>2
<1>17. ASSUME NEW v \in Verb, Undo(v)
       PROVE  Types'
  <2> DEFINE front == Front(proc[v].todo)
  <2>1. front \in Seq([run : Nat, target : Targets])
    BY <1>0, <1>17, ProcFields, FrontType DEF Undo
  <2>2. proc[v] \in ProcType /\ proc \in [Verb -> ProcType]
    BY <1>0 DEF Types
  <2>3. proc' = [proc EXCEPT ![v].todo = front]
    BY <1>17, <2>2 DEF Undo, ProcType
  <2> HIDE DEF front
  <2>4. [proc[v] EXCEPT !.todo = front] \in ProcType
    BY <2>1, <2>2 DEF ProcType
  <2>5. proc' \in [Verb -> ProcType]
    BY <2>2, <2>3, <2>4
  <2>6. down' \subseteq Targets /\ owed' \subseteq Targets
    BY <1>0, <1>17 DEF Types, Undo
  <2>7. lapsed' \subseteq owed' /\ failed' \subseteq owed'
    BY <1>0, <1>17 DEF Types, Undo
  <2> QED
    BY <1>0, <1>17, <2>5, <2>6, <2>7 DEF Types, Undo, power, locks
<1>18. ASSUME NEW v \in Verb, RecordUndo(v)
       PROVE  Types'
  <2>1. PICK late \in BOOLEAN :
          journal' = Append(journal, [verb |-> v, late |-> late, done |-> <<>>,
                                      ending |-> "complete"])
    BY <1>18 DEF RecordUndo, Lateness
  <2>2. [verb |-> v, late |-> late, done |-> <<>>, ending |-> "complete"] \in RunType
    BY EmptySeq DEF RunType
  <2>3. journal \in Seq(RunType)
    BY <1>0 DEF Types
  <2>4. journal' \in Seq(RunType) /\ DOMAIN journal \subseteq DOMAIN journal'
    BY <2>1, <2>2, <2>3, AppendedRuns
  <2>5. settled' \subseteq DOMAIN journal'
    BY <1>0, <1>18, <2>4 DEF RecordUndo, Types, Episode
  <2>6. /\ proc' \in [Verb -> ProcType]
        /\ undoLock' \in Verb \union {Free} /\ sleepLock' \in Verb \union {Free}
    BY <1>0, <1>18, ExitTypes DEF RecordUndo
  <2> QED
    BY <1>0, <1>18, <2>4, <2>5, <2>6 DEF Types, RecordUndo, power
<1>19. ASSUME NEW v \in Verb, Killed(v)
       PROVE  Types'
  <2>1. /\ proc' \in [Verb -> ProcType]
        /\ undoLock' \in Verb \union {Free} /\ sleepLock' \in Verb \union {Free}
    BY <1>0, <1>19, ExitTypes DEF Killed
  <2>2. Flying(v) \subseteq Targets
    BY <1>0, ProcFields, ElementsInSet DEF Flying
  <2>3. /\ down' \subseteq Targets /\ owed' \subseteq Targets
        /\ lapsed' \subseteq owed' /\ owed \subseteq owed'
    BY <1>0, <1>19, <2>2 DEF Types, Killed
  <2> QED
    BY <1>0, <1>19, <2>1, <2>3 DEF Types, Killed, power
<1>20. ASSUME MainsChange
       PROVE  Types'
  <2>1. mains' \in BOOLEAN /\ online' \in BOOLEAN
    BY <1>0, <1>20 DEF Types, MainsChange
  <2>2. turns' \in 0..MaxTurns
    <3>1. turns \in 0..MaxTurns /\ turns < MaxTurns /\ turns' = turns + 1
      BY <1>0, <1>20 DEF Types, MainsChange
    <3> QED
      BY <3>1, BoundsAssumption
  <2> QED
    BY <1>0, <1>20, <2>1, <2>2 DEF Types, MainsChange, locks, debts
<1>21. ASSUME OperatorReboots
       PROVE  Types'
  <2>1. turns' \in 0..MaxTurns
    <3>1. turns \in 0..MaxTurns /\ turns < MaxTurns /\ turns' = turns + 1
      BY <1>0, <1>21 DEF Types, OperatorReboots
    <3> QED
      BY <3>1, BoundsAssumption
  <2> QED
    BY <1>0, <1>21, <2>1 DEF Types, OperatorReboots, locks, debts
<1>22. ASSUME MachineStops
       PROVE  Types'
  <2>1. proc' \in [Verb -> ProcType]
    BY <1>22, IdleType DEF MachineStops
  <2>2. down' \subseteq Targets /\ lapsed' \subseteq owed'
    BY <1>0, <1>22 DEF Types, MachineStops, Targets
  <2> QED
    BY <1>0, <1>22, <2>1, <2>2 DEF Types, MachineStops
<1>23. ASSUME Boot
       PROVE  Types'
  <2>1. proc' \in [Verb -> ProcType]
    BY <1>0, <1>23, GoToTypes DEF Boot, Verb, Undoers
  <2> QED
    BY <1>0, <1>23, <2>1 DEF Types, Boot, locks, debts
<1> QED
  BY <1>1, <1>2, <1>3, <1>4, <1>5, <1>6, <1>7, <1>8, <1>9, <1>10, <1>11, <1>12, <1>13, <1>14,
     <1>15, <1>16, <1>17, <1>18, <1>19, <1>20, <1>21, <1>22, <1>23
  DEF Next, Environment, Process

-----------------------------------------------------------------------------
(***************************************************************************)
(* What a step does to one process: p is where it was, q where it is.      *)
(***************************************************************************)
Enters(v, p, q) ==
  /\ q.pc \in {"lock", "plan", "await", "read"} \intersect Places(v) /\ p.pc \notin Underway
  /\ q.wave = p.wave /\ q.waves = p.waves

Plans(p, q) ==
  /\ p.pc = "plan" /\ q.pc = "built" /\ q.wave = <<>>
  /\ \A k \in DOMAIN q.waves : q.waves[k] # <<>>

Opens(p, q) ==
  /\ p.pc = "built" /\ q.pc = "gate"
  /\ q.wave = p.wave /\ q.waves = p.waves /\ q.run = Len(journal) + 1

Abandons(p, q) ==
  /\ p.pc = "gate" /\ q.pc = "reverse"
  /\ q.wave = p.wave /\ q.waves = p.waves /\ q.run = p.run
  /\ q.todo = [k \in DOMAIN journal[p.run].done |->
                 [run |-> p.run, target |-> journal[p.run].done[k]]]

Ends(p, q) ==
  /\ <<p.pc, q.pc>> \in {<<"gate", "halt">>, <<"halt", "close">>}
  /\ q.wave = p.wave /\ q.waves = p.waves /\ q.run = p.run

TakesWave(p, q) ==
  /\ p.pc = "gate" /\ q.pc = "wave" /\ q.run = p.run
  /\ p.waves # <<>> /\ q.wave = Head(p.waves) /\ q.waves = Tail(p.waves)

Stops(p, q) ==
  /\ p.pc = "wave" /\ q.pc = "wave"
  /\ q.wave = p.wave /\ q.waves = p.waves /\ q.run = p.run

Records(p, q) ==
  /\ p.pc = "wave" /\ q.pc \in {"wave", "gate", "close"} /\ q.run = p.run
  /\ q.wave = Tail(p.wave) /\ q.waves = p.waves
  /\ q.pc = "wave" <=> Len(p.wave) # 1

Reads(p, q) ==
  /\ p.pc = "read" /\ q.pc = "undo" /\ q.wave = p.wave /\ q.waves = p.waves
  /\ Episode(journal) # {} /\ q.todo = StepsToUndo(journal)

Undoes(p, q) ==
  /\ p.pc \in {"undo", "reverse"} /\ q.pc = p.pc
  /\ q.wave = p.wave /\ q.waves = p.waves /\ q.run = p.run
  /\ p.todo # <<>> /\ q.todo = Front(p.todo)

Move(v, p, q) ==
  \/ q = p \/ q = Idle
  \/ Enters(v, p, q) \/ Plans(p, q) \/ (Opens(p, q) /\ Opened(v)) \/ Abandons(p, q)
  \/ Ends(p, q) \/ TakesWave(p, q) \/ Stops(p, q) \/ Records(p, q) \/ Reads(p, q) \/ Undoes(p, q)

Others(v) == \A u \in Verb : u # v => proc'[u] = proc[u]

\* A process that ends has nothing left, and the others are where they were.
LEMMA ExitDoes ==
  ASSUME Types, NEW v \in Verb, Exit(v)
  PROVE  Others(v) /\ proc'[v] = Idle
BY DEF Types, Exit, Others

\* One that only moves on keeps what it has in its hands.
LEMMA GoToDoes ==
  ASSUME Types, NEW v \in Verb, NEW place, GoTo(v, place)
  PROVE  /\ Others(v) /\ proc'[v].pc = place
         /\ proc'[v].wave = proc[v].wave /\ proc'[v].waves = proc[v].waves
         /\ proc'[v].run = proc[v].run /\ proc'[v].todo = proc[v].todo
         /\ proc'[v].result = proc[v].result
<1>1. proc \in [Verb -> ProcType] /\ proc[v] \in ProcType
  BY DEF Types
<1>2. proc' = [proc EXCEPT ![v].pc = place]
  BY DEF GoTo
<1>3. Others(v)
  BY <1>1, <1>2 DEF Others
<1>4. proc'[v] = [proc[v] EXCEPT !.pc = place]
  BY <1>1, <1>2
<1> QED
  BY <1>1, <1>3, <1>4 DEF ProcType

\* Planning a shutdown either ends there or leaves waves with something in them.
LEMMA PlanShutdownDoes ==
  ASSUME Types, NEW v \in Verb, PlanShutdown(v)
  PROVE  Others(v) /\ (proc'[v] = Idle \/ Plans(proc[v], proc'[v]))
<1>1. PICK guests \in Listed, status \in Statuses :
        proc' = [proc EXCEPT ![v] =
           IF StillReason(v, status)
           THEN [Idle EXCEPT !.pc = "built", !.gated = PowerIsTheReason(v, status),
                             !.waves = <<<<Noout>>>> \o KeepOnly(Tiers, guests)]
           ELSE Idle]
  BY DEF PlanShutdown
<1>2. Others(v)
  BY <1>1 DEF Types, Others
<1>3. CASE ~StillReason(v, status)
  BY <1>1, <1>2, <1>3 DEF Types
<1>4. CASE StillReason(v, status)
  <2> DEFINE kept == KeepOnly(Tiers, guests)
             all == <<<<Noout>>>> \o kept
  <2>1. proc'[v] = [Idle EXCEPT !.pc = "built", !.gated = PowerIsTheReason(v, status),
                                !.waves = all]
    BY <1>1, <1>4 DEF Types
  <2>2. \A k \in DOMAIN all : all[k] # <<>>
    <3>1. kept \in Seq(Seq(Guests)) /\ \A w \in ToSet(kept) : w # <<>>
      BY KeepOnlyType
    <3>2. \A k \in DOMAIN kept : kept[k] # <<>>
      BY <3>1 DEF ToSet
    <3>3. Len(kept) \in Nat /\ DOMAIN kept = 1..Len(kept)
      BY <3>1, LenProperties
    <3> DEFINE S == Seq(Guests) \union {<<Noout>>}
    <3>4. kept \in Seq(S) /\ <<<<Noout>>>> \in Seq(S) /\ Len(<<<<Noout>>>>) = 1
      <4>1. Seq(Guests) \subseteq S
        OBVIOUS
      <4>2. <<Noout>> \in S
        OBVIOUS
      <4> HIDE DEF S
      <4> QED
        BY <3>1, <4>1, <4>2, SeqMonotonic
    <3>5. /\ all \in Seq(S) /\ Len(all) = 1 + Len(kept)
          /\ \A k \in 1..(1 + Len(kept)) :
               all[k] = IF k <= 1 THEN <<<<Noout>>>>[k] ELSE kept[k - 1]
      <4> HIDE DEF S, kept
      <4> QED
        BY <3>4, ConcatProperties
    <3>6. DOMAIN all = 1..(1 + Len(kept))
      <4> HIDE DEF S, all
      <4> QED
        BY <3>5, LenProperties
    <3> HIDE DEF all, kept
    <3>7. ASSUME NEW k \in 1..(1 + Len(kept)) PROVE all[k] # <<>>
      <4>1. CASE k = 1
        <5>1. all[1] = <<<<Noout>>>>[1]
          BY <3>5, <4>1
        <5>2. <<<<Noout>>>>[1] = <<Noout>> /\ <<Noout>> # <<>>
          OBVIOUS
        <5> QED
          BY <4>1, <5>1, <5>2
      <4>2. CASE k # 1
        <5>1. k - 1 \in 1..Len(kept) /\ ~(k <= 1)
          BY <4>2, <3>3
        <5> QED
          BY <5>1, <3>5, <3>2, <3>3
      <4> QED
        BY <4>1, <4>2
    <3> QED
      BY <3>6, <3>7
  <2> HIDE DEF all
  <2>3. proc'[v].pc = "built" /\ proc'[v].wave = <<>> /\ proc'[v].waves = all
    BY <2>1 DEF Idle
  <2>4. proc[v].pc = "plan"
    BY DEF PlanShutdown, At
  <2> QED
    BY <1>2, <2>2, <2>3, <2>4 DEF Plans
<1> QED
  BY <1>3, <1>4

\* conserve ends there, or has one wave with something in it.
LEMMA PlanConserveDoes ==
  ASSUME IInv, PlanConserve
  PROVE  /\ Others("conserve")
         /\ \/ Exit("conserve") /\ proc'["conserve"] = Idle
            \/ UNCHANGED locks /\ Plans(proc["conserve"], proc'["conserve"])
<1>0. Types /\ "conserve" \in Verb
  BY DEF Verb, IInv
<1>1. CASE Exit("conserve")
  BY <1>0, <1>1, ExitDoes
<1>2. CASE ~Exit("conserve")
  <2>1. PICK wave :
          /\ wave # <<>>
          /\ proc' = [proc EXCEPT !["conserve"].pc = "built",
                                  !["conserve"].gated = TRUE,
                                  !["conserve"].waves = <<wave>>]
          /\ UNCHANGED locks
    BY <1>2 DEF PlanConserve
  <2>2. proc \in [Verb -> ProcType] /\ proc["conserve"] \in ProcType
    BY <1>0 DEF Types
  <2>3. Others("conserve")
    BY <2>1, <2>2 DEF Others
  <2>4. proc'["conserve"] = [proc["conserve"] EXCEPT !.pc = "built", !.gated = TRUE,
                                                     !.waves = <<wave>>]
    BY <1>0, <2>1, <2>2
  <2>5. /\ proc'["conserve"].pc = "built" /\ proc'["conserve"].wave = proc["conserve"].wave
        /\ proc'["conserve"].waves = <<wave>>
    BY <2>2, <2>4 DEF ProcType
  <2>6. proc["conserve"].pc = "plan"
    BY DEF PlanConserve, At
  <2>7. proc["conserve"].wave = <<>>
    BY <1>0, <2>6 DEF IInv, WavesFull, At
  <2>8. \A k \in DOMAIN <<wave>> : <<wave>>[k] # <<>>
    BY <2>1
  <2> QED
    BY <2>1, <2>3, <2>5, <2>6, <2>7, <2>8 DEF Plans
<1> QED
  BY <1>1, <1>2

\* Opening a run gives the process one of its own, at the journal's end.
LEMMA OpenDoes ==
  ASSUME Types, NEW v \in Verb, Open(v)
  PROVE  /\ Others(v) /\ At(v, "built")
         /\ \/ Exit(v) /\ proc'[v] = Idle /\ UNCHANGED journal
            \/ /\ Opens(proc[v], proc'[v]) /\ Opened(v)
               /\ proc'[v].result = proc[v].result
               /\ v = "conserve" \/ sleepLock = Free
               /\ sleepLock' = IF v = "conserve" THEN sleepLock ELSE v
               /\ UNCHANGED undoLock
<1>0. At(v, "built")
  BY DEF Open
<1>1. CASE Exit(v) /\ UNCHANGED journal
  BY <1>0, <1>1, ExitDoes
<1>2. CASE ~(Exit(v) /\ UNCHANGED journal)
  <2>1. /\ sleepLock' = IF v = "conserve" THEN sleepLock ELSE v
        /\ v = "conserve" \/ sleepLock = Free
        /\ Opened(v)
        /\ proc' = [proc EXCEPT ![v].pc = "gate", ![v].run = Len(journal) + 1]
        /\ UNCHANGED undoLock
    BY <1>2 DEF Open
  <2>2. proc \in [Verb -> ProcType] /\ proc[v] \in ProcType
    BY DEF Types
  <2>3. Others(v)
    BY <2>1, <2>2 DEF Others
  <2> DEFINE n == Len(journal) + 1
  <2> HIDE DEF n
  <2>4. proc'[v] = [proc[v] EXCEPT !.pc = "gate", !.run = n]
    BY <2>1, <2>2 DEF n
  <2>5. /\ proc'[v].pc = "gate" /\ proc'[v].wave = proc[v].wave
        /\ proc'[v].waves = proc[v].waves /\ proc'[v].run = n
        /\ proc'[v].result = proc[v].result
    BY <2>2, <2>4 DEF ProcType
  <2> QED
    BY <1>0, <2>1, <2>3, <2>5 DEF Opens, At, n
<1> QED
  BY <1>1, <1>2

\* A gate that abandons has everything the run completed to give back.
LEMMA GateAbandonsDoes ==
  ASSUME Types, NEW v \in Verb, GateAbandons(v)
  PROVE  Others(v) /\ Abandons(proc[v], proc'[v]) /\ proc'[v].result = proc[v].result
<1> DEFINE list == [k \in DOMAIN journal[proc[v].run].done |->
                      [run |-> proc[v].run, target |-> journal[proc[v].run].done[k]]]
<1>1. proc \in [Verb -> ProcType] /\ proc[v] \in ProcType
  BY DEF Types
<1>2. proc' = [proc EXCEPT ![v].pc = "reverse", ![v].todo = list]
  BY DEF GateAbandons
<1>3. proc[v].pc = "gate"
  BY DEF GateAbandons, At
<1> HIDE DEF list
<1>4. Others(v)
  BY <1>1, <1>2 DEF Others
<1>5. proc'[v] = [proc[v] EXCEPT !.pc = "reverse", !.todo = list]
  BY <1>1, <1>2
<1>6. /\ proc'[v].pc = "reverse" /\ proc'[v].wave = proc[v].wave
      /\ proc'[v].waves = proc[v].waves /\ proc'[v].run = proc[v].run
      /\ proc'[v].todo = list /\ proc'[v].result = proc[v].result
  BY <1>1, <1>5 DEF ProcType
<1> QED
  BY <1>3, <1>4, <1>6 DEF Abandons, list

\* A gate that passes lets the next wave begin, or the halt.
LEMMA GatePassesDoes ==
  ASSUME Types, NEW v \in Verb, GatePasses(v)
  PROVE  /\ Others(v) /\ (Ends(proc[v], proc'[v]) \/ TakesWave(proc[v], proc'[v]))
         /\ proc'[v].result = proc[v].result
<1>1. proc \in [Verb -> ProcType] /\ proc[v] \in ProcType
  BY DEF Types
<1>2. proc[v].pc = "gate"
  BY DEF GatePasses, At
<1>3. CASE proc[v].waves = <<>>
  <2>1. GoTo(v, "halt")
    BY <1>3 DEF GatePasses
  <2> QED
    BY <1>2, <2>1, GoToDoes DEF Ends
<1>4. CASE proc[v].waves # <<>>
  <2> DEFINE h == Head(proc[v].waves)
             t == Tail(proc[v].waves)
  <2>1. proc' = [proc EXCEPT ![v].pc = "wave", ![v].wave = h, ![v].waves = t]
    BY <1>4 DEF GatePasses
  <2> HIDE DEF h, t
  <2>2. Others(v)
    BY <1>1, <2>1 DEF Others
  <2>3. proc'[v] = [proc[v] EXCEPT !.pc = "wave", !.wave = h, !.waves = t]
    BY <1>1, <2>1
  <2>4. /\ proc'[v].pc = "wave" /\ proc'[v].wave = h /\ proc'[v].waves = t
        /\ proc'[v].run = proc[v].run /\ proc'[v].result = proc[v].result
    BY <1>1, <2>3 DEF ProcType
  <2> QED
    BY <1>2, <1>4, <2>2, <2>4 DEF TakesWave, h, t
<1> QED
  BY <1>3, <1>4

\* A stop leaves a result for its target, and nothing else in its process.
LEMMA StopDoes ==
  ASSUME Types, NEW v \in Verb, NEW t \in Targets, Stop(v, t)
  PROVE  /\ Others(v) /\ Stops(proc[v], proc'[v])
         /\ \A x \in Targets : x # t => proc'[v].result[x] = proc[v].result[x]
         /\ proc[v].result[t] = ""
<1>1. proc \in [Verb -> ProcType] /\ proc[v] \in ProcType
  BY DEF Types
<1>2. proc[v].pc = "wave" /\ proc[v].result[t] = ""
  BY DEF Stop, Flying, At
<1>3. PICK how \in {"done", "failed"} : proc' = [proc EXCEPT ![v].result[t] = how]
  BY DEF Stop
<1>4. Others(v)
  BY <1>1, <1>3 DEF Others
<1> DEFINE res == [proc[v].result EXCEPT ![t] = how]
<1>5. proc' = [proc EXCEPT ![v] = [proc[v] EXCEPT !.result = res]]
  BY <1>1, <1>3 DEF ProcType
<1>6. \A x \in Targets : x # t => res[x] = proc[v].result[x]
  BY <1>1 DEF ProcType
<1> HIDE DEF res
<1>7. proc'[v] = [proc[v] EXCEPT !.result = res]
  BY <1>1, <1>5
<1>8. /\ proc'[v].pc = proc[v].pc /\ proc'[v].wave = proc[v].wave
      /\ proc'[v].waves = proc[v].waves /\ proc'[v].run = proc[v].run
      /\ proc'[v].result = res
  BY <1>1, <1>7 DEF ProcType
<1> QED
  BY <1>2, <1>4, <1>6, <1>8 DEF Stops

\* The end of a step takes its target out of the wave.
LEMMA RecordEndDoes ==
  ASSUME IInv, NEW v \in Verb, RecordEnd(v)
  PROVE  /\ Others(v) /\ Records(proc[v], proc'[v])
         /\ \A x \in Targets : x # Head(proc[v].wave) =>
              proc'[v].result[x] = proc[v].result[x]
<1>0. Types
  BY DEF IInv
<1> DEFINE w == proc[v].wave
           t == Head(w)
           tail == Tail(w)
           place == IF Len(w) = 1 THEN AfterWave(v) ELSE "wave"
<1>1. proc \in [Verb -> ProcType] /\ proc[v] \in ProcType
  BY <1>0 DEF Types
<1>2. proc[v].pc = "wave"
  BY DEF RecordEnd, At
<1>3. proc' = [proc EXCEPT ![v].wave = tail, ![v].result[t] = "", ![v].pc = place]
  BY <1>1 DEF RecordEnd, ProcType
<1>4. /\ place \in {"wave", "gate", "close"}
      /\ place = "wave" <=> Len(w) # 1
  BY DEF AfterWave
<1> HIDE DEF tail, t, place, w
<1>5. Others(v)
  BY <1>1, <1>3 DEF Others
<1> DEFINE res == [proc[v].result EXCEPT ![t] = ""]
<1>6. \A x \in Targets : x # t => res[x] = proc[v].result[x]
  BY <1>1 DEF ProcType
<1>7. proc' = [proc EXCEPT ![v] = [proc[v] EXCEPT !.wave = tail, !.result = res, !.pc = place]]
  BY <1>1, <1>3 DEF ProcType
<1> HIDE DEF res
<1>8. proc'[v] = [proc[v] EXCEPT !.wave = tail, !.result = res, !.pc = place]
  BY <1>1, <1>7
<1>9. /\ proc'[v].pc = place /\ proc'[v].wave = tail /\ proc'[v].waves = proc[v].waves
      /\ proc'[v].run = proc[v].run /\ proc'[v].result = res
  BY <1>1, <1>8 DEF ProcType
<1> QED
  BY <1>2, <1>4, <1>5, <1>6, <1>9 DEF Records, tail, t, w

\* An undo that finds an episode has all of it to give back.
LEMMA ReadEpisodeDoes ==
  ASSUME Types, NEW v \in Verb, ReadEpisode(v)
  PROVE  /\ Others(v)
         /\ \/ Exit(v) /\ proc'[v] = Idle
            \/ /\ Reads(proc[v], proc'[v]) /\ UNCHANGED locks
               /\ proc'[v].result = proc[v].result
<1>1. CASE Exit(v)
  BY <1>1, ExitDoes
<1>2. CASE ~Exit(v)
  <2> DEFINE steps == StepsToUndo(journal)
  <2>1. /\ proc' = [proc EXCEPT ![v].pc = "undo", ![v].todo = steps]
        /\ Episode(journal) # {} /\ UNCHANGED locks /\ proc[v].pc = "read"
    BY <1>2 DEF ReadEpisode, At
  <2> HIDE DEF steps
  <2>2. proc \in [Verb -> ProcType] /\ proc[v] \in ProcType
    BY DEF Types
  <2>3. Others(v)
    BY <2>1, <2>2 DEF Others
  <2>4. proc'[v] = [proc[v] EXCEPT !.pc = "undo", !.todo = steps]
    BY <2>1, <2>2
  <2>5. /\ proc'[v].pc = "undo" /\ proc'[v].wave = proc[v].wave
        /\ proc'[v].waves = proc[v].waves /\ proc'[v].todo = steps
        /\ proc'[v].result = proc[v].result
    BY <2>2, <2>4 DEF ProcType
  <2> QED
    BY <2>1, <2>3, <2>5 DEF Reads, steps
<1> QED
  BY <1>1, <1>2

\* A step that is undone, or tried, is off the list.
LEMMA UndoDoes ==
  ASSUME Types, NEW v \in Verb, Undo(v)
  PROVE  Others(v) /\ Undoes(proc[v], proc'[v]) /\ proc'[v].result = proc[v].result
<1> DEFINE front == Front(proc[v].todo)
<1>1. proc \in [Verb -> ProcType] /\ proc[v] \in ProcType
  BY DEF Types
<1>2. /\ proc' = [proc EXCEPT ![v].todo = front] /\ proc[v].todo # <<>>
      /\ proc[v].pc \in {"undo", "reverse"}
  BY <1>1 DEF Undo, ProcType, At
<1> HIDE DEF front
<1>3. Others(v)
  BY <1>1, <1>2 DEF Others
<1>4. proc'[v] = [proc[v] EXCEPT !.todo = front]
  BY <1>1, <1>2
<1>5. /\ proc'[v].pc = proc[v].pc /\ proc'[v].wave = proc[v].wave
      /\ proc'[v].waves = proc[v].waves /\ proc'[v].run = proc[v].run
      /\ proc'[v].todo = front /\ proc'[v].result = proc[v].result
  BY <1>1, <1>4 DEF ProcType
<1> QED
  BY <1>2, <1>3, <1>5 DEF Undoes, front

\* In every step each process makes one of those moves.
LEMMA Moves ==
  ASSUME IInv, [Next]_vars, NEW u \in Verb
  PROVE  Move(u, proc[u], proc'[u])
<1>0. Types /\ InPlace
  BY DEF IInv
<1> DEFINE Goal == Move(u, proc[u], proc'[u])
<1>a. ASSUME proc' = proc PROVE Goal
  BY <1>a DEF Move
<1>b. ASSUME NEW v \in Verb, Others(v), u # v PROVE Goal
  BY <1>b DEF Move, Others
<1>c. ASSUME NEW v \in Verb, Exit(v) PROVE Goal
  <2>1. Others(v) /\ proc'[v] = Idle
    BY <1>0, <1>c, ExitDoes
  <2> QED
    BY <2>1 DEF Move, Others
<1>d. ASSUME NEW v \in Verb, NEW place \in {"lock", "plan", "await", "read"}, GoTo(v, place),
             place \in Places(v), proc[v].pc \notin Underway
      PROVE Goal
  <2>1. /\ Others(v) /\ proc'[v].pc = place
        /\ proc'[v].wave = proc[v].wave /\ proc'[v].waves = proc[v].waves
    BY <1>0, <1>d, GoToDoes
  <2>2. Enters(v, proc[v], proc'[v])
    BY <1>d, <2>1 DEF Enters
  <2> QED
    BY <2>1, <2>2 DEF Move, Others
<1>1. CASE UNCHANGED vars
  BY <1>a, <1>1 DEF vars
<1>2. ASSUME NEW v \in Verb, StartShutdown(v)
      PROVE  Goal
  <2>1. "plan" \in Places(v) /\ proc[v].pc \notin Underway
    BY <1>2 DEF Places, StartShutdown, Shutdowns, Undoers, MayStart, At, Underway
  <2> QED
    BY <1>2, <1>d, <2>1 DEF StartShutdown
<1>3. ASSUME NEW v \in Verb, PlanShutdown(v)
      PROVE  Goal
  <2>1. Others(v) /\ (proc'[v] = Idle \/ Plans(proc[v], proc'[v]))
    BY <1>0, <1>3, PlanShutdownDoes
  <2> QED
    BY <2>1 DEF Move, Others
<1>4. ASSUME StartConserve
      PROVE  Goal
  <2>1. /\ "lock" \in Places("conserve") /\ proc["conserve"].pc \notin Underway
        /\ "conserve" \in Verb
    BY <1>4 DEF Places, StartConserve, Undoers, MayStart, At, Underway, Verb
  <2> QED
    BY <1>4, <1>d, <2>1 DEF StartConserve
<1>5. ASSUME StartCancel
      PROVE  Goal
  <2>1. /\ "lock" \in Places("cancel") /\ "cancel" \in Verb
        /\ At("cancel", "idle") => proc["cancel"].pc \notin Underway
    BY DEF Places, Undoers, At, Underway, Verb
  <2> QED
    BY <1>5, <1>a, <1>d, <2>1 DEF StartCancel
<1>6. ASSUME NEW v \in Verb, TakeUndoLock(v)
      PROVE  Goal
  <2>1. proc[v].pc = "lock" /\ proc[v].pc \in Places(v)
    BY <1>0, <1>6 DEF TakeUndoLock, At, InPlace
  <2>2. v = "conserve" \/ v \in Undoers
    BY <2>1 DEF Places, Underway
  <2> DEFINE place == IF v = "conserve" THEN "plan" ELSE "await"
  <2>3. place \in {"lock", "plan", "await", "read"} /\ place \in Places(v)
    BY <2>2 DEF Places, Undoers
  <2>4. GoTo(v, place)
    BY <1>6 DEF TakeUndoLock
  <2>5. proc[v].pc \notin Underway
    BY <2>1 DEF Underway
  <2> HIDE DEF place
  <2> QED
    BY <1>d, <2>3, <2>4, <2>5
<1>7. ASSUME PlanConserve
      PROVE  Goal
  <2>1. /\ Others("conserve")
        /\ proc'["conserve"] = Idle \/ Plans(proc["conserve"], proc'["conserve"])
    BY <1>7, PlanConserveDoes
  <2> QED
    BY <2>1 DEF Move, Others
<1>8. ASSUME NEW v \in Verb, TakeSequenceLock(v)
      PROVE  Goal
  <2>1. proc[v].pc = "await" /\ proc[v].pc \in Places(v)
    BY <1>0, <1>8 DEF TakeSequenceLock, At, InPlace
  <2>2. "read" \in Places(v) /\ proc[v].pc \notin Underway
    BY <2>1 DEF Places, Underway
  <2> QED
    BY <1>8, <1>d, <2>2 DEF TakeSequenceLock
<1>9. ASSUME NEW v \in Verb, Open(v)
      PROVE  Goal
  <2>1. /\ Others(v)
        /\ proc'[v] = Idle \/ (Opens(proc[v], proc'[v]) /\ Opened(v))
    BY <1>0, <1>9, OpenDoes
  <2> QED
    BY <2>1 DEF Move, Others
<1>10. ASSUME NEW v \in Verb, GateAbandons(v)
       PROVE  Goal
  <2>1. Others(v) /\ Abandons(proc[v], proc'[v])
    BY <1>0, <1>10, GateAbandonsDoes
  <2> QED
    BY <2>1 DEF Move, Others
<1>11. ASSUME NEW v \in Verb, GatePasses(v)
       PROVE  Goal
  <2>1. Others(v) /\ (Ends(proc[v], proc'[v]) \/ TakesWave(proc[v], proc'[v]))
    BY <1>0, <1>11, GatePassesDoes
  <2> QED
    BY <2>1 DEF Move, Others
<1>12. ASSUME NEW v \in Verb, NEW t \in Targets, Stop(v, t)
       PROVE  Goal
  <2>1. Others(v) /\ Stops(proc[v], proc'[v])
    BY <1>0, <1>12, StopDoes
  <2> QED
    BY <2>1 DEF Move, Others
<1>13. ASSUME NEW v \in Verb, RecordEnd(v)
       PROVE  Goal
  <2>1. Others(v) /\ Records(proc[v], proc'[v])
    BY <1>13, RecordEndDoes
  <2> QED
    BY <2>1 DEF Move, Others
<1>14. ASSUME NEW v \in Verb, Halt(v)
       PROVE  Goal
  <2>1. GoTo(v, "close") /\ proc[v].pc = "halt"
    BY <1>14 DEF Halt, At
  <2>2. Others(v) /\ Ends(proc[v], proc'[v])
    BY <1>0, <2>1, GoToDoes DEF Ends
  <2> QED
    BY <2>2 DEF Move, Others
<1>15. ASSUME NEW v \in Verb, Close(v)
       PROVE  Goal
  BY <1>15, <1>c DEF Close
<1>16. ASSUME NEW v \in Verb, ReadEpisode(v)
       PROVE  Goal
  <2>1. Others(v) /\ (proc'[v] = Idle \/ Reads(proc[v], proc'[v]))
    BY <1>0, <1>16, ReadEpisodeDoes
  <2> QED
    BY <2>1 DEF Move, Others
<1>17. ASSUME NEW v \in Verb, Undo(v)
       PROVE  Goal
  <2>1. Others(v) /\ Undoes(proc[v], proc'[v])
    BY <1>0, <1>17, UndoDoes
  <2> QED
    BY <2>1 DEF Move, Others
<1>18. ASSUME NEW v \in Verb, RecordUndo(v)
       PROVE  Goal
  BY <1>18, <1>c DEF RecordUndo
<1>19. ASSUME NEW v \in Verb, Killed(v)
       PROVE  Goal
  BY <1>19, <1>c DEF Killed
<1>20. CASE MainsChange
  BY <1>20, <1>a DEF MainsChange
<1>21. CASE OperatorReboots
  BY <1>21, <1>a DEF OperatorReboots
<1>22. CASE MachineStops
  BY <1>22 DEF MachineStops, Move
<1>23. CASE Boot
  <2>1. /\ GoTo("wake", "lock") /\ "wake" \in Verb /\ "lock" \in Places("wake")
        /\ proc["wake"].pc \in Places("wake")
    BY <1>0, <1>23 DEF Boot, Verb, Undoers, Places, InPlace
  <2>2. proc["wake"].pc \notin Underway
    BY <2>1 DEF Places, Undoers, Underway
  <2> QED
    BY <1>d, <2>1, <2>2
<1> QED
  BY <1>1, <1>2, <1>3, <1>4, <1>5, <1>6, <1>7, <1>8, <1>9, <1>10, <1>11, <1>12, <1>13, <1>14,
     <1>15, <1>16, <1>17, <1>18, <1>19, <1>20, <1>21, <1>22, <1>23
  DEF Next, Environment, Process

-----------------------------------------------------------------------------
(***************************************************************************)
(* What a step does to the journal, and to what is settled.                *)
(***************************************************************************)
OpensRun(v) ==
  /\ proc[v].pc = "built" /\ v \notin Undoers /\ Opened(v)
  /\ v = "conserve" \/ sleepLock = Free
  /\ UNCHANGED settled

RecordsEnd(v) ==
  /\ proc[v].pc = "wave" /\ UNCHANGED settled
  /\ journal' = [journal EXCEPT ![proc[v].run].done = Append(@, Head(proc[v].wave))]

ClosesRun(v) ==
  /\ proc'[v] = Idle
  /\ \/ /\ proc[v].pc = "close" /\ UNCHANGED settled
        /\ journal' = [journal EXCEPT ![proc[v].run].ending = "complete"]
     \/ /\ proc[v].pc = "reverse" /\ settled' = settled \union {proc[v].run}
        /\ journal' = [journal EXCEPT ![proc[v].run].ending = "aborted"]

RecordsUndo(v) ==
  /\ proc[v].pc = "undo" /\ v \in Undoers /\ proc'[v] = Idle
  /\ settled' = settled \union Episode(journal)
  /\ \E late \in BOOLEAN :
       journal' = Append(journal, [verb |-> v, late |-> late, done |-> <<>>,
                                   ending |-> "complete"])

\* Only opening, the end of a step, closing and a recorded undo write a line.
LEMMA JournalMoves ==
  ASSUME IInv, [Next]_vars
  PROVE  \/ UNCHANGED <<journal, settled>>
         \/ \E v \in Verb : OpensRun(v) \/ RecordsEnd(v) \/ ClosesRun(v) \/ RecordsUndo(v)
<1>0. Types /\ InPlace
  BY DEF IInv
<1> DEFINE Goal == \/ UNCHANGED <<journal, settled>>
                   \/ \E v \in Verb : OpensRun(v) \/ RecordsEnd(v) \/ ClosesRun(v) \/ RecordsUndo(v)
<1> SUFFICES Goal
  OBVIOUS
<1>1. CASE UNCHANGED vars
  BY <1>1 DEF vars, debts
<1>2. CASE MainsChange \/ OperatorReboots \/ MachineStops \/ Boot \/ StartConserve \/ StartCancel
  BY <1>2 DEF MainsChange, OperatorReboots, MachineStops, Boot, StartConserve, StartCancel, debts
<1>3. ASSUME NEW v \in Verb, StartShutdown(v) \/ PlanShutdown(v) \/ TakeUndoLock(v) \/ Killed(v)
      PROVE  Goal
  BY <1>3 DEF StartShutdown, PlanShutdown, TakeUndoLock, Killed, debts
<1>4. CASE PlanConserve
  BY <1>4 DEF PlanConserve, debts
<1>5. ASSUME NEW v \in Verb,
             TakeSequenceLock(v) \/ GateAbandons(v) \/ GatePasses(v) \/ Halt(v) \/ ReadEpisode(v)
      PROVE  Goal
  BY <1>5 DEF TakeSequenceLock, GateAbandons, GatePasses, Halt, ReadEpisode, debts
<1>6. ASSUME NEW v \in Verb, NEW t \in Targets, Stop(v, t)
      PROVE  Goal
  BY <1>6 DEF Stop
<1>11. ASSUME NEW v \in Verb, Undo(v)
       PROVE  Goal
  BY <1>11 DEF Undo
<1>7. ASSUME NEW v \in Verb, Open(v)
      PROVE  Goal
  <2>1. proc[v].pc = "built" /\ UNCHANGED settled
    BY <1>7 DEF Open, At, debts
  <2>2. v \notin Undoers
    BY <1>0, <2>1 DEF InPlace, Places
  <2>3. CASE UNCHANGED journal
    BY <2>1, <2>3
  <2>4. CASE ~UNCHANGED journal
    <3>1. Opened(v) /\ (v = "conserve" \/ sleepLock = Free)
      BY <1>7, <2>4 DEF Open
    <3> QED
      BY <2>1, <2>2, <3>1 DEF OpensRun
  <2> QED
    BY <2>3, <2>4
<1>8. ASSUME NEW v \in Verb, RecordEnd(v)
      PROVE  Goal
  <2>1. proc[v].pc = "wave" /\ UNCHANGED settled
    BY <1>8 DEF RecordEnd, At, debts
  <2>2. \/ UNCHANGED journal
        \/ journal' = [journal EXCEPT ![proc[v].run].done = Append(@, Head(proc[v].wave))]
    BY <1>8 DEF RecordEnd
  <2> QED
    BY <2>1, <2>2 DEF RecordsEnd
<1>9. ASSUME NEW v \in Verb, Close(v)
      PROVE  Goal
  <2>1. proc'[v] = Idle
    BY <1>0, <1>9, ExitDoes DEF Close
  <2>2. CASE proc[v].pc = "close"
    BY <1>9, <2>1, <2>2 DEF Close, At, ClosesRun
  <2>3. CASE proc[v].pc = "reverse"
    BY <1>9, <2>1, <2>3 DEF Close, At, ClosesRun
  <2> QED
    BY <1>9, <2>2, <2>3 DEF Close, At
<1>10. ASSUME NEW v \in Verb, RecordUndo(v)
       PROVE  Goal
  <2>1. proc'[v] = Idle /\ proc[v].pc = "undo"
    BY <1>0, <1>10, ExitDoes DEF RecordUndo, At
  <2>2. v \in Undoers
    BY <1>0, <2>1 DEF InPlace, Places, Underway
  <2>3. settled' = settled \union Episode(journal)
    BY <1>10 DEF RecordUndo
  <2>4. \E late \in BOOLEAN :
          journal' = Append(journal, [verb |-> v, late |-> late, done |-> <<>>,
                                      ending |-> "complete"])
    BY <1>10 DEF RecordUndo, Lateness
  <2> QED
    BY <2>1, <2>2, <2>3, <2>4 DEF RecordsUndo
<1> QED
  <2> HIDE DEF Goal
  <2> QED
    BY <1>1, <1>2, <1>3, <1>4, <1>5, <1>6, <1>7, <1>8, <1>9, <1>10, <1>11
    DEF Next, Environment, Process

\* A journal, its runs, and what each completed.
LEMMA JournalType ==
  ASSUME Types
  PROVE  /\ Len(journal) \in Nat /\ DOMAIN journal = 1..Len(journal)
         /\ \A i \in DOMAIN journal : journal[i] \in RunType /\ journal[i].done \in Seq(Targets)
<1>1. /\ journal \in Seq(RunType) /\ Len(journal) \in Nat /\ DOMAIN journal = 1..Len(journal)
  BY LenProperties DEF Types
<1>2. \A i \in DOMAIN journal : journal[i] \in RunType
  BY <1>1, ElementOfSeq
<1> QED
  BY <1>1, <1>2 DEF RunType

\* A run that opens is the last one, and leaves the others alone.
LEMMA OpenedDoes ==
  ASSUME Types, NEW v \in Verb, Opened(v)
  PROVE  /\ DOMAIN journal \subseteq DOMAIN journal' /\ Len(journal') = Len(journal) + 1
         /\ Len(journal) \in Nat
         /\ DOMAIN journal = 1..Len(journal) /\ DOMAIN journal' = 1..Len(journal')
         /\ \A i \in DOMAIN journal : journal'[i] = journal[i]
         /\ journal'[Len(journal')].verb = v /\ journal'[Len(journal')].ending = ""
         /\ journal'[Len(journal')].done = <<>>
<1>1. PICK late \in BOOLEAN :
        journal' = Append(journal, [verb |-> v, late |-> late, done |-> <<>>, ending |-> ""])
  BY DEF Opened, Lateness
<1> DEFINE run == [verb |-> v, late |-> late, done |-> <<>>, ending |-> ""]
<1>2. run \in RunType
  BY EmptySeq DEF RunType
<1>3. run.verb = v /\ run.ending = "" /\ run.done = <<>>
  OBVIOUS
<1>4. journal \in Seq(RunType)
  BY DEF Types
<1>5. journal' = Append(journal, run)
  BY <1>1
<1> HIDE DEF run
<1>6. /\ DOMAIN journal \subseteq DOMAIN journal' /\ Len(journal') = Len(journal) + 1
      /\ Len(journal) \in Nat
      /\ DOMAIN journal = 1..Len(journal) /\ DOMAIN journal' = 1..Len(journal')
      /\ \A i \in DOMAIN journal : journal'[i] = journal[i]
      /\ journal'[Len(journal')] = run
  BY <1>2, <1>4, <1>5, AppendedRuns
<1> QED
  BY <1>3, <1>6

\* So is an undo that is recorded.
LEMMA RecordsUndoDoes ==
  ASSUME Types, NEW v \in Verb, RecordsUndo(v)
  PROVE  /\ DOMAIN journal \subseteq DOMAIN journal' /\ Len(journal') = Len(journal) + 1
         /\ Len(journal) \in Nat
         /\ DOMAIN journal = 1..Len(journal) /\ DOMAIN journal' = 1..Len(journal')
         /\ \A i \in DOMAIN journal : journal'[i] = journal[i]
         /\ journal'[Len(journal')].verb = v /\ v \in Undoers
<1>1. PICK late \in BOOLEAN :
        journal' = Append(journal, [verb |-> v, late |-> late, done |-> <<>>,
                                    ending |-> "complete"])
  BY DEF RecordsUndo
<1> DEFINE run == [verb |-> v, late |-> late, done |-> <<>>, ending |-> "complete"]
<1>2. run \in RunType
  BY EmptySeq DEF RunType
<1>3. run.verb = v
  OBVIOUS
<1>4. journal \in Seq(RunType) /\ v \in Undoers
  BY DEF Types, RecordsUndo
<1>5. journal' = Append(journal, run)
  BY <1>1
<1> HIDE DEF run
<1>6. /\ DOMAIN journal \subseteq DOMAIN journal' /\ Len(journal') = Len(journal) + 1
      /\ Len(journal) \in Nat
      /\ DOMAIN journal = 1..Len(journal) /\ DOMAIN journal' = 1..Len(journal')
      /\ \A i \in DOMAIN journal : journal'[i] = journal[i]
      /\ journal'[Len(journal')] = run
  BY <1>2, <1>4, <1>5, AppendedRuns
<1> QED
  BY <1>3, <1>4, <1>6

\* The end of a step adds its target to what its run completed.
LEMMA RecordsEndDoes ==
  ASSUME IInv, NEW v \in Verb, RecordsEnd(v)
  PROVE  LET r == proc[v].run IN
         /\ r \in DOMAIN journal /\ DOMAIN journal' = DOMAIN journal
         /\ Len(journal') = Len(journal)
         /\ \A i \in DOMAIN journal :
              /\ i # r => journal'[i] = journal[i]
              /\ journal'[i].verb = journal[i].verb /\ journal'[i].late = journal[i].late
              /\ journal'[i].ending = journal[i].ending
         /\ ToSet(journal'[r].done) = ToSet(journal[r].done) \union {Head(proc[v].wave)}
<1> DEFINE r == proc[v].run
           t == Head(proc[v].wave)
<1>0. Types
  BY DEF IInv
<1>1. r \in DOMAIN journal /\ proc[v].wave # <<>>
  BY DEF RecordsEnd, IInv, OwnRun, Underway, WavesFull, At
<1>2. t \in Targets
  BY <1>0, <1>1, ProcFields, HeadTailProperties
<1>3. /\ journal \in Seq(RunType) /\ journal[r] \in RunType /\ journal[r].done \in Seq(Targets)
      /\ DOMAIN journal = 1..Len(journal) /\ Len(journal) \in Nat
  BY <1>0, <1>1, JournalType DEF Types
<1> DEFINE more == Append(journal[r].done, t)
           run == [journal[r] EXCEPT !.done = more]
<1>4. journal' = [journal EXCEPT ![r] = run]
  BY <1>1 DEF RecordsEnd
<1>5. ToSet(more) = ToSet(journal[r].done) \union {t}
  <2> DEFINE d == journal[r].done
             one == <<t>>
  <2>1. d \in Seq(Targets)
    BY <1>3
  <2> HIDE DEF t
  <2>2. one \in Seq(Targets) /\ ToSet(one) = {t}
    <3>1. DOMAIN one = {1} /\ one[1] = t
      OBVIOUS
    <3> QED
      BY <1>2, <3>1 DEF ToSet
  <2> HIDE DEF d
  <2>3. Append(d, t) = d \o one
    BY <1>2, <2>1, AppendIsConcat
  <2> HIDE DEF one
  <2>4. ToSet(d \o one) = ToSet(d) \union {t}
    BY <2>1, <2>2, ConcatElements
  <2> QED
    BY <2>3, <2>4 DEF d
<1> HIDE DEF more
<1>6. /\ run.verb = journal[r].verb /\ run.late = journal[r].late
      /\ run.ending = journal[r].ending /\ run.done = more
  BY <1>3 DEF RunType
<1> HIDE DEF run
<1>7. journal'[r] = run /\ DOMAIN journal' = DOMAIN journal
      /\ \A i \in DOMAIN journal : i # r => journal'[i] = journal[i]
  BY <1>1, <1>4
<1>8. Len(journal') = Len(journal)
  BY <1>3, <1>7, LenOfDomain
<1> QED
  BY <1>1, <1>5, <1>6, <1>7, <1>8

\* Closing a run changes how it ended.
LEMMA ClosesRunDoes ==
  ASSUME IInv, NEW v \in Verb, ClosesRun(v)
  PROVE  LET r == proc[v].run IN
         /\ r \in DOMAIN journal /\ DOMAIN journal' = DOMAIN journal
         /\ Len(journal') = Len(journal)
         /\ \A i \in DOMAIN journal :
              /\ i # r => journal'[i] = journal[i]
              /\ journal'[i].verb = journal[i].verb /\ journal'[i].late = journal[i].late
              /\ journal'[i].done = journal[i].done
         /\ journal'[r].ending = IF proc[v].pc = "reverse" THEN "aborted" ELSE "complete"
<1> DEFINE r == proc[v].run
           how == IF proc[v].pc = "reverse" THEN "aborted" ELSE "complete"
           run == [journal[r] EXCEPT !.ending = how]
<1>0. Types
  BY DEF IInv
<1>1. r \in DOMAIN journal
  BY DEF ClosesRun, IInv, OwnRun, Underway
<1>2. /\ journal \in Seq(RunType) /\ journal[r] \in RunType
      /\ DOMAIN journal = 1..Len(journal) /\ Len(journal) \in Nat
  BY <1>0, <1>1, JournalType DEF Types
<1>3. journal' = [journal EXCEPT ![r] = run]
  BY <1>1 DEF ClosesRun
<1>4. /\ run.verb = journal[r].verb /\ run.late = journal[r].late
      /\ run.done = journal[r].done /\ run.ending = how
  BY <1>2 DEF RunType
<1> HIDE DEF run
<1>5. journal'[r] = run /\ DOMAIN journal' = DOMAIN journal
      /\ \A i \in DOMAIN journal : i # r => journal'[i] = journal[i]
  BY <1>1, <1>3
<1>6. Len(journal') = Len(journal)
  BY <1>2, <1>5, LenOfDomain
<1> QED
  BY <1>1, <1>4, <1>5, <1>6

\* Whatever a step writes, a run stays whose it was and what it completed stays so.
LEMMA JournalGrows ==
  ASSUME IInv, [Next]_vars
  PROVE  \A i \in DOMAIN journal :
           /\ i \in DOMAIN journal' /\ journal'[i].verb = journal[i].verb
           /\ journal'[i].late = journal[i].late
           /\ ToSet(journal[i].done) \subseteq ToSet(journal'[i].done)
<1>0. Types
  BY DEF IInv
<1>1. CASE UNCHANGED journal
  BY <1>1
<1>2. ASSUME NEW v \in Verb, OpensRun(v)
      PROVE  \A i \in DOMAIN journal : i \in DOMAIN journal' /\ journal'[i] = journal[i]
  BY <1>0, <1>2, OpenedDoes DEF OpensRun
<1>3. ASSUME NEW v \in Verb, RecordsUndo(v)
      PROVE  \A i \in DOMAIN journal : i \in DOMAIN journal' /\ journal'[i] = journal[i]
  BY <1>0, <1>3, RecordsUndoDoes
<1>4. ASSUME NEW v \in Verb, RecordsEnd(v)
      PROVE  \A i \in DOMAIN journal :
               /\ i \in DOMAIN journal' /\ journal'[i].verb = journal[i].verb
               /\ journal'[i].late = journal[i].late
               /\ ToSet(journal[i].done) \subseteq ToSet(journal'[i].done)
  BY <1>4, RecordsEndDoes
<1>5. ASSUME NEW v \in Verb, ClosesRun(v)
      PROVE  \A i \in DOMAIN journal :
               /\ i \in DOMAIN journal' /\ journal'[i].verb = journal[i].verb
               /\ journal'[i].late = journal[i].late
               /\ ToSet(journal[i].done) \subseteq ToSet(journal'[i].done)
  BY <1>5, ClosesRunDoes
<1> QED
  BY <1>1, <1>2, <1>3, <1>4, <1>5, JournalMoves

-----------------------------------------------------------------------------
(***************************************************************************)
(* One part of the invariant at a time.                                    *)
(***************************************************************************)
\* Each verb goes only where that verb goes.
LEMMA InPlaceStep ==
  ASSUME IInv, [Next]_vars
  PROVE  InPlace'
<1> SUFFICES ASSUME NEW u \in Verb
             PROVE  proc'[u].pc \in Places(u)
  BY DEF InPlace
<1> DEFINE p == proc[u]
           q == proc'[u]
<1>1. p.pc \in Places(u) /\ Move(u, p, q)
  BY Moves DEF IInv, InPlace
<1>2. Idle.pc = "idle" /\ "idle" \in Places(u)
  BY DEF Idle, Places
<1> HIDE DEF p, q
<1>3. CASE q = p \/ q = Idle
  BY <1>1, <1>2, <1>3 DEF q
<1>4. CASE Enters(u, p, q)
  BY <1>4 DEF Enters, q
<1>5. CASE Plans(p, q) \/ Opens(p, q) \/ Abandons(p, q) \/ Ends(p, q) \/ TakesWave(p, q)
  BY <1>1, <1>5 DEF Plans, Opens, Abandons, Ends, TakesWave, Places, Underway, q
<1>6. CASE Stops(p, q) \/ Records(p, q) \/ Reads(p, q) \/ Undoes(p, q)
  BY <1>1, <1>6 DEF Stops, Records, Reads, Undoes, Places, Underway, q
<1> QED
  BY <1>1, <1>3, <1>4, <1>5, <1>6 DEF Move

\* A process that ends gives up its own locks only.
LEMMA ExitKeepsLocks ==
  ASSUME IInv, NEW v \in Verb, Exit(v)
  PROVE  LocksHeld'
<1>1. Types /\ LocksHeld
  BY DEF IInv
<1>2. Others(v) /\ proc'[v] = Idle
  BY <1>1, ExitDoes
<1>3. ~NeedsUndoLock(v, "idle") /\ ~NeedsSleepLock(v, "idle") /\ Idle.pc = "idle"
  BY DEF NeedsUndoLock, NeedsSleepLock, Underway, Idle
<1>4. ASSUME NEW u \in Verb, u # v
      PROVE  /\ NeedsUndoLock(u, proc[u].pc) => undoLock' = u
             /\ NeedsSleepLock(u, proc[u].pc) => sleepLock' = u
  BY <1>1, <1>4 DEF LocksHeld, Exit
<1> QED
  BY <1>2, <1>3, <1>4 DEF LocksHeld, Others

\* With the locks as they were, a process may go where it needs no other.
LEMMA LocksKept ==
  ASSUME IInv, NEW v \in Verb, Others(v), UNCHANGED locks,
         NeedsUndoLock(v, proc'[v].pc) => NeedsUndoLock(v, proc[v].pc),
         NeedsSleepLock(v, proc'[v].pc) => NeedsSleepLock(v, proc[v].pc)
  PROVE  LocksHeld'
<1>1. LocksHeld /\ undoLock' = undoLock /\ sleepLock' = sleepLock
  BY DEF IInv, locks
<1> QED
  BY <1>1 DEF LocksHeld, Others

\* So it may go anywhere along its run.
LEMMA LocksKeptUnderway ==
  ASSUME IInv, NEW v \in Verb, Others(v), UNCHANGED locks,
         proc[v].pc \in Underway, proc'[v].pc \in Underway
  PROVE  LocksHeld'
<1>1. /\ NeedsUndoLock(v, proc'[v].pc) => NeedsUndoLock(v, proc[v].pc)
      /\ NeedsSleepLock(v, proc'[v].pc) => NeedsSleepLock(v, proc[v].pc)
  BY DEF NeedsUndoLock, NeedsSleepLock, Underway
<1> QED
  BY <1>1, LocksKept

\* conserve, cancel and wake plan and undo with the undo lock, and whoever takes guests
\* down, or brings them back, with the sequence lock.
LEMMA LocksHeldStep ==
  ASSUME IInv, [Next]_vars
  PROVE  LocksHeld'
<1>0. Types /\ InPlace /\ LocksHeld
  BY DEF IInv
<1>a. ASSUME NEW v \in Verb, GoTo(v, "lock"), UNCHANGED locks
      PROVE  LocksHeld'
  <2>1. Others(v) /\ proc'[v].pc = "lock"
    BY <1>0, <1>a, GoToDoes
  <2>2. ~NeedsUndoLock(v, "lock") /\ ~NeedsSleepLock(v, "lock")
    BY DEF NeedsUndoLock, NeedsSleepLock, Underway
  <2> QED
    BY <1>a, <2>1, <2>2, LocksKept
<1>b. ASSUME UNCHANGED <<proc, locks>>
      PROVE  LocksHeld'
  BY <1>0, <1>b DEF LocksHeld, locks
<1>1. CASE UNCHANGED vars
  BY <1>1, <1>b DEF vars
<1>2. ASSUME NEW v \in Verb, StartShutdown(v)
      PROVE  LocksHeld'
  <2>1. Others(v) /\ proc'[v].pc = "plan" /\ UNCHANGED locks
    BY <1>0, <1>2, GoToDoes DEF StartShutdown
  <2>2. ~NeedsUndoLock(v, "plan") /\ ~NeedsSleepLock(v, "plan")
    BY <1>2 DEF StartShutdown, Shutdowns, Undoers, NeedsUndoLock, NeedsSleepLock, Underway
  <2> QED
    BY <2>1, <2>2, LocksKept
<1>3. ASSUME NEW v \in Verb, PlanShutdown(v)
      PROVE  LocksHeld'
  <2>1. Others(v) /\ (proc'[v] = Idle \/ Plans(proc[v], proc'[v]))
    BY <1>0, <1>3, PlanShutdownDoes
  <2>2. proc'[v].pc \in {"idle", "built"} /\ UNCHANGED locks
    <3>1. UNCHANGED locks
      BY <1>3 DEF PlanShutdown
    <3>2. Idle.pc = "idle"
      BY DEF Idle
    <3>3. Plans(proc[v], proc'[v]) => proc'[v].pc = "built"
      BY DEF Plans
    <3> QED
      BY <2>1, <3>1, <3>2, <3>3
  <2>3. ~NeedsUndoLock(v, proc'[v].pc) /\ ~NeedsSleepLock(v, proc'[v].pc)
    BY <1>3, <2>2 DEF PlanShutdown, Shutdowns, Undoers, NeedsUndoLock, NeedsSleepLock, Underway
  <2> QED
    BY <2>1, <2>2, <2>3, LocksKept
<1>4. CASE StartConserve
  <2>1. "conserve" \in Verb
    BY DEF Verb
  <2> QED
    BY <1>4, <1>a, <2>1 DEF StartConserve
<1>5. CASE StartCancel
  <2>1. "cancel" \in Verb
    BY DEF Verb, Undoers
  <2> QED
    BY <1>5, <1>a, <1>b, <2>1 DEF StartCancel
<1>6. ASSUME NEW v \in Verb, TakeUndoLock(v)
      PROVE  LocksHeld'
  <2> DEFINE place == IF v = "conserve" THEN "plan" ELSE "await"
  <2>1. GoTo(v, place) /\ undoLock = Free /\ undoLock' = v /\ sleepLock' = sleepLock
    BY <1>6 DEF TakeUndoLock, UndoLockFree
  <2>2. ~NeedsSleepLock(v, place)
    BY DEF NeedsSleepLock, Shutdowns, Undoers, Underway
  <2> HIDE DEF place
  <2>3. Others(v) /\ proc'[v].pc = place
    BY <1>0, <2>1, GoToDoes
  <2>4. \A u \in Verb : ~NeedsUndoLock(u, proc[u].pc)
    BY <1>0, <2>1 DEF LocksHeld, Free, Verb, Shutdowns, Undoers
  <2> QED
    BY <1>0, <2>1, <2>2, <2>3, <2>4 DEF LocksHeld, Others
<1>7. CASE PlanConserve
  <2>1. "conserve" \in Verb
    BY DEF Verb
  <2>2. CASE Exit("conserve")
    BY <2>1, <2>2, ExitKeepsLocks
  <2>3. CASE ~Exit("conserve")
    <3>1. /\ Others("conserve") /\ UNCHANGED locks
          /\ proc["conserve"].pc = "plan" /\ proc'["conserve"].pc = "built"
      BY <1>7, <2>3, PlanConserveDoes DEF Plans
    <3>2. NeedsUndoLock("conserve", "plan") /\ ~NeedsSleepLock("conserve", "built")
      BY DEF NeedsUndoLock, NeedsSleepLock, Shutdowns, Undoers
    <3> QED
      BY <2>1, <3>1, <3>2, LocksKept
  <2> QED
    BY <2>2, <2>3
<1>8. ASSUME NEW v \in Verb, TakeSequenceLock(v)
      PROVE  LocksHeld'
  <2>1. /\ GoTo(v, "read") /\ sleepLock = Free /\ sleepLock' = v /\ undoLock' = undoLock
        /\ proc[v].pc = "await"
    BY <1>8 DEF TakeSequenceLock, SequenceLockFree, At
  <2>2. v \in Undoers
    BY <1>0, <2>1 DEF InPlace, Places, Underway
  <2>3. Others(v) /\ proc'[v].pc = "read"
    BY <1>0, <2>1, GoToDoes
  <2>4. undoLock = v
    BY <1>0, <2>1, <2>2 DEF LocksHeld, NeedsUndoLock
  <2>5. \A u \in Verb : ~NeedsSleepLock(u, proc[u].pc)
    BY <1>0, <2>1 DEF LocksHeld, Free, Verb, Shutdowns, Undoers
  <2> QED
    BY <1>0, <2>1, <2>3, <2>4, <2>5 DEF LocksHeld, Others
<1>9. ASSUME NEW v \in Verb, Open(v)
      PROVE  LocksHeld'
  <2>1. CASE Exit(v)
    BY <2>1, ExitKeepsLocks
  <2>2. CASE ~Exit(v)
    <3>1. /\ Others(v) /\ proc[v].pc = "built" /\ proc'[v].pc = "gate"
          /\ v = "conserve" \/ sleepLock = Free
          /\ sleepLock' = IF v = "conserve" THEN sleepLock ELSE v
          /\ undoLock' = undoLock
      BY <1>0, <1>9, <2>2, OpenDoes DEF Opens, At
    <3>2. v \notin Undoers
      BY <1>0, <3>1 DEF InPlace, Places
    <3>3. CASE v = "conserve"
      <4>1. NeedsUndoLock(v, "built") /\ ~NeedsSleepLock(v, "gate") /\ UNCHANGED locks
        BY <3>1, <3>2, <3>3 DEF NeedsUndoLock, NeedsSleepLock, Shutdowns, locks
      <4> QED
        BY <3>1, <4>1, LocksKept
    <3>4. CASE v # "conserve"
      <4>1. \A u \in Verb : ~NeedsSleepLock(u, proc[u].pc)
        BY <1>0, <3>1, <3>4 DEF LocksHeld, Free, Verb, Shutdowns, Undoers
      <4>2. ~NeedsUndoLock(v, "gate")
        BY <3>2, <3>4 DEF NeedsUndoLock
      <4> QED
        BY <1>0, <3>1, <3>4, <4>1, <4>2 DEF LocksHeld, Others
    <3> QED
      BY <3>3, <3>4
  <2> QED
    BY <2>1, <2>2
<1>10. ASSUME NEW v \in Verb, GateAbandons(v)
       PROVE  LocksHeld'
  <2>1. Others(v) /\ proc[v].pc \in Underway /\ proc'[v].pc \in Underway
    BY <1>0, <1>10, GateAbandonsDoes DEF Abandons, Underway
  <2> QED
    BY <1>10, <2>1, LocksKeptUnderway DEF GateAbandons
<1>11. ASSUME NEW v \in Verb, GatePasses(v)
       PROVE  LocksHeld'
  <2>1. Others(v) /\ proc[v].pc \in Underway /\ proc'[v].pc \in Underway
    BY <1>0, <1>11, GatePassesDoes DEF Ends, TakesWave, Underway
  <2> QED
    BY <1>11, <2>1, LocksKeptUnderway DEF GatePasses
<1>12. ASSUME NEW v \in Verb, NEW t \in Targets, Stop(v, t)
       PROVE  LocksHeld'
  <2>1. Others(v) /\ proc[v].pc \in Underway /\ proc'[v].pc \in Underway
    BY <1>0, <1>12, StopDoes DEF Stops, Underway
  <2> QED
    BY <1>12, <2>1, LocksKeptUnderway DEF Stop
<1>13. ASSUME NEW v \in Verb, RecordEnd(v)
       PROVE  LocksHeld'
  <2>1. Others(v) /\ proc[v].pc \in Underway /\ proc'[v].pc \in Underway
    BY <1>13, RecordEndDoes DEF Records, Underway
  <2> QED
    BY <1>13, <2>1, LocksKeptUnderway DEF RecordEnd
<1>14. ASSUME NEW v \in Verb, Halt(v)
       PROVE  LocksHeld'
  <2>1. Others(v) /\ proc[v].pc \in Underway /\ proc'[v].pc \in Underway
    BY <1>0, <1>14, GoToDoes DEF Halt, At, Underway
  <2> QED
    BY <1>14, <2>1, LocksKeptUnderway DEF Halt
<1>15. ASSUME NEW v \in Verb, Close(v) \/ RecordUndo(v) \/ Killed(v)
       PROVE  LocksHeld'
  BY <1>15, ExitKeepsLocks DEF Close, RecordUndo, Killed
<1>16. ASSUME NEW v \in Verb, ReadEpisode(v)
       PROVE  LocksHeld'
  <2>1. CASE Exit(v)
    BY <2>1, ExitKeepsLocks
  <2>2. CASE ~Exit(v)
    <3>1. Others(v) /\ UNCHANGED locks /\ proc[v].pc = "read" /\ proc'[v].pc = "undo"
      BY <1>0, <1>16, <2>2, ReadEpisodeDoes DEF Reads
    <3>2. /\ NeedsUndoLock(v, "undo") => NeedsUndoLock(v, "read")
          /\ NeedsSleepLock(v, "undo") => NeedsSleepLock(v, "read")
      BY DEF NeedsUndoLock, NeedsSleepLock, Underway
    <3> QED
      BY <3>1, <3>2, LocksKept
  <2> QED
    BY <2>1, <2>2
<1>17. ASSUME NEW v \in Verb, Undo(v)
       PROVE  LocksHeld'
  <2>1. Others(v) /\ proc'[v].pc = proc[v].pc /\ UNCHANGED locks
    BY <1>0, <1>17, UndoDoes DEF Undoes, Undo
  <2> QED
    BY <2>1, LocksKept
<1>18. CASE MainsChange \/ OperatorReboots
  BY <1>18, <1>b DEF MainsChange, OperatorReboots, locks
<1>19. CASE MachineStops
  <2>1. \A u \in Verb : proc'[u].pc = "idle"
    BY <1>19 DEF MachineStops, Idle
  <2>2. \A u \in Verb : ~NeedsUndoLock(u, "idle") /\ ~NeedsSleepLock(u, "idle")
    BY DEF NeedsUndoLock, NeedsSleepLock, Underway
  <2> QED
    BY <2>1, <2>2 DEF LocksHeld
<1>20. CASE Boot
  <2>1. "wake" \in Verb
    BY DEF Verb, Undoers
  <2> QED
    BY <1>20, <1>a, <2>1 DEF Boot
<1> QED
  <2> HIDE DEF IInv
  <2> QED
    BY <1>1, <1>2, <1>3, <1>4, <1>5, <1>6, <1>7, <1>8, <1>9, <1>10, <1>11, <1>12, <1>13, <1>14,
       <1>15, <1>16, <1>17, <1>18, <1>19, <1>20
    DEF Next, Environment, Process

\* No wave in a plan is empty, so one in hand has a step left to record.
LEMMA WavesFullStep ==
  ASSUME IInv, [Next]_vars
  PROVE  WavesFull'
<1> SUFFICES ASSUME NEW u \in Verb
             PROVE  /\ proc'[u].pc = "wave" <=> proc'[u].wave # <<>>
                    /\ \A k \in DOMAIN proc'[u].waves : proc'[u].waves[k] # <<>>
  BY DEF WavesFull, At
<1> DEFINE p == proc[u]
           q == proc'[u]
           Good(r) == /\ r.pc = "wave" <=> r.wave # <<>>
                      /\ \A k \in DOMAIN r.waves : r.waves[k] # <<>>
<1> SUFFICES Good(q)
  OBVIOUS
<1>1. Good(p)
  BY DEF IInv, WavesFull, At
<1>2. Move(u, p, q)
  BY Moves
<1>3. p.waves \in Seq(Seq(Targets)) /\ p.wave \in Seq(Targets)
  BY ProcFields DEF IInv
<1> HIDE DEF p, q
<1>4. CASE q = p
  BY <1>1, <1>4
<1>5. CASE q = Idle
  <2>1. Idle.pc = "idle" /\ Idle.wave = <<>> /\ Idle.waves = <<>> /\ DOMAIN <<>> = {}
    BY DEF Idle
  <2> QED
    BY <1>5, <2>1
<1>6. CASE Enters(u, p, q)
  BY <1>1, <1>6 DEF Enters, Underway
<1>7. CASE Plans(p, q)
  BY <1>7 DEF Plans
<1>8. CASE Opens(p, q) \/ Abandons(p, q) \/ Ends(p, q) \/ Stops(p, q) \/ Reads(p, q)
  BY <1>1, <1>8 DEF Opens, Abandons, Ends, Stops, Reads
<1>9. CASE Undoes(p, q)
  BY <1>1, <1>9 DEF Undoes
<1>10. CASE TakesWave(p, q)
  <2> DEFINE w == p.waves
  <2>1. w # <<>> /\ w \in Seq(Seq(Targets)) /\ q.pc = "wave" /\ q.wave = Head(w) /\ q.waves = Tail(w)
    BY <1>3, <1>10 DEF TakesWave
  <2>2. \A k \in DOMAIN w : w[k] # <<>>
    BY <1>1
  <2> HIDE DEF w
  <2>3. /\ Len(w) \in Nat /\ Len(w) # 0 /\ DOMAIN w = 1..Len(w)
        /\ Tail(w) \in Seq(Seq(Targets)) /\ Len(Tail(w)) = Len(w) - 1
        /\ \A k \in 1..Len(Tail(w)) : Tail(w)[k] = w[k + 1]
    BY <2>1, LenProperties, EmptySeq, HeadTailProperties
  <2>4. DOMAIN Tail(w) = 1..(Len(w) - 1) /\ Head(w) = w[1] /\ 1 \in DOMAIN w
    BY <2>3, LenProperties
  <2>5. \A k \in 1..(Len(w) - 1) : Tail(w)[k] = w[k + 1] /\ k + 1 \in 1..Len(w)
    BY <2>3
  <2> QED
    BY <2>1, <2>2, <2>3, <2>4, <2>5
<1>11. CASE Records(p, q)
  <2>1. /\ p.wave # <<>> /\ q.wave = Tail(p.wave) /\ q.waves = p.waves
        /\ q.pc = "wave" <=> Len(p.wave) # 1
    BY <1>1, <1>11 DEF Records
  <2>2. /\ Len(p.wave) \in Nat /\ Tail(p.wave) \in Seq(Targets)
        /\ Len(Tail(p.wave)) = Len(p.wave) - 1
    BY <1>3, <2>1, LenProperties, HeadTailProperties
  <2>3. Tail(p.wave) # <<>> <=> Len(Tail(p.wave)) # 0
    BY <2>2, EmptySeq
  <2>4. Len(p.wave) # 1 <=> Len(p.wave) - 1 # 0
    BY <2>2
  <2>5. q.pc = "wave" <=> q.wave # <<>>
    BY <2>1, <2>2, <2>3, <2>4
  <2> QED
    BY <1>1, <2>1, <2>5
<1> QED
  BY <1>2, <1>4, <1>5, <1>6, <1>7, <1>8, <1>9, <1>10, <1>11 DEF Move

\* A process that is under way was so already, on the same run, or opens one now.
LEMMA UnderwayMoves ==
  ASSUME IInv, [Next]_vars, NEW u \in Verb, proc'[u].pc \in Underway
  PROVE  \/ proc[u].pc \in Underway /\ proc'[u].run = proc[u].run
         \/ proc[u].pc = "built" /\ proc'[u].run = Len(journal) + 1 /\ Opened(u)
<1> DEFINE p == proc[u]
           q == proc'[u]
<1>1. Move(u, p, q)
  BY Moves
<1> HIDE DEF p, q
<1>2. q.pc \in Underway
  BY DEF q
<1>3. CASE q = p
  BY <1>2, <1>3 DEF p, q
<1>4. q # Idle /\ ~Enters(u, p, q) /\ ~Plans(p, q) /\ ~Reads(p, q)
  <2>1. q.pc \notin {"idle", "lock", "plan", "await", "read", "built", "undo"}
    BY <1>2 DEF Underway
  <2>2. Idle.pc = "idle"
    BY DEF Idle
  <2>3. Enters(u, p, q) => q.pc \in {"lock", "plan", "await", "read"}
    BY DEF Enters
  <2>4. (Plans(p, q) => q.pc = "built") /\ (Reads(p, q) => q.pc = "undo")
    BY DEF Plans, Reads
  <2> QED
    BY <2>1, <2>2, <2>3, <2>4
<1>5. CASE Opens(p, q) /\ Opened(u)
  BY <1>5 DEF Opens, p, q
<1>6. CASE Abandons(p, q) \/ Ends(p, q) \/ TakesWave(p, q) \/ Stops(p, q) \/ Records(p, q)
  BY <1>6 DEF Abandons, Ends, TakesWave, Stops, Records, Underway, p, q
<1>7. CASE Undoes(p, q)
  BY <1>2, <1>7 DEF Undoes, p, q
<1> QED
  BY <1>1, <1>3, <1>4, <1>5, <1>6, <1>7 DEF Move

\* While an undo is past its locks no other process is under way or undoing.
LEMMA UndoAlone ==
  ASSUME InPlace, LocksHeld, NEW v \in Verb, v \in Undoers, proc[v].pc \in {"read", "undo"},
         NEW u \in Verb, u # v
  PROVE  /\ proc[u].pc \notin Underway
         /\ u \in Undoers => proc[u].pc \notin {"read", "undo"}
         /\ u = "conserve" => proc[u].pc # "built"
         /\ undoLock = v /\ sleepLock = v
<1>1. undoLock = v /\ sleepLock = v
  BY DEF LocksHeld, NeedsUndoLock, NeedsSleepLock
<1>2. ~NeedsUndoLock(u, proc[u].pc) /\ ~NeedsSleepLock(u, proc[u].pc)
  BY <1>1 DEF LocksHeld
<1>3. u \in Undoers \/ u = "conserve" \/ u \in Shutdowns
  BY DEF Verb
<1>4. u \in Undoers => proc[u].pc \notin {"read", "undo"} /\ proc[u].pc \notin Underway
  BY <1>2 DEF NeedsUndoLock, InPlace, Places, Underway
<1>5. u = "conserve" => proc[u].pc \notin Underway /\ proc[u].pc # "built"
  BY <1>2 DEF NeedsUndoLock
<1>6. u \in Shutdowns => proc[u].pc \notin Underway
  BY <1>2 DEF NeedsSleepLock
<1> QED
  BY <1>1, <1>3, <1>4, <1>5, <1>6

\* Of a process under way: it holds a lock no undo can have, and its run is its own.
LEMMA UnderwayAlone ==
  ASSUME IInv, NEW u \in Verb, proc[u].pc \in Underway
  PROVE  /\ u \notin Undoers
         /\ \A v \in Verb : ~(v \in Undoers /\ proc[v].pc \in {"read", "undo"}) /\ ~At(v, "undo")
         /\ \A v \in Verb : proc[v].pc \in Underway /\ proc[v].run = proc[u].run => v = u
<1>1. InPlace /\ LocksHeld /\ OwnRun
  BY DEF IInv
<1>2. u \notin Undoers
  BY <1>1 DEF InPlace, Places, Underway
<1>3. ASSUME NEW v \in Verb, v \in Undoers, proc[v].pc \in {"read", "undo"}
      PROVE  FALSE
  BY <1>1, <1>2, <1>3, UndoAlone
<1>4. ASSUME NEW v \in Verb, At(v, "undo")
      PROVE  v \in Undoers
  BY <1>1, <1>4 DEF InPlace, Places, Underway, At
<1>5. ASSUME NEW v \in Verb, proc[v].pc \in Underway, proc[v].run = proc[u].run
      PROVE  v = u
  <2>1. journal[proc[v].run].verb = v /\ journal[proc[u].run].verb = u
    BY <1>1, <1>5 DEF OwnRun
  <2> QED
    BY <1>5, <2>1
<1> QED
  BY <1>2, <1>3, <1>4, <1>5 DEF At

\* Nobody else writes into a run that is under way, and no undo is recorded meanwhile.
LEMMA OwnRunStep ==
  ASSUME IInv, [Next]_vars
  PROVE  OwnRun'
<1>0. Types /\ OwnRun /\ InPlace
  BY DEF IInv
<1> SUFFICES ASSUME NEW u \in Verb, proc'[u].pc \in Underway
             PROVE  /\ proc'[u].run \in DOMAIN journal'
                    /\ journal'[proc'[u].run].verb = u
                    /\ journal'[proc'[u].run].ending = ""
                    /\ \A j \in proc'[u].run..Len(journal') : journal'[j].verb \notin Undoers
  BY DEF OwnRun
<1>1. CASE proc[u].pc = "built" /\ proc'[u].run = Len(journal) + 1 /\ Opened(u)
  <2>1. /\ Len(journal') = Len(journal) + 1 /\ Len(journal) \in Nat
        /\ DOMAIN journal' = 1..Len(journal')
        /\ journal'[Len(journal')].verb = u /\ journal'[Len(journal')].ending = ""
    BY <1>0, <1>1, OpenedDoes
  <2>2. u \notin Undoers
    BY <1>0, <1>1 DEF InPlace, Places
  <2> DEFINE n == Len(journal')
             m == Len(journal)
  <2>3. n \in Nat /\ n # 0 /\ n = proc'[u].run
    <3>1. m \in Nat /\ n = m + 1 /\ proc'[u].run = m + 1
      BY <1>1, <2>1
    <3> HIDE DEF m, n
    <3> QED
      BY <3>1
  <2>4. journal'[n].verb = u /\ journal'[n].ending = "" /\ DOMAIN journal' = 1..n
    BY <2>1
  <2> HIDE DEF n
  <2>5. n \in 1..n /\ \A j \in n..n : j = n
    BY <2>3
  <2> QED
    BY <2>2, <2>3, <2>4, <2>5 DEF n
<1>2. CASE proc[u].pc \in Underway /\ proc'[u].run = proc[u].run
  <2> DEFINE r == proc[u].run
  <2>1. /\ r \in DOMAIN journal /\ journal[r].verb = u /\ journal[r].ending = ""
        /\ \A j \in r..Len(journal) : journal[j].verb \notin Undoers
    BY <1>0, <1>2 DEF OwnRun
  <2>2. Len(journal) \in Nat /\ DOMAIN journal = 1..Len(journal)
    BY <1>0, JournalType
  <2>3. proc'[u].run = r
    BY <1>2
  <2>4. r \in Nat /\ \A j \in r..Len(journal) : j \in DOMAIN journal
    <3> DEFINE n == Len(journal)
    <3>1. n \in Nat /\ r \in 1..n
      BY <2>1, <2>2
    <3> HIDE DEF n, r
    <3>2. r \in Nat /\ \A j \in r..n : j \in 1..n
      BY <3>1
    <3> QED
      BY <2>2, <3>2 DEF n
  <2>5. /\ u \notin Undoers
        /\ \A v \in Verb : ~(v \in Undoers /\ proc[v].pc \in {"read", "undo"}) /\ ~At(v, "undo")
        /\ \A v \in Verb : proc[v].pc \in Underway /\ proc[v].run = r => v = u
    BY <1>2, UnderwayAlone
  <2> HIDE DEF r
  <2>6. CASE UNCHANGED journal
    BY <2>1, <2>3, <2>6
  <2>7. ASSUME NEW v \in Verb, OpensRun(v)
        PROVE  /\ r \in DOMAIN journal' /\ journal'[r].verb = u /\ journal'[r].ending = ""
               /\ \A j \in r..Len(journal') : journal'[j].verb \notin Undoers
    <3>1. /\ DOMAIN journal \subseteq DOMAIN journal' /\ Len(journal') = Len(journal) + 1
          /\ \A i \in DOMAIN journal : journal'[i] = journal[i]
          /\ journal'[Len(journal')].verb = v /\ v \notin Undoers
      BY <1>0, <2>7, OpenedDoes DEF OpensRun
    <3> DEFINE n == Len(journal)
    <3>2. n \in Nat /\ Len(journal') = n + 1
      BY <2>2, <3>1
    <3>3. r \in Nat /\ \A j \in r..n : journal[j].verb \notin Undoers /\ journal'[j] = journal[j]
      BY <2>1, <2>2, <2>4, <3>1
    <3> HIDE DEF n
    <3>4. \A j \in r..(n + 1) : j \in r..n \/ j = n + 1
      BY <3>2, <3>3
    <3> QED
      BY <2>1, <3>1, <3>2, <3>3, <3>4
  <2>8. ASSUME NEW v \in Verb, RecordsEnd(v)
        PROVE  /\ r \in DOMAIN journal' /\ journal'[r].verb = u /\ journal'[r].ending = ""
               /\ \A j \in r..Len(journal') : journal'[j].verb \notin Undoers
    BY <2>1, <2>4, <2>8, RecordsEndDoes
  <2>9. ASSUME NEW v \in Verb, ClosesRun(v)
        PROVE  /\ r \in DOMAIN journal' /\ journal'[r].verb = u /\ journal'[r].ending = ""
               /\ \A j \in r..Len(journal') : journal'[j].verb \notin Undoers
    <3>1. v # u
      <4>1. Idle.pc \notin Underway
        BY DEF Idle, Underway
      <4> QED
        BY <2>9, <4>1 DEF ClosesRun
    <3>2. proc[v].pc \in Underway
      BY <2>9 DEF ClosesRun, Underway
    <3>3. proc[v].run # r
      BY <2>5, <3>1, <3>2
    <3> QED
      BY <2>1, <2>4, <2>9, <3>3, ClosesRunDoes
  <2>10. ASSUME NEW v \in Verb, RecordsUndo(v)
         PROVE  FALSE
    BY <2>5, <2>10 DEF RecordsUndo
  <2> QED
    BY <2>3, <2>6, <2>7, <2>8, <2>9, <2>10, JournalMoves
<1> QED
  BY <1>1, <1>2, UnderwayMoves

\* A reversal gives back what its own run took, whatever others write meanwhile.
LEMMA ReversesItsRunStep ==
  ASSUME IInv, [Next]_vars
  PROVE  ReversesItsRun'
<1>0. Types /\ OwnRun /\ ReversesItsRun
  BY DEF IInv
<1> SUFFICES ASSUME NEW u \in Verb, proc'[u].pc = "reverse"
             PROVE  \A k \in DOMAIN proc'[u].todo :
                      proc'[u].todo[k].target \in ToSet(journal'[proc'[u].run].done)
  BY DEF ReversesItsRun, At
<1> DEFINE p == proc[u]
           q == proc'[u]
<1>1. Move(u, p, q)
  BY Moves
<1>2. p.todo \in Seq(Step)
  BY <1>0, ProcFields DEF Step
<1>3. p.pc = "reverse" => \A k \in DOMAIN p.todo : p.todo[k].target \in ToSet(journal[p.run].done)
  BY <1>0 DEF ReversesItsRun, At
<1>4. p.pc \in Underway => ToSet(journal[p.run].done) \subseteq ToSet(journal'[p.run].done)
  BY <1>0, JournalGrows DEF OwnRun
<1>5. q.pc = "reverse"
  OBVIOUS
<1> SUFFICES \A k \in DOMAIN q.todo : q.todo[k].target \in ToSet(journal'[q.run].done)
  OBVIOUS
<1> HIDE DEF p, q
<1>6. CASE q = p
  BY <1>3, <1>4, <1>5, <1>6 DEF Underway
<1>7. CASE Abandons(p, q)
  <2> DEFINE d == journal[p.run].done
  <2>1. q.todo = [k \in DOMAIN d |-> [run |-> p.run, target |-> d[k]]] /\ q.run = p.run
    BY <1>7 DEF Abandons
  <2>2. ToSet(d) \subseteq ToSet(journal'[p.run].done)
    BY <1>4, <1>7 DEF Abandons, Underway
  <2> HIDE DEF d
  <2>3. \A k \in DOMAIN q.todo : q.todo[k].target = d[k] /\ k \in DOMAIN d
    BY <2>1
  <2> QED
    BY <2>1, <2>2, <2>3 DEF ToSet
<1>8. CASE Undoes(p, q)
  <2>1. /\ p.pc = "reverse" /\ q.run = p.run /\ p.todo # <<>> /\ q.todo = Front(p.todo)
    BY <1>5, <1>8 DEF Undoes
  <2>2. \A k \in DOMAIN q.todo : k \in DOMAIN p.todo /\ q.todo[k] = p.todo[k]
    <3> HIDE DEF Step
    <3> QED
      BY <1>2, <2>1, FrontType
  <2> QED
    BY <1>3, <1>4, <2>1, <2>2 DEF Underway
<1>9. q # Idle /\ ~Enters(u, p, q) /\ ~Plans(p, q) /\ ~Opens(p, q) /\ ~Reads(p, q)
  <2>1. Idle.pc = "idle"
    BY DEF Idle
  <2>2. ~Enters(u, p, q)
    BY <1>5 DEF Enters
  <2> QED
    BY <1>5, <2>1, <2>2 DEF Plans, Opens, Reads
<1>10. ~Ends(p, q) /\ ~TakesWave(p, q) /\ ~Stops(p, q) /\ ~Records(p, q)
  BY <1>5 DEF Ends, TakesWave, Stops, Records
<1> QED
  BY <1>1, <1>6, <1>7, <1>8, <1>9, <1>10 DEF Move

\* Between reading the episode and recording that it was undone the journal stands still.
LEMMA UndoFreezesJournal ==
  ASSUME IInv, [Next]_vars, NEW u \in Verb, u \in Undoers, proc[u].pc \in {"read", "undo"},
         proc'[u].pc = "undo"
  PROVE  UNCHANGED <<journal, settled>>
<1>0. InPlace /\ LocksHeld
  BY DEF IInv
<1>1. \A v \in Verb : v # u => /\ proc[v].pc \notin Underway
                               /\ v \in Undoers => proc[v].pc \notin {"read", "undo"}
                               /\ v = "conserve" => proc[v].pc # "built"
                               /\ sleepLock = u
  BY <1>0, UndoAlone
<1>2. Idle.pc = "idle" /\ u # Free
  BY DEF Idle, Free, Verb, Shutdowns, Undoers
<1>3. ASSUME NEW v \in Verb, OpensRun(v) PROVE FALSE
  BY <1>1, <1>2, <1>3 DEF OpensRun
<1>4. ASSUME NEW v \in Verb, RecordsEnd(v) PROVE FALSE
  BY <1>1, <1>4 DEF RecordsEnd, Underway
<1>5. ASSUME NEW v \in Verb, ClosesRun(v) PROVE FALSE
  BY <1>1, <1>5 DEF ClosesRun, Underway
<1>6. ASSUME NEW v \in Verb, RecordsUndo(v) PROVE FALSE
  BY <1>1, <1>2, <1>6 DEF RecordsUndo
<1> QED
  BY <1>3, <1>4, <1>5, <1>6, JournalMoves

\* An undo works through its episode, which nobody adds to or takes from.
LEMMA UndoesTheEpisodeStep ==
  ASSUME IInv, [Next]_vars
  PROVE  UndoesTheEpisode'
<1>0. Types /\ InPlace /\ UndoesTheEpisode
  BY DEF IInv
<1> SUFFICES ASSUME NEW u \in Verb, proc'[u].pc = "undo"
             PROVE  /\ Episode(journal') # {}
                    /\ \A k \in DOMAIN proc'[u].todo :
                         /\ proc'[u].todo[k].run \in Episode(journal')
                         /\ proc'[u].todo[k].target
                              \in ToSet(journal'[proc'[u].todo[k].run].done)
  BY DEF UndoesTheEpisode, At
<1> DEFINE p == proc[u]
           q == proc'[u]
           InEpisode(step) == step.run \in Episode(journal) /\ step.target \in ToSet(journal[step.run].done)
<1>1. Move(u, p, q) /\ q.pc = "undo"
  BY Moves
<1>2. p.todo \in Seq(Step)
  BY <1>0, ProcFields DEF Step
<1>3. p.pc = "undo" => Episode(journal) # {} /\ \A k \in DOMAIN p.todo : InEpisode(p.todo[k])
  BY <1>0 DEF UndoesTheEpisode, At
<1>4. p.pc \in Places(u)
  BY <1>0 DEF InPlace
<1>5. p.pc \in {"read", "undo"} => UNCHANGED journal
  BY <1>4, UndoFreezesJournal DEF Places, Underway
<1>6. journal \in Seq(RunType)
  BY <1>0 DEF Types
<1> SUFFICES /\ p.pc \in {"read", "undo"} /\ Episode(journal) # {}
             /\ \A k \in DOMAIN q.todo : InEpisode(q.todo[k])
  BY <1>5
<1> HIDE DEF p, q
<1>7. CASE q = p
  BY <1>1, <1>3, <1>7
<1>8. CASE Reads(p, q)
  <2>1. p.pc = "read" /\ Episode(journal) # {} /\ q.todo = StepsToUndo(journal)
    BY <1>8 DEF Reads
  <2>2. \A s \in ToSet(StepsToUndo(journal)) : InEpisode(s)
    BY <1>6, StepsToUndoHolds
  <2> HIDE DEF InEpisode
  <2> QED
    BY <2>1, <2>2 DEF ToSet
<1>9. CASE Undoes(p, q)
  <2>1. p.pc = "undo" /\ p.todo # <<>> /\ q.todo = Front(p.todo)
    BY <1>1, <1>9 DEF Undoes
  <2>2. \A k \in DOMAIN q.todo : k \in DOMAIN p.todo /\ q.todo[k] = p.todo[k]
    <3> HIDE DEF Step
    <3> QED
      BY <1>2, <2>1, FrontType
  <2> QED
    BY <1>3, <2>1, <2>2
<1>10. q # Idle /\ ~Enters(u, p, q) /\ ~Plans(p, q) /\ ~Opens(p, q) /\ ~Abandons(p, q)
  <2>1. Idle.pc = "idle"
    BY DEF Idle
  <2>2. ~Enters(u, p, q)
    BY <1>1 DEF Enters
  <2> QED
    BY <1>1, <2>1, <2>2 DEF Plans, Opens, Abandons
<1>11. ~Ends(p, q) /\ ~TakesWave(p, q) /\ ~Stops(p, q) /\ ~Records(p, q)
  BY <1>1 DEF Ends, TakesWave, Stops, Records
<1> QED
  BY <1>1, <1>7, <1>8, <1>9, <1>10, <1>11 DEF Move

\* What reads as over keeps reading so.
LEMMA SettledIsOverStep ==
  ASSUME IInv, [Next]_vars
  PROVE  SettledIsOver'
<1>0. Types /\ SettledIsOver /\ settled \subseteq DOMAIN journal
  BY DEF IInv, Types
<1> DEFINE n == Len(journal)
           m == Len(journal')
           Over(i) == \/ journal'[i].ending = "aborted"
                      \/ \E j \in i..m : journal'[j].verb \in Undoers
<1>1. n \in Nat /\ DOMAIN journal = 1..n
  BY <1>0, JournalType
<1>2. \A i \in settled : /\ i \in 1..n
                         /\ \/ journal[i].ending = "aborted"
                            \/ \E j \in i..n : j \in 1..n /\ journal[j].verb \in Undoers
  <2> SUFFICES ASSUME NEW i \in settled
               PROVE  /\ i \in 1..n
                      /\ \/ journal[i].ending = "aborted"
                         \/ \E j \in i..n : j \in 1..n /\ journal[j].verb \in Undoers
    OBVIOUS
  <2>1. i \in 1..n
    BY <1>0, <1>1
  <2>2. journal[i].ending = "aborted" \/ \E j \in i..n : journal[j].verb \in Undoers
    BY <1>0 DEF SettledIsOver
  <2>3. \A j \in i..n : j \in 1..n
    <3> HIDE DEF n
    <3> QED
      BY <1>1, <2>1
  <2> QED
    BY <2>1, <2>2, <2>3
<1>3. CASE UNCHANGED <<journal, settled>>
  BY <1>0, <1>3 DEF SettledIsOver
<1>4. ASSUME NEW v \in Verb, OpensRun(v) \/ RecordsUndo(v)
      PROVE  /\ m = n + 1 /\ m \in Nat /\ \A i \in 1..n : journal'[i] = journal[i]
             /\ \A i \in 1..n : m \in i..m
             /\ \A i \in 1..n : \A j \in i..n : j \in i..m
  <2>1. Len(journal') = Len(journal) + 1 /\ \A i \in DOMAIN journal : journal'[i] = journal[i]
    BY <1>0, <1>4, OpenedDoes, RecordsUndoDoes DEF OpensRun
  <2>2. m = n + 1 /\ \A i \in 1..n : journal'[i] = journal[i]
    BY <1>1, <2>1
  <2> HIDE DEF n, m
  <2> QED
    BY <1>1, <2>2
<1>5. ASSUME NEW v \in Verb, OpensRun(v)
      PROVE  \A i \in settled' : Over(i)
  <2>1. settled' = settled
    BY <1>5 DEF OpensRun
  <2> HIDE DEF n, m
  <2> QED
    BY <1>2, <1>4, <1>5, <2>1
<1>6. ASSUME NEW v \in Verb, RecordsUndo(v)
      PROVE  \A i \in settled' : Over(i)
  <2>1. settled' = settled \union Episode(journal) /\ Episode(journal) \subseteq 1..n
    BY <1>1, <1>6 DEF RecordsUndo, Episode
  <2>2. journal'[m].verb \in Undoers
    BY <1>0, <1>6, RecordsUndoDoes
  <2> HIDE DEF n, m
  <2>3. \A i \in 1..n : m \in i..m
    BY <1>4, <1>6
  <2>4. \A i \in settled' : i \in 1..n
    BY <1>2, <2>1
  <2> QED
    BY <2>2, <2>3, <2>4
<1>7. ASSUME NEW v \in Verb, RecordsEnd(v)
      PROVE  \A i \in settled' : Over(i)
  <2>1. /\ m = n /\ settled' = settled
        /\ \A i \in 1..n : journal'[i].verb = journal[i].verb /\ journal'[i].ending = journal[i].ending
    BY <1>1, <1>7, RecordsEndDoes DEF RecordsEnd
  <2> HIDE DEF n, m
  <2> QED
    BY <1>2, <2>1
<1>8. ASSUME NEW v \in Verb, ClosesRun(v)
      PROVE  \A i \in settled' : Over(i)
  <2> DEFINE r == proc[v].run
  <2>1. /\ m = n /\ r \in 1..n
        /\ \A i \in 1..n : journal'[i].verb = journal[i].verb
        /\ \A i \in 1..n : i # r => journal'[i].ending = journal[i].ending
        /\ proc[v].pc = "reverse" => journal'[r].ending = "aborted"
    BY <1>1, <1>8, ClosesRunDoes
  <2>2. journal[r].ending = ""
    BY <1>8 DEF IInv, OwnRun, ClosesRun, Underway
  <2>3. \/ settled' = settled
        \/ settled' = settled \union {r} /\ proc[v].pc = "reverse"
    BY <1>8 DEF ClosesRun
  <2> HIDE DEF n, m, r
  <2>4. ASSUME NEW i \in settled PROVE Over(i)
    <3>1. CASE \E j \in i..n : j \in 1..n /\ journal[j].verb \in Undoers
      BY <2>1, <3>1
    <3>2. CASE journal[i].ending = "aborted"
      <4>1. i # r /\ i \in 1..n
        BY <1>2, <2>2, <3>2
      <4> QED
        BY <2>1, <3>2, <4>1
    <3> QED
      BY <1>2, <3>1, <3>2
  <2> QED
    BY <2>1, <2>3, <2>4
<1>9. (\A i \in settled' : Over(i)) => SettledIsOver'
  BY DEF SettledIsOver
<1> QED
  BY <1>3, <1>5, <1>6, <1>7, <1>8, <1>9, JournalMoves

\* An undo is recorded only when there was something to undo, so none follows another.
LEMMA UndosApartStep ==
  ASSUME IInv, [Next]_vars
  PROVE  UndosApart'
<1>0. Types /\ UndosApart /\ UndoesTheEpisode
  BY DEF IInv
<1> DEFINE n == Len(journal)
           m == Len(journal')
<1>1. n \in Nat /\ DOMAIN journal = 1..n
  BY <1>0, JournalType
<1>2. \A i \in 1..n : journal[i].verb \in Undoers
                        => i # 1 /\ i - 1 \in 1..n /\ journal[i - 1].verb \notin Undoers
  <2>1. \A i \in 1..n : journal[i].verb \in Undoers => i # 1 /\ journal[i - 1].verb \notin Undoers
    BY <1>0, <1>1 DEF UndosApart, Apart
  <2> HIDE DEF n
  <2>2. \A i \in 1..n : i # 1 => i - 1 \in 1..n
    BY <1>1
  <2> QED
    BY <2>1, <2>2
<1>3. ASSUME m = n, DOMAIN journal' = DOMAIN journal,
             \A i \in DOMAIN journal : journal'[i].verb = journal[i].verb
      PROVE  UndosApart'
  <2> HIDE DEF n
  <2> QED
    BY <1>1, <1>2, <1>3 DEF UndosApart, Apart
<1>4. ASSUME m = n + 1, DOMAIN journal' = 1..m, \A i \in 1..n : journal'[i] = journal[i],
             journal'[m].verb \in Undoers => n # 0 /\ journal[n].verb \notin Undoers
      PROVE  UndosApart'
  <2> HIDE DEF n, m
  <2>1. \A i \in 1..m : i \in 1..n \/ i = m
    BY <1>1, <1>4
  <2>2. ASSUME journal'[m].verb \in Undoers
        PROVE  m # 1 /\ journal'[m - 1].verb \notin Undoers
    <3>1. m # 1 /\ m - 1 = n /\ n \in 1..n
      BY <1>1, <1>4, <2>2
    <3> QED
      BY <1>4, <2>2, <3>1
  <2> QED
    BY <1>2, <1>4, <2>1, <2>2 DEF UndosApart, Apart
<1>5. CASE UNCHANGED journal
  BY <1>0, <1>5 DEF UndosApart
<1>6. ASSUME NEW v \in Verb, OpensRun(v)
      PROVE  UndosApart'
  <2>1. v \notin Undoers /\ Opened(v)
    BY <1>6 DEF OpensRun
  <2> HIDE DEF UndosApart
  <2> QED
    BY <1>0, <1>1, <1>4, <2>1, OpenedDoes
<1>7. ASSUME NEW v \in Verb, RecordsUndo(v)
      PROVE  UndosApart'
  <2>1. PICK i \in Episode(journal) : TRUE
    BY <1>0, <1>7 DEF RecordsUndo, UndoesTheEpisode, At
  <2>2. i \in 1..n /\ \A j \in i..n : journal[j].verb \notin Undoers
    BY <1>1 DEF Episode
  <2>3. n # 0 /\ journal[n].verb \notin Undoers
    <3> HIDE DEF n
    <3>1. n # 0 /\ n \in i..n
      BY <1>1, <2>2
    <3> QED
      BY <2>2, <3>1
  <2> HIDE DEF UndosApart
  <2> QED
    BY <1>0, <1>1, <1>4, <1>7, <2>3, RecordsUndoDoes
<1>8. ASSUME NEW v \in Verb, RecordsEnd(v)
      PROVE  UndosApart'
  BY <1>3, <1>8, RecordsEndDoes
<1>9. ASSUME NEW v \in Verb, ClosesRun(v)
      PROVE  UndosApart'
  BY <1>3, <1>9, ClosesRunDoes
<1> QED
  BY <1>5, <1>6, <1>7, <1>8, <1>9, JournalMoves

-----------------------------------------------------------------------------
(***************************************************************************)
(* What is owed is always answered for.                                    *)
(***************************************************************************)
\* What an outage outlived is out of every later episode as well.
LEMMA OutlivedStays ==
  ASSUME IInv, [Next]_vars, NEW t, Outlived(t)
  PROVE  Outlived(t)'
<1>0. Types /\ Types'
  BY TypesStep DEF IInv
<1> DEFINE n == Len(journal)
           m == Len(journal')
<1>1. PICK i \in DOMAIN journal : /\ \E j \in (i + 1)..n : journal[j].late
                                  /\ t \in ToSet(journal[i].done)
  BY DEF Outlived
<1>2. PICK j \in (i + 1)..n : journal[j].late
  BY <1>1
<1>3. n \in Nat /\ DOMAIN journal = 1..n
  BY <1>0, JournalType
<1>4. m \in Nat /\ DOMAIN journal' = 1..m
  <2>1. journal' \in Seq(RunType)
    BY <1>0 DEF Types
  <2> HIDE DEF RunType
  <2> QED
    BY <2>1, LenProperties
<1>5. i \in 1..n /\ j \in 1..n
  <2>1. i \in 1..n
    BY <1>3
  <2> HIDE DEF n
  <2> QED
    BY <2>1, <1>2, <1>3
<1>6. /\ i \in 1..m /\ j \in 1..m /\ journal'[j].late
      /\ ToSet(journal[i].done) \subseteq ToSet(journal'[i].done)
  BY <1>2, <1>3, <1>4, <1>5, JournalGrows
<1>7. j \in (i + 1)..m
  <2> HIDE DEF n, m
  <2> QED
    BY <1>2, <1>3, <1>4, <1>5, <1>6
<1> QED
  BY <1>1, <1>4, <1>6, <1>7 DEF Outlived

\* What a process has in its hands stays there while it stands still.
LEMMA InItsHands ==
  ASSUME NEW w \in Verb, proc'[w] = proc[w], NEW t, NEW i
  PROVE  /\ t \in Unrecorded(w) => t \in Unrecorded(w)'
         /\ PendingWith(w, t) => PendingWith(w, t)'
         /\ Undoing(w, i)' => Undoing(w, i)
BY DEF Unrecorded, PendingWith, Undoing, At

\* So only what the one that moves had to answer for is in question.
LEMMA AnswersKept ==
  ASSUME IInv, NEW v \in Verb, Others(v), NEW t \in owed, AnsweredFor(t),
         t \in lapsed => AnsweredFor(t)', t \in failed => AnsweredFor(t)',
         t \in Unrecorded(v) => AnsweredFor(t)', PendingWith(v, t) => AnsweredFor(t)',
         Recorded(t) => AnsweredFor(t)', Outlived(t) => AnsweredFor(t)'
  PROVE  AnsweredFor(t)'
<1>1. ASSUME NEW w \in Verb, w # v, t \in Unrecorded(w) \/ PendingWith(w, t)
      PROVE  AnsweredFor(t)'
  <2>1. t \in Unrecorded(w)' \/ PendingWith(w, t)'
    BY <1>1, InItsHands DEF Others
  <2> QED
    BY <2>1 DEF AnsweredFor
<1> QED
  BY <1>1 DEF AnsweredFor

\* What is recorded stays so while the journal stands still and nobody starts undoing it.
LEMMA RecordedStays ==
  ASSUME NEW v \in Verb, Others(v), UNCHANGED journal, NEW t, Recorded(t),
         \A i : Undoing(v, i)' => Undoing(v, i)
  PROVE  Recorded(t)'
<1>1. PICK i \in Episode(journal) : ~BeingUndone(i) /\ t \in ToSet(journal[i].done)
  BY DEF Recorded
<1>2. ASSUME NEW w \in Verb, Undoing(w, i)'
      PROVE  FALSE
  <2>1. Undoing(w, i)
    BY <1>2, InItsHands DEF Others
  <2> QED
    BY <1>1, <2>1 DEF BeingUndone
<1>3. ~BeingUndone(i)' /\ i \in Episode(journal') /\ t \in ToSet(journal'[i].done)
  BY <1>1, <1>2 DEF BeingUndone
<1> QED
  BY <1>3 DEF Recorded

\* The run of a process under way is in the episode, or the outage outlived it.
LEMMA EpisodeOrOutlived ==
  ASSUME NEW runs, NEW r \in DOMAIN runs, runs[r].ending # "aborted",
         \A j \in r..Len(runs) : runs[j].verb \notin Undoers
  PROVE  r \in Episode(runs) \/ \E j \in (r + 1)..Len(runs) : runs[j].late
BY DEF Episode

\* An undo that stops short leaves what it had not got to for the next one.
LEMMA PendingIsRecorded ==
  ASSUME IInv, NEW v \in Verb, NEW t, PendingWith(v, t), UNCHANGED journal,
         proc'[v].pc \notin {"undo", "reverse"},
         \A w \in Verb : proc'[w] = proc[w] \/ proc'[w].pc \notin {"undo", "reverse"}
  PROVE  Recorded(t)' \/ Outlived(t)
<1>0. InPlace /\ LocksHeld /\ OwnRun /\ UndoesTheEpisode /\ ReversesItsRun
  BY DEF IInv
<1>1. PICK k \in DOMAIN proc[v].todo : proc[v].todo[k].target = t
  BY DEF PendingWith
<1>2. ASSUME NEW i \in Episode(journal), t \in ToSet(journal[i].done),
             \A w \in Verb : w # v => ~Undoing(w, i)
      PROVE  Recorded(t)'
  <2>1. \A w \in Verb : ~Undoing(w, i)'
    BY <1>2 DEF Undoing, At
  <2>2. ~BeingUndone(i)' /\ i \in Episode(journal') /\ t \in ToSet(journal'[i].done)
    BY <1>2, <2>1 DEF BeingUndone
  <2> QED
    BY <2>2 DEF Recorded
<1>3. CASE proc[v].pc = "undo"
  <2> DEFINE i == proc[v].todo[k].run
  <2>1. i \in Episode(journal) /\ t \in ToSet(journal[i].done)
    BY <1>0, <1>1, <1>3 DEF UndoesTheEpisode, At
  <2>2. v \in Undoers
    BY <1>0, <1>3 DEF InPlace, Places, Underway
  <2>3. ASSUME NEW w \in Verb, w # v
        PROVE  ~Undoing(w, i)
    <3>1. proc[w].pc \notin Underway /\ (w \in Undoers => proc[w].pc # "undo")
      BY <1>0, <1>3, <2>2, <2>3, UndoAlone
    <3>2. w \notin Undoers => proc[w].pc # "undo"
      BY <1>0 DEF InPlace, Places, Underway
    <3> QED
      BY <3>1, <3>2 DEF Undoing, At, Underway
  <2> QED
    BY <1>2, <2>1, <2>3
<1>4. CASE proc[v].pc = "reverse"
  <2> DEFINE r == proc[v].run
  <2>1. proc[v].pc \in Underway
    BY <1>4 DEF Underway
  <2>2. /\ r \in DOMAIN journal /\ journal[r].ending = ""
        /\ \A j \in r..Len(journal) : journal[j].verb \notin Undoers
    BY <1>0, <2>1 DEF OwnRun
  <2>3. t \in ToSet(journal[r].done)
    BY <1>0, <1>1, <1>4 DEF ReversesItsRun, At
  <2>4. ASSUME NEW w \in Verb, w # v
        PROVE  ~Undoing(w, r)
    BY <2>1, <2>4, UnderwayAlone DEF Undoing, At, Underway
  <2>5. r \in Episode(journal) \/ \E j \in (r + 1)..Len(journal) : journal[j].late
    BY <2>2, EpisodeOrOutlived
  <2> HIDE DEF r
  <2>6. CASE r \in Episode(journal)
    BY <1>2, <2>3, <2>4, <2>6
  <2>7. CASE \E j \in (r + 1)..Len(journal) : journal[j].late
    BY <2>2, <2>3, <2>7 DEF Outlived
  <2> QED
    BY <2>5, <2>6, <2>7
<1> QED
  BY <1>3, <1>4 DEF PendingWith

\* Only a process at a wave has stops in hand.
LEMMA NothingInHand ==
  ASSUME IInv, NEW v \in Verb, proc[v].pc # "wave"
  PROVE  Unrecorded(v) = {}
<1>1. proc[v].wave = <<>>
  BY DEF IInv, WavesFull, At
<1>2. ToSet(<<>>) = {}
  BY DEF ToSet
<1> QED
  BY <1>1, <1>2 DEF Unrecorded

\* A process with no stop in hand that moves on without undoing anything leaves every
\* answer as it was.
LEMMA QuietStep ==
  ASSUME IInv, [Next]_vars, NEW v \in Verb, Others(v), proc[v].pc # "wave",
         proc'[v].pc \notin {"undo", "reverse"}, UNCHANGED <<journal, owed, lapsed, failed>>
  PROVE  Accounted'
<1> SUFFICES ASSUME NEW t \in owed PROVE AnsweredFor(t)'
  BY DEF Accounted
<1>1. AnsweredFor(t)
  BY DEF IInv, Accounted
<1>2. t \notin Unrecorded(v)
  BY NothingInHand
<1>3. \A i : ~Undoing(v, i)'
  BY DEF Undoing, At
<1>4. Recorded(t) => Recorded(t)'
  BY <1>3, RecordedStays
<1>5. Outlived(t) => Outlived(t)'
  BY OutlivedStays
<1>6. PendingWith(v, t) => Recorded(t)' \/ Outlived(t)
  BY PendingIsRecorded DEF Others
<1> QED
  <2>1. /\ t \in lapsed => AnsweredFor(t)'
        /\ t \in failed => AnsweredFor(t)'
        /\ Recorded(t)' => AnsweredFor(t)'
        /\ Outlived(t)' => AnsweredFor(t)'
    BY DEF AnsweredFor
  <2> QED
    BY <1>1, <1>2, <1>4, <1>5, <1>6, <2>1, AnswersKept

\* A run that opens late takes the ones before it out of the episode; one that does not
\* leaves them in.
LEMMA OpenAccounted ==
  ASSUME IInv, [Next]_vars, NEW v \in Verb, Opens(proc[v], proc'[v]), Opened(v), Others(v),
         UNCHANGED <<owed, lapsed, failed>>
  PROVE  Accounted'
<1>0. Types /\ InPlace
  BY DEF IInv
<1> SUFFICES ASSUME NEW t \in owed PROVE AnsweredFor(t)'
  BY DEF Accounted
<1>1. AnsweredFor(t)
  BY DEF IInv, Accounted
<1>2. proc[v].pc = "built" /\ proc'[v].pc = "gate"
  BY DEF Opens
<1>3. t \notin Unrecorded(v) /\ ~PendingWith(v, t)
  BY <1>2, NothingInHand DEF PendingWith
<1>4. v \notin Undoers
  BY <1>0, <1>2 DEF InPlace, Places
<1>5. Outlived(t) => Outlived(t)'
  BY OutlivedStays
<1>6. Recorded(t) => Recorded(t)' \/ Outlived(t)'
  <2> SUFFICES ASSUME Recorded(t) PROVE Recorded(t)' \/ Outlived(t)'
    OBVIOUS
  <2>1. PICK i \in Episode(journal) : ~BeingUndone(i) /\ t \in ToSet(journal[i].done)
    BY DEF Recorded
  <2> DEFINE n == Len(journal)
             m == Len(journal')
  <2>2. /\ m = n + 1 /\ n \in Nat /\ DOMAIN journal = 1..n /\ DOMAIN journal' = 1..m
        /\ \A k \in 1..n : journal'[k] = journal[k]
        /\ journal'[m].verb = v
    BY <1>0, OpenedDoes
  <2>3. /\ i \in 1..n /\ journal[i].ending # "aborted"
        /\ \A j \in i..n : journal[j].verb \notin Undoers
        /\ \A j \in (i + 1)..n : ~journal[j].late
    BY <2>2 DEF Episode
  <2>4. t \in ToSet(journal'[i].done) /\ journal'[i] = journal[i]
    BY <2>1, <2>2, <2>3
  <2>5. ~BeingUndone(i)'
    <3>1. ASSUME NEW w \in Verb, Undoing(w, i)' PROVE FALSE
      <4>1. w # v
        BY <1>2, <3>1 DEF Undoing, At
      <4>2. Undoing(w, i)
        BY <3>1, <4>1, InItsHands DEF Others
      <4> QED
        BY <2>1, <4>2 DEF BeingUndone
    <3> QED
      BY <3>1 DEF BeingUndone
  <2> HIDE DEF n, m
  <2>6. i \in 1..m /\ m \in (i + 1)..m
    BY <2>2, <2>3
  <2>7. CASE journal'[m].late
    BY <2>2, <2>4, <2>6, <2>7 DEF Outlived, m
  <2>8. CASE ~journal'[m].late
    <3>1. ASSUME NEW j \in i..m
          PROVE  journal'[j].verb \notin Undoers /\ (j # i => ~journal'[j].late)
      <4>1. CASE j = m
        BY <1>4, <2>2, <2>8, <4>1
      <4>2. CASE j # m
        <5>1. j \in i..n /\ j \in 1..n /\ (j # i => j \in (i + 1)..n)
          BY <2>2, <2>3, <4>2
        <5> QED
          BY <2>2, <2>3, <5>1
      <4> QED
        BY <4>1, <4>2
    <3>2. \A j \in (i + 1)..m : j \in i..m /\ j # i
      BY <2>2, <2>3
    <3>3. i \in Episode(journal')
      BY <2>2, <2>3, <2>4, <2>6, <3>1, <3>2 DEF Episode, m
    <3> QED
      BY <2>4, <2>5, <3>3 DEF Recorded
  <2> QED
    BY <2>7, <2>8
<1> QED
  <2>1. /\ t \in lapsed => AnsweredFor(t)'
        /\ t \in failed => AnsweredFor(t)'
        /\ Recorded(t)' => AnsweredFor(t)'
        /\ Outlived(t)' => AnsweredFor(t)'
    BY DEF AnsweredFor
  <2> QED
    BY <1>1, <1>3, <1>5, <1>6, <2>1, AnswersKept

\* A gate that abandons has on its list what its run recorded.
LEMMA AbandonAccounted ==
  ASSUME IInv, [Next]_vars, NEW v \in Verb, Abandons(proc[v], proc'[v]), Others(v),
         UNCHANGED <<journal, owed, lapsed, failed>>
  PROVE  Accounted'
<1> SUFFICES ASSUME NEW t \in owed PROVE AnsweredFor(t)'
  BY DEF Accounted
<1>1. AnsweredFor(t)
  BY DEF IInv, Accounted
<1> DEFINE r == proc[v].run
<1>2. /\ proc[v].pc = "gate" /\ proc'[v].pc = "reverse" /\ proc'[v].run = r
      /\ proc'[v].todo = [k \in DOMAIN journal[r].done |-> [run |-> r, target |-> journal[r].done[k]]]
  BY DEF Abandons
<1>3. t \notin Unrecorded(v) /\ ~PendingWith(v, t)
  BY <1>2, NothingInHand DEF PendingWith
<1>4. Outlived(t) => Outlived(t)'
  BY OutlivedStays
<1>5. Recorded(t) => Recorded(t)' \/ PendingWith(v, t)'
  <2> SUFFICES ASSUME Recorded(t) PROVE Recorded(t)' \/ PendingWith(v, t)'
    OBVIOUS
  <2>1. PICK i \in Episode(journal) : ~BeingUndone(i) /\ t \in ToSet(journal[i].done)
    BY DEF Recorded
  <2>2. CASE i = r
    <3>1. PICK k \in DOMAIN journal[r].done : t = journal[r].done[k]
      BY <2>1, <2>2 DEF ToSet
    <3>2. k \in DOMAIN proc'[v].todo /\ proc'[v].todo[k].target = t
      BY <1>2, <3>1
    <3> QED
      BY <1>2, <3>2 DEF PendingWith
  <2>3. CASE i # r
    <3>1. ASSUME NEW w \in Verb, Undoing(w, i)' PROVE FALSE
      <4>1. w # v
        BY <1>2, <2>3, <3>1 DEF Undoing, At
      <4>2. Undoing(w, i)
        BY <3>1, <4>1, InItsHands DEF Others
      <4> QED
        BY <2>1, <4>2 DEF BeingUndone
    <3>2. ~BeingUndone(i)' /\ i \in Episode(journal') /\ t \in ToSet(journal'[i].done)
      BY <2>1, <3>1 DEF BeingUndone
    <3> QED
      BY <3>2 DEF Recorded
  <2> QED
    BY <2>2, <2>3
<1> QED
  <2>1. /\ t \in lapsed => AnsweredFor(t)'
        /\ t \in failed => AnsweredFor(t)'
        /\ Recorded(t)' => AnsweredFor(t)'
        /\ PendingWith(v, t)' => AnsweredFor(t)'
        /\ Outlived(t)' => AnsweredFor(t)'
    BY DEF AnsweredFor
  <2> QED
    BY <1>1, <1>3, <1>4, <1>5, <2>1, AnswersKept

\* An undo that has read the episode has on its list all that it recorded.
LEMMA ReadAccounted ==
  ASSUME IInv, [Next]_vars, NEW v \in Verb, Reads(proc[v], proc'[v]), Others(v),
         UNCHANGED <<journal, owed, lapsed, failed>>
  PROVE  Accounted'
<1> SUFFICES ASSUME NEW t \in owed PROVE AnsweredFor(t)'
  BY DEF Accounted
<1>1. AnsweredFor(t)
  BY DEF IInv, Accounted
<1>2. proc[v].pc = "read" /\ proc'[v].pc = "undo" /\ proc'[v].todo = StepsToUndo(journal)
  BY DEF Reads
<1>3. t \notin Unrecorded(v) /\ ~PendingWith(v, t)
  BY <1>2, NothingInHand DEF PendingWith
<1>4. Outlived(t) => Outlived(t)'
  BY OutlivedStays
<1>5. Recorded(t) => PendingWith(v, t)'
  <2> SUFFICES ASSUME Recorded(t) PROVE PendingWith(v, t)'
    OBVIOUS
  <2>1. PICK i \in Episode(journal) : t \in ToSet(journal[i].done)
    BY DEF Recorded
  <2>2. journal \in Seq(RunType)
    BY DEF IInv, Types
  <2>3. PICK s \in ToSet(StepsToUndo(journal)) : s.target = t
    BY <2>1, <2>2, StepsToUndoHolds
  <2>4. PICK k \in DOMAIN StepsToUndo(journal) : s = StepsToUndo(journal)[k]
    BY DEF ToSet
  <2> QED
    BY <1>2, <2>3, <2>4 DEF PendingWith
<1> QED
  <2>1. /\ t \in lapsed => AnsweredFor(t)'
        /\ t \in failed => AnsweredFor(t)'
        /\ PendingWith(v, t)' => AnsweredFor(t)'
        /\ Outlived(t)' => AnsweredFor(t)'
    BY DEF AnsweredFor
  <2> QED
    BY <1>1, <1>3, <1>4, <1>5, <2>1, AnswersKept

\* A stop that takes its target down has it in hand until its line is written, or has
\* failed.
LEMMA StopAccounted ==
  ASSUME IInv, [Next]_vars, NEW v \in Verb, NEW x \in Targets, Stop(v, x)
  PROVE  Accounted'
<1>0. Types
  BY DEF IInv
<1> SUFFICES ASSUME NEW t \in owed' PROVE AnsweredFor(t)'
  BY DEF Accounted
<1>1. /\ Others(v) /\ Stops(proc[v], proc'[v])
      /\ \A y \in Targets : y # x => proc'[v].result[y] = proc[v].result[y]
      /\ proc[v].result[x] = ""
  BY <1>0, StopDoes
<1>2. /\ proc[v].pc = "wave" /\ proc'[v].pc = "wave" /\ proc'[v].wave = proc[v].wave
  BY <1>1 DEF Stops
<1>3. /\ UNCHANGED <<journal, failed>> /\ lapsed \subseteq lapsed' /\ x \in ToSet(proc[v].wave)
      /\ \/ UNCHANGED owed
         \/ owed' = (IF x \in down THEN owed ELSE owed \union {x})
  BY DEF Stop, TakesDown, Flying
<1>4. CASE t \in owed
  <2>1. AnsweredFor(t)
    BY <1>4 DEF IInv, Accounted
  <2>2. t \in Unrecorded(v) => t \in Unrecorded(v)'
    <3>1. ToSet(proc[v].wave) \subseteq Targets
      BY <1>0, ProcFields, ElementsInSet
    <3> SUFFICES ASSUME t \in ToSet(proc[v].wave), proc[v].result[t] = "done"
                 PROVE  t \in ToSet(proc'[v].wave) /\ proc'[v].result[t] = "done"
      BY DEF Unrecorded
    <3>2. t # x /\ t \in Targets
      BY <1>1, <3>1
    <3> QED
      BY <1>1, <1>2, <3>2
  <2>3. ~PendingWith(v, t) /\ \A i : ~Undoing(v, i)'
    BY <1>2 DEF PendingWith, Undoing, At
  <2>4. Recorded(t) => Recorded(t)'
    BY <1>1, <1>3, <2>3, RecordedStays
  <2>5. Outlived(t) => Outlived(t)'
    BY OutlivedStays
  <2>6. /\ t \in lapsed => AnsweredFor(t)'
        /\ t \in failed => AnsweredFor(t)'
        /\ t \in Unrecorded(v)' => AnsweredFor(t)'
        /\ Recorded(t)' => AnsweredFor(t)'
        /\ Outlived(t)' => AnsweredFor(t)'
    BY <1>3 DEF AnsweredFor
  <2> QED
    BY <1>1, <1>4, <2>1, <2>2, <2>3, <2>4, <2>5, <2>6, AnswersKept
<1>5. CASE t \notin owed
  <2>1. t = x /\ ~UNCHANGED owed
    BY <1>3, <1>5
  <2>2. \/ proc' = [proc EXCEPT ![v].result[x] = "done"]
        \/ lapsed' = lapsed \union (owed' \ owed)
    BY <2>1 DEF Stop
  <2>3. CASE lapsed' = lapsed \union (owed' \ owed)
    BY <1>5, <2>3 DEF AnsweredFor
  <2>4. CASE proc' = [proc EXCEPT ![v].result[x] = "done"]
    <3>1. proc \in [Verb -> ProcType] /\ proc[v] \in ProcType
      BY <1>0 DEF Types
    <3>2. proc'[v].result[x] = "done"
      BY <2>4, <3>1 DEF ProcType
    <3>3. t \in Unrecorded(v)'
      BY <1>2, <1>3, <2>1, <3>2 DEF Unrecorded
    <3> QED
      BY <3>3 DEF AnsweredFor
  <2> QED
    BY <2>2, <2>3, <2>4
<1> QED
  BY <1>4, <1>5

\* With the same verbs, starts and endings an episode has the same runs.
LEMMA EpisodeStays ==
  ASSUME NEW runs, NEW more, DOMAIN more = DOMAIN runs, Len(more) = Len(runs),
         Len(runs) \in Nat, DOMAIN runs = 1..Len(runs),
         \A i \in DOMAIN runs : more[i].verb = runs[i].verb /\ more[i].late = runs[i].late,
         NEW i \in Episode(runs), more[i].ending # "aborted"
  PROVE  i \in Episode(more)
<1> DEFINE n == Len(runs)
<1>1. /\ i \in 1..n /\ n \in Nat
      /\ \A j \in i..n : runs[j].verb \notin Undoers
      /\ \A j \in (i + 1)..n : ~runs[j].late
  BY DEF Episode
<1>2. (\A j \in i..n : j \in 1..n) /\ (\A j \in (i + 1)..n : j \in 1..n)
  <2> HIDE DEF n
  <2> QED
    BY <1>1
<1>3. \A j \in i..n : more[j].verb \notin Undoers
  BY <1>1, <1>2
<1>4. \A j \in (i + 1)..n : ~more[j].late
  BY <1>1, <1>2
<1> QED
  BY <1>3, <1>4 DEF Episode

\* A target whose end is written passes from its process to the episode, or to a run the
\* outage has outlived by then.
LEMMA RecordEndAccounted ==
  ASSUME IInv, [Next]_vars, NEW v \in Verb, RecordEnd(v)
  PROVE  Accounted'
<1>0. Types /\ OwnRun
  BY DEF IInv
<1>1. UNCHANGED <<owed, lapsed, failed>>
  BY DEF RecordEnd, debts
<1> SUFFICES ASSUME NEW t \in owed PROVE AnsweredFor(t)'
  BY <1>1 DEF Accounted
<1>2. AnsweredFor(t)
  BY DEF IInv, Accounted
<1> DEFINE r == proc[v].run
           x == Head(proc[v].wave)
<1>3. /\ Others(v) /\ Records(proc[v], proc'[v])
      /\ \A y \in Targets : y # x => proc'[v].result[y] = proc[v].result[y]
  BY RecordEndDoes
<1>4. /\ proc[v].pc = "wave" /\ proc'[v].pc \in {"wave", "gate", "close"}
      /\ proc'[v].wave = Tail(proc[v].wave)
  BY <1>3 DEF Records
<1>5. ~PendingWith(v, t) /\ \A i : ~Undoing(v, i)'
  BY <1>4 DEF PendingWith, Undoing, At
<1>6. Len(journal) \in Nat /\ DOMAIN journal = 1..Len(journal)
  BY <1>0, JournalType
<1>7. /\ r \in DOMAIN journal /\ journal[r].ending = ""
      /\ \A j \in r..Len(journal) : journal[j].verb \notin Undoers
  BY <1>0, <1>4 DEF OwnRun, Underway
<1>8. /\ DOMAIN journal' = DOMAIN journal /\ Len(journal') = Len(journal)
      /\ \A i \in DOMAIN journal :
           /\ journal'[i].verb = journal[i].verb /\ journal'[i].late = journal[i].late
           /\ journal'[i].ending = journal[i].ending
           /\ ToSet(journal[i].done) \subseteq ToSet(journal'[i].done)
      /\ proc[v].result[x] = "done" => x \in ToSet(journal'[r].done)
  <2>1. CASE proc[v].result[x] = "done"
    <3>1. RecordsEnd(v)
      BY <1>4, <2>1 DEF RecordEnd, RecordsEnd, debts
    <3> QED
      BY <3>1, <1>7, RecordsEndDoes
  <2>2. CASE proc[v].result[x] # "done"
    <3>1. UNCHANGED journal
      BY <2>2 DEF RecordEnd
    <3> QED
      BY <2>2, <3>1
  <2> QED
    BY <2>1, <2>2
<1>9. ASSUME NEW i \in Episode(journal), t \in ToSet(journal'[i].done),
             \A w \in Verb : w # v => ~Undoing(w, i)
      PROVE  Recorded(t)'
  <2>1. i \in DOMAIN journal /\ journal[i].ending # "aborted"
    BY DEF Episode
  <2>2. i \in Episode(journal')
    BY <1>6, <1>8, <2>1, EpisodeStays
  <2>3. \A w \in Verb : ~Undoing(w, i)'
    BY <1>3, <1>5, <1>9, InItsHands DEF Others
  <2>4. ~BeingUndone(i)'
    BY <2>3 DEF BeingUndone
  <2> QED
    BY <1>9, <2>2, <2>4 DEF Recorded
<1>10. Recorded(t) => Recorded(t)'
  <2> SUFFICES ASSUME Recorded(t) PROVE Recorded(t)'
    OBVIOUS
  <2>1. PICK i \in Episode(journal) : ~BeingUndone(i) /\ t \in ToSet(journal[i].done)
    BY DEF Recorded
  <2>2. t \in ToSet(journal'[i].done)
    BY <1>8, <2>1 DEF Episode
  <2> QED
    BY <1>9, <2>1, <2>2 DEF BeingUndone
<1>11. Outlived(t) => Outlived(t)'
  BY OutlivedStays
<1>12. t \in Unrecorded(v) => t \in Unrecorded(v)' \/ Recorded(t)' \/ Outlived(t)'
  <2> SUFFICES ASSUME t \in ToSet(proc[v].wave), proc[v].result[t] = "done"
               PROVE  t \in Unrecorded(v)' \/ Recorded(t)' \/ Outlived(t)'
    BY DEF Unrecorded
  <2>1. CASE t = x
    <3>1. t \in ToSet(journal'[r].done)
      BY <1>8, <2>1
    <3>2. ASSUME NEW w \in Verb, w # v PROVE ~Undoing(w, r)
      BY <1>4, <3>2, UnderwayAlone DEF Undoing, At, Underway
    <3>3. r \in Episode(journal) \/ \E j \in (r + 1)..Len(journal) : journal[j].late
      BY <1>7, EpisodeOrOutlived
    <3> HIDE DEF r
    <3>4. CASE r \in Episode(journal)
      BY <1>9, <3>1, <3>2, <3>4
    <3>5. CASE \E j \in (r + 1)..Len(journal) : journal[j].late
      <4>1. PICK j \in (r + 1)..Len(journal) : journal[j].late
        BY <3>5
      <4>2. j \in DOMAIN journal
        <5> DEFINE n == Len(journal)
        <5>1. r \in 1..n /\ n \in Nat /\ j \in (r + 1)..n
          BY <1>6, <1>7, <4>1
        <5> HIDE DEF n
        <5>2. j \in 1..n
          BY <5>1
        <5> QED
          BY <1>6, <5>2 DEF n
      <4> QED
        BY <1>7, <1>8, <3>1, <4>1, <4>2 DEF Outlived
    <3> QED
      BY <3>3, <3>4, <3>5
  <2>2. CASE t # x
    <3> DEFINE s == proc[v].wave
    <3>1. s \in Seq(Targets) /\ s # <<>>
      BY <1>0, <1>4, ProcFields DEF IInv, WavesFull, At
    <3>2. t \in Targets
      BY <3>1, ElementsInSet
    <3>3. PICK k \in DOMAIN s : t = s[k]
      BY DEF ToSet
    <3>4. x = s[1]
      BY <3>1
    <3> HIDE DEF s
    <3>5. /\ Len(s) \in Nat /\ DOMAIN s = 1..Len(s) /\ Tail(s) \in Seq(Targets)
          /\ Len(Tail(s)) = Len(s) - 1
          /\ \A i \in 1..Len(Tail(s)) : Tail(s)[i] = s[i + 1]
      BY <3>1, LenProperties, HeadTailProperties
    <3>6. DOMAIN Tail(s) = 1..(Len(s) - 1)
      BY <3>5, LenProperties
    <3>7. k # 1
      BY <2>2, <3>3, <3>4
    <3>8. k - 1 \in 1..(Len(s) - 1) /\ (k - 1) + 1 = k
      <4> DEFINE n == Len(s)
      <4>1. n \in Nat /\ k \in 1..n
        BY <3>3, <3>5
      <4> HIDE DEF n
      <4>2. k - 1 \in 1..(n - 1) /\ (k - 1) + 1 = k
        BY <3>7, <4>1
      <4> QED
        BY <4>2 DEF n
    <3>9. Tail(s)[k - 1] = t
      BY <3>3, <3>5, <3>8
    <3>10. t \in ToSet(proc'[v].wave)
      BY <1>4, <3>6, <3>8, <3>9 DEF ToSet, s
    <3> QED
      BY <1>3, <2>2, <3>2, <3>10 DEF Unrecorded
  <2> QED
    BY <2>1, <2>2
<1> QED
  <2>1. /\ t \in lapsed => AnsweredFor(t)'
        /\ t \in failed => AnsweredFor(t)'
        /\ t \in Unrecorded(v)' => AnsweredFor(t)'
        /\ Recorded(t)' => AnsweredFor(t)'
        /\ Outlived(t)' => AnsweredFor(t)'
    BY <1>1 DEF AnsweredFor
  <2> QED
    BY <1>2, <1>3, <1>5, <1>10, <1>11, <1>12, <2>1, AnswersKept

\* A run that is closed stays in the episode, unless it has given everything back.
LEMMA CloseAccounted ==
  ASSUME IInv, [Next]_vars, NEW v \in Verb, Close(v)
  PROVE  Accounted'
<1>0. Types /\ OwnRun
  BY DEF IInv
<1>1. UNCHANGED <<owed, lapsed, failed>>
  BY DEF Close
<1> SUFFICES ASSUME NEW t \in owed PROVE AnsweredFor(t)'
  BY <1>1 DEF Accounted
<1>2. AnsweredFor(t)
  BY DEF IInv, Accounted
<1> DEFINE r == proc[v].run
<1>3. Others(v) /\ proc'[v] = Idle
  BY <1>0, ExitDoes DEF Close
<1>4. /\ proc[v].pc \in {"close", "reverse"}
      /\ proc[v].pc = "reverse" => proc[v].todo = <<>>
  BY DEF Close, At
<1>5. t \notin Unrecorded(v)
  BY <1>4, NothingInHand
<1>6. ~PendingWith(v, t)
  <2>1. DOMAIN <<>> = {}
    OBVIOUS
  <2> QED
    BY <1>4, <2>1 DEF PendingWith
<1>7. \A i : ~Undoing(v, i)'
  <2>1. Idle.pc = "idle"
    BY DEF Idle
  <2> QED
    BY <1>3, <2>1 DEF Undoing, At
<1>8. ClosesRun(v)
  BY <1>3 DEF Close, At, ClosesRun
<1>9. Len(journal) \in Nat /\ DOMAIN journal = 1..Len(journal)
  BY <1>0, JournalType
<1>10. /\ DOMAIN journal' = DOMAIN journal /\ Len(journal') = Len(journal)
       /\ \A i \in DOMAIN journal :
            /\ i # r => journal'[i] = journal[i]
            /\ journal'[i].verb = journal[i].verb /\ journal'[i].late = journal[i].late
            /\ journal'[i].done = journal[i].done
       /\ journal'[r].ending = IF proc[v].pc = "reverse" THEN "aborted" ELSE "complete"
  BY <1>8, ClosesRunDoes
<1>11. Recorded(t) => Recorded(t)'
  <2> SUFFICES ASSUME Recorded(t) PROVE Recorded(t)'
    OBVIOUS
  <2>1. PICK i \in Episode(journal) : ~BeingUndone(i) /\ t \in ToSet(journal[i].done)
    BY DEF Recorded
  <2>2. i \in DOMAIN journal /\ journal[i].ending # "aborted"
    BY DEF Episode
  <2>3. proc[v].pc = "reverse" => i # r
    BY <2>1 DEF BeingUndone, Undoing, At
  <2>4. journal'[i].ending # "aborted"
    BY <1>10, <2>2, <2>3
  <2>5. i \in Episode(journal')
    BY <1>9, <1>10, <2>4, EpisodeStays
  <2>6. \A w \in Verb : ~Undoing(w, i)'
    BY <1>3, <1>7, <2>1, InItsHands DEF Others, BeingUndone
  <2>7. ~BeingUndone(i)' /\ t \in ToSet(journal'[i].done)
    BY <1>10, <2>1, <2>2, <2>6 DEF BeingUndone
  <2> QED
    BY <2>5, <2>7 DEF Recorded
<1>12. Outlived(t) => Outlived(t)'
  BY OutlivedStays
<1> QED
  <2>1. /\ t \in lapsed => AnsweredFor(t)'
        /\ t \in failed => AnsweredFor(t)'
        /\ Recorded(t)' => AnsweredFor(t)'
        /\ Outlived(t)' => AnsweredFor(t)'
    BY <1>1 DEF AnsweredFor
  <2> QED
    BY <1>2, <1>3, <1>5, <1>6, <1>11, <1>12, <2>1, AnswersKept

\* An undo is recorded when nothing is left on its list; until then only the list answered.
LEMMA RecordUndoAccounted ==
  ASSUME IInv, [Next]_vars, NEW v \in Verb, RecordUndo(v)
  PROVE  Accounted'
<1>0. Types
  BY DEF IInv
<1>1. UNCHANGED <<owed, lapsed, failed>> /\ Others(v) /\ proc[v].pc = "undo" /\ proc[v].todo = <<>>
  BY <1>0, ExitDoes DEF RecordUndo, At
<1> SUFFICES ASSUME NEW t \in owed PROVE AnsweredFor(t)'
  BY <1>1 DEF Accounted
<1>2. AnsweredFor(t)
  BY DEF IInv, Accounted
<1>3. t \notin Unrecorded(v)
  BY <1>1, NothingInHand
<1>4. ~PendingWith(v, t)
  <2>1. DOMAIN <<>> = {}
    OBVIOUS
  <2> QED
    BY <1>1, <2>1 DEF PendingWith
<1>5. ~Recorded(t)
  BY <1>1 DEF Recorded, BeingUndone, Undoing, At
<1>6. Outlived(t) => Outlived(t)'
  BY OutlivedStays
<1> QED
  <2>1. /\ t \in lapsed => AnsweredFor(t)'
        /\ t \in failed => AnsweredFor(t)'
        /\ Outlived(t)' => AnsweredFor(t)'
    BY <1>1 DEF AnsweredFor
  <2> QED
    BY <1>1, <1>2, <1>3, <1>4, <1>5, <1>6, <2>1, AnswersKept

\* What comes off the list was given back, or the call that tried failed.
LEMMA UndoAccounted ==
  ASSUME IInv, [Next]_vars, NEW v \in Verb, Undo(v)
  PROVE  Accounted'
<1>0. Types
  BY DEF IInv
<1> DEFINE x == Last(proc[v].todo).target
<1>1. UNCHANGED journal /\ Others(v) /\ Undoes(proc[v], proc'[v])
  BY <1>0, UndoDoes DEF Undo
<1>2. /\ proc[v].pc \in {"undo", "reverse"} /\ proc'[v].pc = proc[v].pc /\ proc'[v].run = proc[v].run
      /\ proc[v].todo # <<>> /\ proc'[v].todo = Front(proc[v].todo)
  BY <1>1 DEF Undoes
<1>3. \/ owed' = owed \ {x} /\ lapsed' = lapsed \ {x} /\ failed' = failed \ {x}
      \/ UNCHANGED <<owed, lapsed>> /\ failed' = failed \union ({x} \intersect owed)
  BY DEF Undo
<1> SUFFICES ASSUME NEW t \in owed' PROVE AnsweredFor(t)'
  BY DEF Accounted
<1>4. t \in owed /\ (t = x => t \in failed')
  BY <1>3
<1>5. AnsweredFor(t)
  BY <1>4 DEF IInv, Accounted
<1>6. t \notin Unrecorded(v)
  BY <1>2, NothingInHand
<1>7. \A i : Undoing(v, i)' => Undoing(v, i)
  BY <1>2 DEF Undoing, At
<1>8. Recorded(t) => Recorded(t)'
  BY <1>1, <1>7, RecordedStays
<1>9. Outlived(t) => Outlived(t)'
  BY OutlivedStays
<1>10. PendingWith(v, t) => PendingWith(v, t)' \/ t = x
  <2> SUFFICES ASSUME PendingWith(v, t), t # x PROVE PendingWith(v, t)'
    OBVIOUS
  <2> DEFINE s == proc[v].todo
  <2>1. PICK k \in DOMAIN s : s[k].target = t
    BY DEF PendingWith
  <2>2. s \in Seq(Step) /\ s # <<>>
    BY <1>0, <1>2, ProcFields DEF Step
  <2> HIDE DEF Step
  <2>3. /\ Len(s) \in Nat /\ DOMAIN s = 1..Len(s) /\ DOMAIN Front(s) = 1..(Len(s) - 1)
        /\ \A i \in DOMAIN Front(s) : Front(s)[i] = s[i]
    BY <2>2, FrontType, LenProperties
  <2>4. k # Len(s)
    BY <2>1 DEF Last
  <2>5. k \in DOMAIN Front(s)
    <3> DEFINE n == Len(s)
    <3>1. n \in Nat /\ k \in 1..n /\ k # n /\ DOMAIN Front(s) = 1..(n - 1)
      BY <2>1, <2>3, <2>4
    <3> HIDE DEF n, s
    <3>2. k \in 1..(n - 1)
      BY <3>1
    <3> QED
      BY <3>1, <3>2
  <2>6. Front(s)[k].target = t
    BY <2>1, <2>3, <2>5
  <2> QED
    BY <1>2, <2>5, <2>6 DEF PendingWith
<1> QED
  <2>1. /\ t # x => (t \in lapsed => AnsweredFor(t)') /\ (t \in failed => AnsweredFor(t)')
        /\ t = x => AnsweredFor(t)'
        /\ PendingWith(v, t)' => AnsweredFor(t)'
        /\ Recorded(t)' => AnsweredFor(t)'
        /\ Outlived(t)' => AnsweredFor(t)'
    BY <1>3, <1>4 DEF AnsweredFor
  <2> QED
    BY <1>1, <1>4, <1>5, <1>6, <1>8, <1>9, <1>10, <2>1, AnswersKept

\* A process that is killed takes with it what it had not recorded, and no more: an undo
\* cut short leaves its list in the journal.
LEMMA KilledAccounted ==
  ASSUME IInv, [Next]_vars, NEW v \in Verb, Killed(v)
  PROVE  Accounted'
<1>0. Types
  BY DEF IInv
<1>1. PICK landed \in SUBSET Flying(v) :
        /\ owed' = owed \union (landed \ down)
        /\ lapsed' = lapsed \union (landed \ down) \union (owed \intersect Unrecorded(v))
  BY DEF Killed
<1>2. /\ UNCHANGED <<journal, failed>> /\ Others(v) /\ proc'[v] = Idle
  BY <1>0, ExitDoes DEF Killed
<1>3. proc'[v].pc = "idle"
  <2>1. Idle.pc = "idle"
    BY DEF Idle
  <2> QED
    BY <1>2, <2>1
<1> SUFFICES ASSUME NEW t \in owed' PROVE AnsweredFor(t)'
  BY DEF Accounted
<1>4. CASE t \in lapsed'
  BY <1>4 DEF AnsweredFor
<1>5. CASE t \notin lapsed'
  <2>1. t \in owed /\ t \notin Unrecorded(v) /\ t \notin lapsed
    BY <1>1, <1>5
  <2>2. AnsweredFor(t)
    BY <2>1 DEF IInv, Accounted
  <2>3. \A i : ~Undoing(v, i)'
    BY <1>3 DEF Undoing, At
  <2>4. Recorded(t) => Recorded(t)'
    BY <1>2, <2>3, RecordedStays
  <2>5. Outlived(t) => Outlived(t)'
    BY OutlivedStays
  <2>6. PendingWith(v, t) => Recorded(t)' \/ Outlived(t)
    BY <1>2, <1>3, PendingIsRecorded DEF Others
  <2>7. /\ t \in failed => AnsweredFor(t)'
        /\ Recorded(t)' => AnsweredFor(t)'
        /\ Outlived(t)' => AnsweredFor(t)'
    BY <1>2 DEF AnsweredFor
  <2> QED
    BY <1>2, <2>1, <2>2, <2>4, <2>5, <2>6, <2>7, AnswersKept
<1> QED
  BY <1>4, <1>5

\* So does a machine that stops, of all its processes.
LEMMA MachineStopsAccounted ==
  ASSUME IInv, [Next]_vars, MachineStops
  PROVE  Accounted'
<1>1. /\ UNCHANGED <<journal, owed, failed>> /\ proc' = [v \in Verb |-> Idle]
      /\ lapsed' = lapsed \union (owed \intersect UNION {Unrecorded(v) : v \in Verb})
  BY DEF MachineStops
<1>2. \A v \in Verb : proc'[v].pc = "idle"
  BY <1>1 DEF Idle
<1> SUFFICES ASSUME NEW t \in owed PROVE AnsweredFor(t)'
  BY <1>1 DEF Accounted
<1>3. AnsweredFor(t)
  BY DEF IInv, Accounted
<1>4. (\E v \in Verb : t \in Unrecorded(v)) => t \in lapsed'
  BY <1>1
<1>5. Outlived(t) => Outlived(t)'
  BY OutlivedStays
<1>6. ASSUME NEW v \in Verb, PendingWith(v, t) PROVE Recorded(t)' \/ Outlived(t)
  BY <1>1, <1>2, <1>6, PendingIsRecorded
<1>7. Recorded(t) => Recorded(t)'
  <2>1. \A i : ~BeingUndone(i)'
    BY <1>2 DEF BeingUndone, Undoing, At
  <2> QED
    BY <1>1, <2>1 DEF Recorded
<1>8. t \in lapsed => t \in lapsed'
  BY <1>1
<1> QED
  <2>1. /\ t \in lapsed' => AnsweredFor(t)'
        /\ t \in failed => AnsweredFor(t)'
        /\ Recorded(t)' => AnsweredFor(t)'
        /\ Outlived(t)' => AnsweredFor(t)'
    BY <1>1 DEF AnsweredFor
  <2> QED
    BY <1>3, <1>4, <1>5, <1>6, <1>7, <1>8, <2>1 DEF AnsweredFor

\* However the verbs are interleaved, killed or cut off, somebody answers for what is owed.
LEMMA AccountedStep ==
  ASSUME IInv, [Next]_vars
  PROVE  Accounted'
<1>0. Types /\ InPlace /\ Accounted
  BY DEF IInv
<1>a. ASSUME UNCHANGED <<proc, journal, owed, lapsed, failed>>
      PROVE  Accounted'
  BY <1>0, <1>a DEF Accounted, AnsweredFor, Unrecorded, PendingWith, Recorded, Outlived,
     BeingUndone, Undoing, At
<1>b. ASSUME NEW v \in Verb, proc'[v] = Idle, Others(v), proc[v].pc # "wave",
             UNCHANGED <<journal, owed, lapsed, failed>>
      PROVE  Accounted'
  <2>1. Idle.pc = "idle"
    BY DEF Idle
  <2> QED
    BY <1>b, <2>1, QuietStep
<1>c. ASSUME NEW v \in Verb, NEW place \in {"plan", "lock", "await", "read", "close"},
             GoTo(v, place), proc[v].pc # "wave",
             UNCHANGED <<journal, owed, lapsed, failed>>
      PROVE  Accounted'
  <2>1. Others(v) /\ proc'[v].pc = place
    BY <1>0, <1>c, GoToDoes
  <2> QED
    BY <1>c, <2>1, QuietStep
<1>1. CASE UNCHANGED vars
  BY <1>1, <1>a DEF vars, debts
<1>2. ASSUME NEW v \in Verb, StartShutdown(v)
      PROVE  Accounted'
  BY <1>2, <1>c DEF StartShutdown, MayStart, At, debts
<1>3. ASSUME NEW v \in Verb, PlanShutdown(v)
      PROVE  Accounted'
  <2>1. Others(v) /\ (proc'[v] = Idle \/ Plans(proc[v], proc'[v]))
    BY <1>0, <1>3, PlanShutdownDoes
  <2>2. UNCHANGED <<journal, owed, lapsed, failed>> /\ proc[v].pc = "plan"
    BY <1>3 DEF PlanShutdown, debts, At
  <2>3. CASE proc'[v] = Idle
    BY <1>b, <2>1, <2>2, <2>3
  <2>4. CASE Plans(proc[v], proc'[v])
    <3>1. proc'[v].pc = "built"
      BY <2>4 DEF Plans
    <3> QED
      BY <2>1, <2>2, <3>1, QuietStep
  <2> QED
    BY <2>1, <2>3, <2>4
<1>4. CASE StartConserve
  <2>1. "conserve" \in Verb
    BY DEF Verb
  <2> QED
    BY <1>4, <1>c, <2>1 DEF StartConserve, MayStart, At, debts
<1>5. CASE StartCancel
  <2>1. "cancel" \in Verb
    BY DEF Verb, Undoers
  <2>2. UNCHANGED <<journal, owed, lapsed, failed>>
    BY <1>5 DEF StartCancel, debts
  <2>3. CASE At("cancel", "idle")
    BY <1>5, <1>c, <2>1, <2>2, <2>3 DEF StartCancel, At
  <2>4. CASE ~At("cancel", "idle")
    BY <1>5, <1>a, <2>2, <2>4 DEF StartCancel
  <2> QED
    BY <2>3, <2>4
<1>6. ASSUME NEW v \in Verb, TakeUndoLock(v)
      PROVE  Accounted'
  <2> DEFINE place == IF v = "conserve" THEN "plan" ELSE "await"
  <2>1. /\ GoTo(v, place) /\ proc[v].pc # "wave"
        /\ UNCHANGED <<journal, owed, lapsed, failed>>
    BY <1>6 DEF TakeUndoLock, At, debts
  <2>2. place \in {"plan", "lock", "await", "read", "close"}
    OBVIOUS
  <2> HIDE DEF place
  <2> QED
    BY <1>c, <2>1, <2>2
<1>7. CASE PlanConserve
  <2>1. "conserve" \in Verb
    BY DEF Verb
  <2>2. /\ Others("conserve")
        /\ proc'["conserve"] = Idle \/ Plans(proc["conserve"], proc'["conserve"])
    BY <1>7, PlanConserveDoes
  <2>3. UNCHANGED <<journal, owed, lapsed, failed>> /\ proc["conserve"].pc = "plan"
    BY <1>7 DEF PlanConserve, debts, At
  <2>4. CASE proc'["conserve"] = Idle
    BY <1>b, <2>1, <2>2, <2>3, <2>4
  <2>5. CASE Plans(proc["conserve"], proc'["conserve"])
    <3>1. proc'["conserve"].pc = "built"
      BY <2>5 DEF Plans
    <3> QED
      BY <2>1, <2>2, <2>3, <3>1, QuietStep
  <2> QED
    BY <2>2, <2>4, <2>5
<1>8. ASSUME NEW v \in Verb, TakeSequenceLock(v)
      PROVE  Accounted'
  BY <1>8, <1>c DEF TakeSequenceLock, At, debts
<1>9. ASSUME NEW v \in Verb, Open(v)
      PROVE  Accounted'
  <2>1. UNCHANGED <<owed, lapsed, failed>>
    BY <1>9 DEF Open, debts
  <2>2. Others(v) /\ proc[v].pc = "built"
    BY <1>0, <1>9, OpenDoes DEF At
  <2>3. CASE Exit(v) /\ proc'[v] = Idle /\ UNCHANGED journal
    BY <1>b, <2>1, <2>2, <2>3
  <2>4. CASE Opens(proc[v], proc'[v]) /\ Opened(v)
    BY <2>1, <2>2, <2>4, OpenAccounted
  <2> QED
    BY <1>0, <1>9, <2>3, <2>4, OpenDoes
<1>10. ASSUME NEW v \in Verb, GateAbandons(v)
       PROVE  Accounted'
  <2>1. Others(v) /\ Abandons(proc[v], proc'[v])
    BY <1>0, <1>10, GateAbandonsDoes
  <2>2. UNCHANGED <<journal, owed, lapsed, failed>>
    BY <1>10 DEF GateAbandons, debts
  <2> QED
    BY <2>1, <2>2, AbandonAccounted
<1>11. ASSUME NEW v \in Verb, GatePasses(v)
       PROVE  Accounted'
  <2>1. Others(v) /\ (Ends(proc[v], proc'[v]) \/ TakesWave(proc[v], proc'[v]))
    BY <1>0, <1>11, GatePassesDoes
  <2>2. proc'[v].pc \notin {"undo", "reverse"}
    BY <2>1 DEF Ends, TakesWave
  <2>3. UNCHANGED <<journal, owed, lapsed, failed>> /\ proc[v].pc # "wave"
    BY <1>11 DEF GatePasses, debts, At
  <2> QED
    BY <2>1, <2>2, <2>3, QuietStep
<1>12. ASSUME NEW v \in Verb, NEW t \in Targets, Stop(v, t)
       PROVE  Accounted'
  BY <1>12, StopAccounted
<1>13. ASSUME NEW v \in Verb, RecordEnd(v)
       PROVE  Accounted'
  BY <1>13, RecordEndAccounted
<1>14. ASSUME NEW v \in Verb, Halt(v)
       PROVE  Accounted'
  BY <1>14, <1>c DEF Halt, At, debts
<1>15. ASSUME NEW v \in Verb, Close(v)
       PROVE  Accounted'
  BY <1>15, CloseAccounted
<1>16. ASSUME NEW v \in Verb, ReadEpisode(v)
       PROVE  Accounted'
  <2>1. UNCHANGED <<journal, owed, lapsed, failed>> /\ proc[v].pc = "read"
    BY <1>16 DEF ReadEpisode, debts, At
  <2>2. Others(v)
    BY <1>0, <1>16, ReadEpisodeDoes
  <2>3. CASE proc'[v] = Idle
    BY <1>b, <2>1, <2>2, <2>3
  <2>4. CASE Reads(proc[v], proc'[v])
    BY <2>1, <2>2, <2>4, ReadAccounted
  <2> QED
    BY <1>0, <1>16, <2>3, <2>4, ReadEpisodeDoes
<1>17. ASSUME NEW v \in Verb, Undo(v)
       PROVE  Accounted'
  BY <1>17, UndoAccounted
<1>18. ASSUME NEW v \in Verb, RecordUndo(v)
       PROVE  Accounted'
  BY <1>18, RecordUndoAccounted
<1>19. ASSUME NEW v \in Verb, Killed(v)
       PROVE  Accounted'
  BY <1>19, KilledAccounted
<1>20. CASE MainsChange \/ OperatorReboots
  BY <1>20, <1>a DEF MainsChange, OperatorReboots, debts
<1>21. CASE MachineStops
  BY <1>21, MachineStopsAccounted
<1>22. CASE Boot
  <2>1. "wake" \in Verb /\ proc["wake"].pc # "wave"
    BY <1>0 DEF Verb, Undoers, InPlace, Places
  <2> QED
    BY <1>22, <1>c, <2>1 DEF Boot, debts
<1> QED
  <2> HIDE DEF IInv, Accounted
  <2> QED
    BY <1>1, <1>2, <1>3, <1>4, <1>5, <1>6, <1>7, <1>8, <1>9, <1>10, <1>11, <1>12, <1>13, <1>14,
       <1>15, <1>16, <1>17, <1>18, <1>19, <1>20, <1>21, <1>22
    DEF Next, Environment, Process

-----------------------------------------------------------------------------
(***************************************************************************)
(* The theorems.                                                           *)
(***************************************************************************)
\* At the start nothing runs and nothing is owed.
LEMMA InitIInv == Init => IInv
<1> SUFFICES ASSUME Init PROVE IInv
  OBVIOUS
<1>1. /\ proc = [v \in Verb |-> Idle] /\ journal = <<>> /\ settled = {} /\ owed = {}
      /\ lapsed = {} /\ failed = {} /\ down = {} /\ undoLock = Free /\ sleepLock = Free
  BY DEF Init
<1>2. /\ Idle.pc = "idle" /\ Idle.wave = <<>> /\ Idle.waves = <<>> /\ DOMAIN <<>> = {}
  BY DEF Idle
<1>3. \A v \in Verb : proc[v] = Idle /\ proc[v].pc = "idle"
  BY <1>1, <1>2
<1>4. DOMAIN journal = {}
  BY <1>1, <1>2
<1>5. Types
  <2>1. proc \in [Verb -> ProcType]
    BY <1>1, IdleType
  <2>2. journal \in Seq(RunType)
    BY <1>1, EmptySeq
  <2>3. mains \in BOOLEAN /\ turns \in 0..MaxTurns /\ host \in {"on", "stopping", "off"}
        /\ online \in BOOLEAN
    <3>1. mains = TRUE /\ turns = 0 /\ host = "on" /\ online = FALSE
      BY DEF Init
    <3>2. 0 \in 0..MaxTurns
      BY BoundsAssumption
    <3> QED
      BY <3>1, <3>2
  <2> QED
    BY <1>1, <2>1, <2>2, <2>3 DEF Types
<1>6. InPlace
  BY <1>3 DEF InPlace, Places
<1>7. LocksHeld
  BY <1>3 DEF LocksHeld, NeedsUndoLock, NeedsSleepLock, Underway
<1>8. WavesFull
  BY <1>2, <1>3 DEF WavesFull, At
<1>9. OwnRun
  BY <1>3 DEF OwnRun, Underway
<1>10. ReversesItsRun /\ UndoesTheEpisode
  BY <1>3 DEF ReversesItsRun, UndoesTheEpisode, At
<1>11. SettledIsOver
  BY <1>1 DEF SettledIsOver
<1>12. UndosApart
  BY <1>4 DEF UndosApart, Apart
<1>13. Accounted
  BY <1>1 DEF Accounted
<1> QED
  BY <1>5, <1>6, <1>7, <1>8, <1>9, <1>10, <1>11, <1>12, <1>13 DEF IInv

\* Every step keeps all of it.
LEMMA StepIInv == IInv /\ [Next]_vars => IInv'
<1> SUFFICES ASSUME IInv, [Next]_vars PROVE IInv'
  OBVIOUS
<1>1. Types' /\ InPlace' /\ LocksHeld' /\ WavesFull'
  BY TypesStep, InPlaceStep, LocksHeldStep, WavesFullStep
<1>2. OwnRun' /\ ReversesItsRun' /\ UndoesTheEpisode' /\ SettledIsOver'
  BY OwnRunStep, ReversesItsRunStep, UndoesTheEpisodeStep, SettledIsOverStep
<1>3. UndosApart' /\ Accounted'
  BY UndosApartStep, AccountedStep
<1> QED
  BY <1>1, <1>2, <1>3 DEF IInv

\* When no undo comes first or follows another, at most half of the runs are undos.
LEMMA HalfUndo ==
  ASSUME NEW runs \in Seq(RunType), Apart(runs)
  PROVE  2 * Cardinality({i \in DOMAIN runs : runs[i].verb \in Undoers}) <= Len(runs)
<1> DEFINE n == Len(runs)
           A == {i \in 1..n : runs[i].verb \in Undoers}
           B == {i \in 1..n : runs[i].verb \notin Undoers}
           f == [i \in A |-> i - 1]
<1>1. n \in Nat /\ DOMAIN runs = 1..n
  <2> HIDE DEF RunType
  <2> QED
    BY LenProperties
<1>2. \A i \in 1..n : runs[i].verb \in Undoers => i # 1 /\ runs[i - 1].verb \notin Undoers
  BY <1>1 DEF Apart
<1> HIDE DEF n
<1>3. IsFiniteSet(1..n) /\ Cardinality(1..n) = n
  <2>1. 1 \in Int /\ n \in Int
    BY <1>1
  <2>2. IsFiniteSet(1..n) /\ Cardinality(1..n) = IF 1 > n THEN 0 ELSE n - 1 + 1
    BY <2>1, FS_Interval
  <2> QED
    BY <1>1, <2>2
<1>4. IsFiniteSet(A) /\ IsFiniteSet(B)
  BY <1>3, FS_Subset
<1>5. Cardinality(A) \in Nat /\ Cardinality(B) \in Nat
  BY <1>4, FS_CardinalityType
<1>6. f \in Injection(A, B)
  <2>1. \A i \in A : i - 1 \in B
    BY <1>1, <1>2
  <2>2. \A i, j \in A : i - 1 = j - 1 => i = j
    BY <1>1
  <2>3. f \in [A -> B]
    BY <2>1
  <2>4. \A i, j \in A : f[i] = f[j] => i = j
    BY <2>2
  <2> QED
    BY <2>3, <2>4 DEF Injection, IsInjective
<1>7. Cardinality(A) <= Cardinality(B)
  <2> HIDE DEF A, B, f
  <2> QED
    BY <1>4, <1>6, FS_Injection
<1>8. Cardinality(A) + Cardinality(B) = n
  <2>1. A \union B = 1..n /\ A \intersect B = {}
    OBVIOUS
  <2>2. Cardinality({}) = 0
    BY FS_EmptySet
  <2> HIDE DEF A, B
  <2>3. Cardinality(A \union B) = Cardinality(A) + Cardinality(B) - Cardinality(A \intersect B)
    BY <1>4, FS_Union
  <2>4. Cardinality(A \union B) = n /\ Cardinality(A \intersect B) = 0
    BY <1>3, <2>1, <2>2
  <2> QED
    BY <1>5, <2>3, <2>4
<1>9. A = {i \in DOMAIN runs : runs[i].verb \in Undoers}
  BY <1>1
<1> HIDE DEF A, B
<1>10. 2 * Cardinality(A) <= n
  BY <1>1, <1>5, <1>7, <1>8
<1> QED
  BY <1>9, <1>10 DEF n

\* Every variable keeps its type, and the journal its shape: however often the verbs are
\* started over, at most half of its runs are undos (Episode, recordUndo).
THEOREM TypeCorrect == Spec => []TypeOK
<1>1. IInv => TypeOK
  <2> SUFFICES ASSUME IInv PROVE TypeOK
    OBVIOUS
  <2>1. Types /\ UndosApart
    BY DEF IInv
  <2>2. 2 * Cardinality({i \in DOMAIN journal : journal[i].verb \in Undoers}) <= Len(journal)
    BY <2>1, HalfUndo DEF Types, UndosApart
  <2> QED
    BY <2>1, <2>2 DEF TypeOK, Types
<1> QED
  BY <1>1, InitIInv, StepIInv, PTL DEF Spec

\* What the host took down and has not given back is in the next cancel's or wake's
\* episode, or in one of the places NothingForgotten names (lockUndo, lockSleep, Episode,
\* recordUndo).
THEOREM NothingIsForgotten == Spec => []NothingForgotten
<1>1. IInv => NothingForgotten
  <2> SUFFICES ASSUME IInv, NEW t \in owed
               PROVE  t \in Remembered \union InHand \union lapsed \union failed \union BeyondTheGap
    BY DEF NothingForgotten
  <2>1. AnsweredFor(t) /\ journal \in Seq(RunType)
    BY DEF IInv, Types, Accounted
  <2>2. ASSUME NEW i \in Episode(journal), t \in ToSet(journal[i].done)
        PROVE  t \in Remembered
    <3>1. \A j \in Episode(journal) : \A x \in ToSet(journal[j].done) :
            \E s \in ToSet(StepsToUndo(journal)) : s.run = j /\ s.target = x
      BY <2>1, StepsToUndoHolds
    <3>2. \E s \in ToSet(StepsToUndo(journal)) : s.target = t
      BY <2>2, <3>1
    <3> QED
      BY <3>2 DEF Remembered
  <2>3. ASSUME NEW i \in DOMAIN journal, t \in ToSet(journal[i].done),
               \E j \in (i + 1)..Len(journal) : journal[j].late
        PROVE  t \in BeyondTheGap
    BY <2>3 DEF BeyondTheGap
  <2>4. CASE \E v \in Verb : t \in Unrecorded(v)
    BY <2>4 DEF InHand
  <2>5. ASSUME NEW v \in Verb, PendingWith(v, t)
        PROVE  t \in Remembered \union BeyondTheGap
    <3>1. PICK k \in DOMAIN proc[v].todo : proc[v].todo[k].target = t
      BY <2>5 DEF PendingWith
    <3>2. CASE proc[v].pc = "undo"
      BY <2>2, <3>1, <3>2 DEF IInv, UndoesTheEpisode, At
    <3>3. CASE proc[v].pc = "reverse"
      <4> DEFINE r == proc[v].run
      <4>1. /\ r \in DOMAIN journal /\ journal[r].ending = ""
            /\ \A j \in r..Len(journal) : journal[j].verb \notin Undoers
        BY <3>3 DEF IInv, OwnRun, Underway
      <4>2. t \in ToSet(journal[r].done)
        BY <3>1, <3>3 DEF IInv, ReversesItsRun, At
      <4>3. r \in Episode(journal) \/ \E j \in (r + 1)..Len(journal) : journal[j].late
        BY <4>1, EpisodeOrOutlived
      <4> HIDE DEF r
      <4> QED
        BY <2>2, <2>3, <4>1, <4>2, <4>3
    <3> QED
      BY <2>5, <3>2, <3>3 DEF PendingWith
  <2>6. CASE Recorded(t)
    BY <2>2, <2>6 DEF Recorded
  <2>7. CASE Outlived(t)
    BY <2>3, <2>7 DEF Outlived
  <2> QED
    BY <2>1, <2>4, <2>5, <2>6, <2>7 DEF AnsweredFor
<1> QED
  BY <1>1, InitIInv, StepIInv, PTL DEF Spec

\* No run that an undo, or its own reversal, has been through is undone again, however
\* many times cancel and wake are started (lockUndo, recordUndo).
THEOREM UndoneOnlyOnce == Spec => UndoneOnce
<1> DEFINE Once == \A v \in Undoers :
                     At(v, "undo") /\ proc'[v].pc = "undo" /\ proc'[v].todo # proc[v].todo
                       => Last(proc[v].todo).run \notin settled
<1>1. IInv /\ [Next]_vars => [Once]_vars
  <2> SUFFICES ASSUME IInv, [Next]_vars, NEW v \in Undoers, proc[v].pc = "undo",
                      proc'[v].pc = "undo", proc'[v].todo # proc[v].todo
               PROVE  Last(proc[v].todo).run \notin settled
    BY DEF At
  <2>1. v \in Verb
    BY DEF Verb
  <2> DEFINE p == proc[v]
             q == proc'[v]
             s == p.todo
  <2>2. Move(v, p, q)
    BY <2>1, Moves
  <2>3. p.pc = "undo" /\ q.pc = "undo" /\ q.todo # p.todo
    OBVIOUS
  <2>4. s # <<>>
    <3> HIDE DEF p, q
    <3>1. q # p
      BY <2>3
    <3>2. Idle.pc = "idle"
      BY DEF Idle
    <3>3. ~Enters(v, p, q) /\ ~Plans(p, q) /\ ~Opens(p, q) /\ ~Abandons(p, q) /\ ~Reads(p, q)
      BY <2>3 DEF Enters, Plans, Opens, Abandons, Reads
    <3>4. ~Ends(p, q) /\ ~TakesWave(p, q) /\ ~Stops(p, q) /\ ~Records(p, q)
      BY <2>3 DEF Ends, TakesWave, Stops, Records
    <3>5. Undoes(p, q)
      BY <2>2, <2>3, <3>1, <3>2, <3>3, <3>4 DEF Move
    <3> QED
      BY <3>5 DEF Undoes
  <2>5. s \in Seq(Step)
    BY <2>1, ProcFields DEF IInv, Step
  <2>6. Len(s) \in DOMAIN s
    <3> HIDE DEF s, Step
    <3>1. Len(s) \in Nat /\ Len(s) # 0 /\ DOMAIN s = 1..Len(s)
      BY <2>4, <2>5, LenProperties, EmptySeq
    <3> DEFINE n == Len(s)
    <3>2. n \in Nat /\ n # 0 /\ DOMAIN s = 1..n
      BY <3>1
    <3> HIDE DEF n
    <3>3. n \in DOMAIN s
      BY <3>2
    <3> QED
      BY <3>3 DEF n
  <2>7. Last(s).run \in Episode(journal)
    BY <2>1, <2>6 DEF IInv, UndoesTheEpisode, At, Last
  <2> HIDE DEF s
  <2>8. Last(s).run \notin settled
    BY <2>7 DEF IInv, SettledIsOver, Episode
  <2> QED
    BY <2>8 DEF s
<1> QED
  BY <1>1, InitIInv, StepIInv, PTL DEF Spec, UndoneOnce
=============================================================================
