----------------------------- MODULE EstateProofs -----------------------------
(***************************************************************************)
(* Proofs about Estate, for any hosts, times within RoomAssumption, and    *)
(* any bounds on time and power.                                           *)
(***************************************************************************)
EXTENDS Estate, TLAPS

\* Every host's guests have been stopped, or taken by the cut, or given back.
NoneToStop == \A h \in Hosts : pc[h] \notin {"idle", "stopping"}

\* The output has gone off: no sequence is under way any more.
AllOver == \A h \in Hosts : pc[h] \in {"off", "revived"}

\* A host stops its guests within its budget, from a beginning that is not late.
InTime ==
  \A h \in Hosts : pc[h] = "stopping" => clock <= began[h] + StopTime

\* A host's guests run until they are stopped, and not past that while it goes on.
GuestsFollow ==
  \A h \in Hosts :
    /\ pc[h] \in {"idle", "stopping"} => h \in guests
    /\ pc[h] \in {"hold", "send", "halt"} => h \notin guests
    /\ h \notin guests => h \in stopped \/ AllOver

\* A listing without guests, however late, is of a time after every host's stop.
ViewIsPast == view = {} => NoneToStop /\ (stopped = Hosts \/ AllOver)

\* Past the barrier either every host has stopped, or the earliest ceiling is over.
BarrierHeld == (\E h \in Hosts : pc[h] = "send") => NoneToStop \/ clock >= HoldUntil

\* A cut that is due finds every host stopped, or is not due before it can have.
DueIsLate == due # None => NoneToStop \/ due >= HoldUntil + Delay

IInv ==
  /\ TypeOK /\ InTime /\ GuestsFollow /\ ViewIsPast /\ BarrierHeld /\ DueIsLate
  /\ SequencesAreSpared

\* The beginnings satisfy the invariant.
LEMMA InitIInv == Init => IInv
<1> SUFFICES ASSUME Init PROVE IInv
  OBVIOUS
<1> USE TimesAssumption, BoundsAssumption DEF Init
<1>1. TypeOK
  <2>1. pc \in [Hosts -> {"idle", "stopping", "hold", "send", "halt", "off", "back", "revived"}]
    OBVIOUS
  <2>2. began \in [Hosts -> 0..Skew]
    OBVIOUS
  <2>3. clock \in 0..MaxClock /\ turns \in 0..MaxTurns
    OBVIOUS
  <2>4. /\ mains \in BOOLEAN /\ output \in BOOLEAN /\ due = None
        /\ guests \subseteq Hosts /\ view \subseteq Hosts
        /\ sent \subseteq Hosts /\ stopped \subseteq Hosts /\ struck \subseteq Hosts
    OBVIOUS
  <2> QED
    BY <2>1, <2>2, <2>3, <2>4 DEF TypeOK
<1>2. InTime /\ GuestsFollow
  BY DEF InTime, GuestsFollow
<1>3. ViewIsPast
  BY DEF ViewIsPast, NoneToStop
<1>4. BarrierHeld /\ DueIsLate /\ SequencesAreSpared
  BY DEF BarrierHeld, DueIsLate, SequencesAreSpared
<1> QED
  BY <1>1, <1>2, <1>3, <1>4 DEF IInv

\* Type correctness is kept by every step.
LEMMA StepTypeOK == TypeOK /\ [Next]_vars => TypeOK'
<1> SUFFICES ASSUME TypeOK, [Next]_vars PROVE TypeOK'
  OBVIOUS
<1> USE TimesAssumption, BoundsAssumption DEF TypeOK, power, history
<1>1. ASSUME NEW h \in Hosts, Begin(h) PROVE TypeOK'
  BY <1>1 DEF Begin, Go
<1>2. ASSUME NEW h \in Hosts, GuestsStop(h) PROVE TypeOK'
  BY <1>2 DEF GuestsStop, Go, AfterGuests
<1>3. ASSUME NEW h \in Hosts, Abandon(h) PROVE TypeOK'
  BY <1>3 DEF Abandon, Go
<1>4. ASSUME NEW h \in Hosts, Release(h) PROVE TypeOK'
  BY <1>4 DEF Release, Go
<1>5. ASSUME NEW h \in Hosts, Send(h) PROVE TypeOK'
  BY <1>5 DEF Send, Go, Command
<1>6. ASSUME NEW h \in Hosts, Halt(h) PROVE TypeOK'
  BY <1>6 DEF Halt, Go
<1>7. CASE Refresh
  BY <1>7 DEF Refresh
<1>8. CASE MainsChange
  BY <1>8 DEF MainsChange
<1>9. CASE OutputDrops
  BY <1>9 DEF OutputDrops
<1>10. CASE OutputReturns
  BY <1>10 DEF OutputReturns
<1>11. CASE Tick
  BY <1>11 DEF Tick
<1>12. CASE UNCHANGED vars
  BY <1>12 DEF vars
<1> QED
  BY <1>1, <1>2, <1>3, <1>4, <1>5, <1>6, <1>7, <1>8, <1>9, <1>10, <1>11, <1>12
  DEF Next, Host

-----------------------------------------------------------------------------
(***************************************************************************)
(* What no step takes back.                                                *)
(***************************************************************************)
\* No host returns to where its guests are still to be stopped or begins a second
\* sequence once the output has gone; time and the record of stops only grow.
LEMMA OnlyForward ==
  ASSUME TypeOK, [Next]_vars
  PROVE  /\ \A h \in Hosts : /\ pc'[h] = "idle" => pc[h] = "idle"
                             /\ pc'[h] = "stopping" => pc[h] \in {"idle", "stopping"}
                             /\ pc[h] \in {"off", "revived"} => pc'[h] \in {"off", "revived"}
         /\ clock \in Nat /\ clock' \in Nat /\ clock <= clock'
         /\ stopped \subseteq stopped'
<1> DEFINE Forward ==
      /\ \A h \in Hosts : /\ pc'[h] = "idle" => pc[h] = "idle"
                          /\ pc'[h] = "stopping" => pc[h] \in {"idle", "stopping"}
                          /\ pc[h] \in {"off", "revived"} => pc'[h] \in {"off", "revived"}
      /\ clock <= clock' /\ stopped \subseteq stopped'
<1>0. clock \in Nat /\ clock' \in Nat
  BY StepTypeOK, BoundsAssumption DEF TypeOK
<1> USE <1>0 DEF TypeOK, power, history
<1>1. ASSUME NEW g \in Hosts, Begin(g) PROVE Forward
  BY <1>1 DEF Begin, Go
<1>2. ASSUME NEW g \in Hosts, GuestsStop(g) PROVE Forward
  BY <1>2 DEF GuestsStop, Go, AfterGuests
<1>3. ASSUME NEW g \in Hosts, Abandon(g) PROVE Forward
  BY <1>3 DEF Abandon, Go
<1>4. ASSUME NEW g \in Hosts, Release(g) PROVE Forward
  BY <1>4 DEF Release, Go
<1>5. ASSUME NEW g \in Hosts, Send(g) PROVE Forward
  BY <1>5 DEF Send, Go
<1>6. ASSUME NEW g \in Hosts, Halt(g) PROVE Forward
  BY <1>6 DEF Halt, Go
<1>7. CASE Refresh
  BY <1>7 DEF Refresh
<1>8. CASE MainsChange
  BY <1>8 DEF MainsChange
<1>9. CASE OutputDrops
  BY <1>9 DEF OutputDrops
<1>10. CASE OutputReturns
  BY <1>10 DEF OutputReturns
<1>11. CASE Tick
  BY <1>11 DEF Tick
<1>12. CASE UNCHANGED vars
  BY <1>12 DEF vars
<1> QED
  BY <1>1, <1>2, <1>3, <1>4, <1>5, <1>6, <1>7, <1>8, <1>9, <1>10, <1>11, <1>12
  DEF Next, Host

\* Once every host's guests are stopped, or the output has gone, it stays so.
LEMMA StaysStopped ==
  ASSUME TypeOK, [Next]_vars
  PROVE  (NoneToStop => NoneToStop') /\ (AllOver => AllOver')
  BY OnlyForward DEF NoneToStop, AllOver

-----------------------------------------------------------------------------
(***************************************************************************)
(* One lemma for each part of the invariant.                               *)
(***************************************************************************)
\* Time waits for the guests of a host that is stopping them.
LEMMA StepInTime == TypeOK /\ InTime /\ [Next]_vars => InTime'
<1> SUFFICES ASSUME TypeOK, InTime, [Next]_vars PROVE InTime'
  OBVIOUS
<1> USE TimesAssumption, BoundsAssumption DEF TypeOK, InTime, power, history
<1>1. ASSUME NEW g \in Hosts, Begin(g) PROVE InTime'
  BY <1>1 DEF Begin, Go
<1>2. ASSUME NEW g \in Hosts, GuestsStop(g) PROVE InTime'
  BY <1>2 DEF GuestsStop, Go, AfterGuests
<1>3. ASSUME NEW g \in Hosts, Abandon(g) PROVE InTime'
  BY <1>3 DEF Abandon, Go
<1>4. ASSUME NEW g \in Hosts, Release(g) PROVE InTime'
  BY <1>4 DEF Release, Go
<1>5. ASSUME NEW g \in Hosts, Send(g) PROVE InTime'
  BY <1>5 DEF Send, Go
<1>6. ASSUME NEW g \in Hosts, Halt(g) PROVE InTime'
  BY <1>6 DEF Halt, Go
<1>7. CASE Refresh
  BY <1>7 DEF Refresh
<1>8. CASE MainsChange
  BY <1>8 DEF MainsChange
<1>9. CASE OutputDrops
  BY <1>9 DEF OutputDrops
<1>10. CASE OutputReturns
  BY <1>10 DEF OutputReturns
<1>11. CASE Tick
  BY <1>11 DEF Tick
<1>12. CASE UNCHANGED vars
  BY <1>12 DEF vars
<1> QED
  BY <1>1, <1>2, <1>3, <1>4, <1>5, <1>6, <1>7, <1>8, <1>9, <1>10, <1>11, <1>12
  DEF Next, Host

\* A host's guests follow its place in the sequence.
LEMMA StepGuestsFollow == TypeOK /\ GuestsFollow /\ [Next]_vars => GuestsFollow'
<1> SUFFICES ASSUME TypeOK, GuestsFollow, [Next]_vars PROVE GuestsFollow'
  OBVIOUS
<1>0. AllOver => AllOver'
  BY StaysStopped
<1> USE <1>0 DEF TypeOK, GuestsFollow, power, history
<1>1. ASSUME NEW g \in Hosts, Begin(g) PROVE GuestsFollow'
  BY <1>1 DEF Begin, Go
<1>2. ASSUME NEW g \in Hosts, GuestsStop(g) PROVE GuestsFollow'
  BY <1>2 DEF GuestsStop, Go, AfterGuests
<1>3. ASSUME NEW g \in Hosts, Abandon(g) PROVE GuestsFollow'
  BY <1>3 DEF Abandon, Go
<1>4. ASSUME NEW g \in Hosts, Release(g) PROVE GuestsFollow'
  BY <1>4 DEF Release, Go
<1>5. ASSUME NEW g \in Hosts, Send(g) PROVE GuestsFollow'
  BY <1>5 DEF Send, Go
<1>6. ASSUME NEW g \in Hosts, Halt(g) PROVE GuestsFollow'
  BY <1>6 DEF Halt, Go
<1>7. CASE Refresh
  BY <1>7 DEF Refresh
<1>8. CASE MainsChange
  BY <1>8 DEF MainsChange
<1>9. CASE OutputDrops
  BY <1>9 DEF OutputDrops, AllOver
<1>10. CASE OutputReturns
  BY <1>10 DEF OutputReturns
<1>11. CASE Tick
  BY <1>11 DEF Tick
<1>12. CASE UNCHANGED vars
  BY <1>12 DEF vars
<1> QED
  BY <1>1, <1>2, <1>3, <1>4, <1>5, <1>6, <1>7, <1>8, <1>9, <1>10, <1>11, <1>12
  DEF Next, Host

\* Only a renewed listing changes, and it is renewed from the guests that run.
LEMMA StepViewIsPast ==
  TypeOK /\ GuestsFollow /\ ViewIsPast /\ [Next]_vars => ViewIsPast'
<1> SUFFICES ASSUME TypeOK, GuestsFollow, ViewIsPast, [Next]_vars, view' = {}
             PROVE  NoneToStop' /\ (stopped' = Hosts \/ AllOver')
  BY DEF ViewIsPast
<1>1. stopped' \subseteq Hosts
  BY StepTypeOK DEF TypeOK
<1>2. CASE Refresh
  <2>1. \A h \in Hosts : h \notin guests
    BY <1>2 DEF Refresh
  <2>2. NoneToStop
    BY <2>1 DEF GuestsFollow, NoneToStop
  <2>3. stopped = Hosts \/ AllOver
    BY <2>1 DEF GuestsFollow, TypeOK
  <2> QED
    BY <1>1, <2>2, <2>3, StaysStopped, OnlyForward
<1>3. CASE view' = view
  <2>1. NoneToStop /\ (stopped = Hosts \/ AllOver)
    BY <1>3 DEF ViewIsPast
  <2> QED
    BY <1>1, <2>1, StaysStopped, OnlyForward
<1>4. Refresh \/ view' = view
  BY DEF Next, Host, MainsChange, OutputDrops, OutputReturns, Tick, Begin, GuestsStop,
         Abandon, Release, Send, Halt, vars
<1> QED
  BY <1>2, <1>3, <1>4

\* A host goes past the barrier only by its ceiling or by a listing without guests.
LEMMA PassTheBarrier ==
  ASSUME TypeOK, [Next]_vars, NEW h \in Hosts, pc'[h] = "send", pc[h] # "send"
  PROVE  pc[h] = "hold" /\ (Ceiling(h) \/ view = {})
<1> USE DEF TypeOK, Go
<1>1. ASSUME NEW g \in Hosts, Host(g) PROVE Release(h)
  <2>1. CASE Release(g)
    BY <2>1 DEF Release
  <2>2. CASE Begin(g) \/ GuestsStop(g) \/ Abandon(g) \/ Send(g) \/ Halt(g)
    BY <2>2 DEF Begin, GuestsStop, AfterGuests, Abandon, Send, Halt
  <2> QED
    BY <1>1, <2>1, <2>2 DEF Host
<1>2. ~(Refresh \/ MainsChange \/ OutputDrops \/ OutputReturns \/ Tick \/ UNCHANGED vars)
  BY DEF Refresh, MainsChange, OutputDrops, OutputReturns, Tick, vars
<1> QED
  BY <1>1, <1>2 DEF Next, Release, EstateClear

\* The barrier holds until every host has stopped or the earliest ceiling is over.
LEMMA StepBarrierHeld ==
  TypeOK /\ ViewIsPast /\ BarrierHeld /\ [Next]_vars => BarrierHeld'
<1> SUFFICES ASSUME TypeOK, ViewIsPast, BarrierHeld, [Next]_vars,
                    NEW h \in Hosts, pc'[h] = "send"
             PROVE  NoneToStop' \/ clock' >= HoldUntil
  BY DEF BarrierHeld
<1>1. NoneToStop \/ clock >= HoldUntil
  <2>1. CASE pc[h] = "send"
    BY <2>1 DEF BarrierHeld
  <2>2. CASE pc[h] # "send" /\ view = {}
    BY <2>2 DEF ViewIsPast
  <2>3. CASE pc[h] # "send" /\ Ceiling(h)
    BY <2>3, TimesAssumption, BoundsAssumption DEF Ceiling, TypeOK
  <2> QED
    BY <2>1, <2>2, <2>3, PassTheBarrier
<1> QED
  BY <1>1, StaysStopped, OnlyForward, TimesAssumption

\* A cut is sent past the barrier, with its delay, or is the one already due.
LEMMA StepDueIsLate ==
  TypeOK /\ BarrierHeld /\ DueIsLate /\ [Next]_vars => DueIsLate'
<1> SUFFICES ASSUME TypeOK, BarrierHeld, DueIsLate, [Next]_vars PROVE DueIsLate'
  OBVIOUS
<1>1. CASE UNCHANGED due
  BY <1>1, StaysStopped DEF DueIsLate
<1>2. CASE due' = None
  BY <1>2 DEF DueIsLate
<1>3. ASSUME NEW h \in Hosts, Send(h) PROVE DueIsLate'
  <2>1. NoneToStop \/ clock >= HoldUntil
    BY <1>3 DEF Send, BarrierHeld
  <2>2. CASE due' \in Command
    <3>1. due' = clock + Delay \/ (due' = due /\ due # None)
      BY <2>2 DEF Command
    <3> QED
      BY <2>1, <3>1, StaysStopped, TimesAssumption, BoundsAssumption
      DEF DueIsLate, TypeOK
  <2> QED
    BY <1>1, <1>3, <2>2 DEF Send
<1>4. UNCHANGED due \/ due' = None \/ \E h \in Hosts : Send(h)
  BY DEF Next, Host, Refresh, MainsChange, OutputDrops, OutputReturns, Tick, Begin,
         GuestsStop, Abandon, Release, Halt, vars, power
<1> QED
  BY <1>1, <1>2, <1>3, <1>4

\* Every cut that takes effect does so after the last guest of a sequence is down.
LEMMA StepSpared ==
  TypeOK /\ InTime /\ GuestsFollow /\ DueIsLate /\ SequencesAreSpared /\ [Next]_vars
    => SequencesAreSpared'
<1> SUFFICES ASSUME TypeOK, InTime, GuestsFollow, DueIsLate, SequencesAreSpared, [Next]_vars
             PROVE  SequencesAreSpared'
  OBVIOUS
<1>1. CASE OutputDrops
  <2>1. \A h \in Hosts : pc[h] # "stopping"
    <3> SUFFICES ASSUME NEW h \in Hosts, pc[h] = "stopping" PROVE FALSE
      OBVIOUS
    <3>1. ~NoneToStop
      BY DEF NoneToStop
    <3>2. due >= HoldUntil + Delay /\ clock >= due
      BY <1>1, <3>1 DEF OutputDrops, DueIsLate
    <3>3. clock <= began[h] + StopTime /\ began[h] <= Skew
      BY TimesAssumption DEF InTime, TypeOK
    <3>4. due \in Nat /\ clock \in Nat /\ began[h] \in Nat
      BY <1>1, TimesAssumption, BoundsAssumption DEF OutputDrops, TypeOK
    <3> QED
      BY <3>2, <3>3, <3>4, TimesAssumption, RoomAssumption
  <2>2. {h \in guests : InSequence(h)} = {}
    BY <2>1 DEF GuestsFollow, InSequence, TypeOK
  <2> QED
    BY <1>1, <2>2 DEF OutputDrops, SequencesAreSpared
<1>2. CASE ~OutputDrops
  BY <1>2 DEF SequencesAreSpared, Next, Host, Refresh, MainsChange, OutputReturns, Tick,
              Begin, GuestsStop, Abandon, Release, Send, Halt, vars, history
<1> QED
  BY <1>1, <1>2

\* Every step keeps the invariant.
LEMMA StepIInv == IInv /\ [Next]_vars => IInv'
  BY StepTypeOK, StepInTime, StepGuestsFollow, StepViewIsPast, StepBarrierHeld,
     StepDueIsLate, StepSpared DEF IInv

-----------------------------------------------------------------------------
(***************************************************************************)
(* The theorems.                                                           *)
(***************************************************************************)
\* The state keeps its type, whatever the hosts, the UPS and the mains do.
THEOREM TypeCorrect == Spec => []TypeOK
<1>1. IInv => TypeOK
  BY DEF IInv
<1> QED
  BY <1>1, InitIInv, StepIInv, PTL DEF Spec

\* For any number of hosts, and any settings that leave room, no host's guests lose
\* their power while its sequence stops them.
THEOREM Spared == Spec => []SequencesAreSpared
<1>1. IInv => SequencesAreSpared
  BY DEF IInv
<1> QED
  BY <1>1, InitIInv, StepIInv, PTL DEF Spec

\* A host that leaves the barrier before its ceiling leaves it after the guests of
\* every host have stopped.
THEOREM EarlyRelease == Spec => EarlyMeansEveryone
<1> DEFINE Early ==
      \A h \in Hosts : pc[h] = "hold" /\ pc'[h] = "send" /\ clock < began[h] + HoldUntil
        => stopped = Hosts
<1>1. IInv /\ [Next]_vars => [Early]_vars
  <2> SUFFICES ASSUME IInv, [Next]_vars, NEW h \in Hosts, pc[h] = "hold",
                      pc'[h] = "send", clock < began[h] + HoldUntil
               PROVE  stopped = Hosts
    OBVIOUS
  <2>1. TypeOK /\ ViewIsPast
    BY DEF IInv
  <2>2. ~Ceiling(h)
    BY <2>1, TimesAssumption, BoundsAssumption DEF Ceiling, TypeOK
  <2>3. view = {}
    BY <2>1, <2>2, PassTheBarrier
  <2>4. ~AllOver
    BY DEF AllOver
  <2> QED
    BY <2>1, <2>3, <2>4 DEF ViewIsPast
<1> QED
  BY <1>1, InitIInv, StepIInv, PTL DEF Spec, EarlyMeansEveryone
=============================================================================
