--------------------------- MODULE ExecutorProofs ---------------------------
(***************************************************************************)
(* Theorems about Executor for every set of jobs that satisfies its        *)
(* assumptions: any plans of the planner's shape, any readings, any limits. *)
(***************************************************************************)
EXTENDS Executor, TLAPS

-----------------------------------------------------------------------------
(***************************************************************************)
(* What the assumptions say of the steps of the job being run.             *)
(***************************************************************************)
LEMMA StepFacts ==
  ASSUME job \in Jobs
  PROVE  /\ steps \in Seq(StepType)
         /\ DOMAIN steps = 1..Len(steps) /\ Len(steps) \in Nat
         /\ Len(steps) <= MaxSteps
         /\ PlanShape(steps)
         /\ \A i \in DOMAIN steps : steps[i] \in StepType
  BY JobsAssumption DEF JobType, steps

\* A wave is an interval that begins where the loop stands.
LEMMA WaveFacts ==
  ASSUME job \in Jobs, at \in 1..(Len(steps) + 1)
  PROVE  /\ Wave \subseteq DOMAIN steps
         /\ \A i \in Wave : at <= i /\ i <= Len(steps) /\ steps[i].wave = steps[at].wave
         /\ at <= Len(steps) => at \in Wave
         /\ \A i \in Wave : \A j \in at..i : j \in Wave
  <1>1. DOMAIN steps = 1..Len(steps) /\ Len(steps) \in Nat  BY StepFacts
  <1>2. QED  BY <1>1 DEF Wave, WaveFrom

\* What an operator had set before the run is among the host's marks.
LEMMA PriorFacts == ASSUME job \in Jobs PROVE job.prior \subseteq HostMarks
  BY JobsAssumption DEF JobType

\* The record of readings keeps its shape.
LEMMA ModelFacts ==
  /\ EmptyModel \in ModelType
  /\ model \in ModelType => \A s \in Readings : Observe(model, s) \in ModelType
  <1>1. EmptyModel \in ModelType
    BY DEF EmptyModel, ModelType, AnySample
  <1>2. ASSUME model \in ModelType, NEW s \in Readings
        PROVE  Observe(model, s) \in ModelType
    <2>1. s \in AnySample /\ model.last \in AnySample /\ model.seen \in 0..2
      BY <1>2 DEF Readings, ModelType, AnySample
    <2>2. (IF model.seen = 2 THEN 2 ELSE model.seen + 1) \in 0..2
      BY <2>1
    <2>3. QED  BY <2>1, <2>2 DEF Observe, ModelType
  <1>3. QED  BY <1>1, <1>2

-----------------------------------------------------------------------------
(***************************************************************************)
(* Type correctness.                                                       *)
(***************************************************************************)
LEMMA InitTypeOK == Init => TypeOK
  <1> SUFFICES ASSUME Init PROVE TypeOK  OBVIOUS
  <1>1. job \in Jobs /\ at = 1 /\ clock = 0 /\ issuedAt = 0 /\ served = FALSE
    BY DEF Init
  <1>2. DOMAIN steps = 1..Len(steps) /\ Len(steps) \in Nat  BY <1>1, StepFacts
  <1>3. up \subseteq Guests
    <2>1. Targets(job) \subseteq Guests
      BY <1>1, StepFacts DEF Targets, StepType, steps
    <2>2. QED  BY <2>1, GuestsAssumption DEF Init
  <1>4. marks \subseteq Action
    BY <1>1, PriorFacts DEF Init, HostMarks, Action
  <1>5. model \in ModelType
    BY ModelFacts DEF Init
  <1>6. pc \in {"hold", "gate", "completed"}  BY DEF Init, Enter
  <1>7. at \in 1..(Len(steps) + 1) /\ clock \in Nat /\ issuedAt \in Nat
    BY <1>1, <1>2
  <1>8. outcome \in [DOMAIN steps -> Outcomes] /\ undo \in [DOMAIN steps -> {"", "done", "failed"}]
    BY DEF Init, Outcomes
  <1>9. mains \in BOOLEAN  BY DEF Init
  <1>10. QED  BY <1>1, <1>3, <1>4, <1>5, <1>6, <1>7, <1>8, <1>9 DEF TypeOK

LEMMA NextTypeOK == TypeOK /\ [Next]_vars => TypeOK'
  <1> SUFFICES ASSUME TypeOK, [Next]_vars PROVE TypeOK'  OBVIOUS
  <1>0. at \in 1..(Len(steps) + 1) /\ clock \in Nat  BY DEF TypeOK
  <1>a. clock + 1 \in Nat  BY <1>0
  <1>1. DOMAIN steps = 1..Len(steps) /\ Len(steps) \in Nat  BY StepFacts DEF TypeOK
  <1>b. \A n \in (at + 1)..(Len(steps) + 1) : n \in 1..(Len(steps) + 1)
    BY <1>0, <1>1
  <1> USE DEF TypeOK
  <1>2. \A s \in Readings : Observe(model, s) \in ModelType
    BY ModelFacts
  <1>3. \A i \in DOMAIN steps : TakesEffect(i) => up' \subseteq Guests /\ marks' \subseteq Action
    BY StepFacts DEF TakesEffect, StepType
  <1>4. \A i \in DOMAIN steps : IsGivenBack(i) => up' \subseteq Guests /\ marks' \subseteq Action
    <2> SUFFICES ASSUME NEW i \in DOMAIN steps, IsGivenBack(i)
                 PROVE  up' \subseteq Guests /\ marks' \subseteq Action
      OBVIOUS
    <2>1. steps[i].action = GuestStop => steps[i].target \in Guests
      BY StepFacts DEF StepType, PlanShape
    <2>2. QED  BY <2>1 DEF IsGivenBack
  <1>5. CASE HoldOver
    BY <1>5 DEF HoldOver, Release, world, steps
  <1>6. CASE HoldSeesMains
    BY <1>2, <1>6 DEF HoldSeesMains, SeesMainsBack, Abandon, progress, world, steps
  <1>7. CASE HoldPolls
    <2>1. model' \in ModelType
      BY <1>2, <1>7 DEF HoldPolls, SeesNothingNew
    <2>2. clock' \in Nat /\ pc' \in {"hold", "gate", "barrier", "issue"} /\ served' \in BOOLEAN
      BY <1>a, <1>7 DEF HoldPolls, Release
    <2>3. QED  BY <1>7, <2>1, <2>2 DEF HoldPolls, world, steps
  <1>8. CASE GateSeesMains
    BY <1>2, <1>8 DEF GateSeesMains, SeesMainsBack, Abandon, progress, world, steps
  <1>9. CASE GatePasses
    BY <1>2, <1>9 DEF GatePasses, SeesNothingNew, progress, world, steps
  <1>10. CASE Issue
    BY <1>10 DEF Issue, world, steps
  <1>11. CASE EndWave
    <2>1. PICK next \in (at + 1)..(Len(steps) + 1) : at' = next /\ pc' = Enter(steps, next)
      BY <1>11 DEF EndWave
    <2>2. at' \in 1..(Len(steps) + 1) /\ pc' \in {"hold", "gate", "completed"}
      BY <1>b, <2>1 DEF Enter
    <2>3. QED  BY <1>11, <2>2 DEF EndWave, world, steps
  <1>12. CASE Reversed
    BY <1>12 DEF Reversed, progress, world, steps
  <1>13. ASSUME NEW i \in DOMAIN steps, Perform(i) PROVE TypeOK'
    <2>1. outcome' \in [DOMAIN steps -> Outcomes]
      BY <1>13 DEF Perform, Ends, Outcomes
    <2>2. up' \subseteq Guests /\ marks' \subseteq Action
      BY <1>3, <1>13 DEF Perform
    <2>3. QED  BY <1>13, <2>1, <2>2 DEF Perform, steps
  <1>14. ASSUME NEW i \in DOMAIN steps, Undo(i) PROVE TypeOK'
    <2>1. undo' \in [DOMAIN steps -> {"", "done", "failed"}]
      BY <1>14 DEF Undo
    <2>2. up' \subseteq Guests /\ marks' \subseteq Action
      BY <1>4, <1>14 DEF Undo
    <2>3. QED  BY <1>14, <2>1, <2>2 DEF Undo, steps
  <1>15. CASE Tick
    BY <1>a, <1>15 DEF Tick, progress, world, steps
  <1>16. CASE MainsChange
    BY <1>16 DEF MainsChange, progress, steps
  <1>17. ASSUME NEW g \in Far, ElsewhereChange(g) PROVE TypeOK'
    BY <1>17, GuestsAssumption DEF ElsewhereChange, progress, steps
  <1>18. CASE UNCHANGED vars
    BY <1>18 DEF vars, steps
  <1>19. QED
    BY <1>5, <1>6, <1>7, <1>8, <1>9, <1>10, <1>11, <1>12, <1>13, <1>14, <1>15, <1>16,
       <1>17, <1>18 DEF Next, Walk, Environment

\* The executor's state keeps its type from the first step to the last.
THEOREM TypeCorrect == Spec => []TypeOK
  BY InitTypeOK, NextTypeOK, PTL DEF Spec

-----------------------------------------------------------------------------
(***************************************************************************)
(* The inductive invariant. Nine of the thirteen kinds of step only move   *)
(* the loop: what they may do to pc is said once.                          *)
(***************************************************************************)
LEMMA LoopMoves ==
  ASSUME \/ HoldOver \/ HoldSeesMains \/ HoldPolls \/ GateSeesMains \/ GatePasses
         \/ Issue \/ Reversed \/ Tick \/ MainsChange
  PROVE  /\ UNCHANGED <<job, at, outcome, undo, up, marks>>
         /\ \/ pc' = pc /\ served' = served
            \/ pc \in {"hold", "barrier", "gate"} /\ pc' \in {"gate", "barrier"}
            \/ /\ pc \in {"barrier", "gate"} /\ pc' = "issue"
               /\ served' = TRUE \/ (served' = served /\ ~NeedsBarrier)
            \/ pc \in {"hold", "barrier", "gate"} /\ pc' = "reverse" /\ ~Committed(steps, at)
            \/ pc = "issue" /\ pc' = "wave"
            \/ pc = "reverse" /\ pc' = "aborted" /\ Owed = {}
  <1>1. CASE HoldOver  BY <1>1 DEF HoldOver, Release, world
  <1>2. CASE HoldSeesMains  BY <1>2 DEF HoldSeesMains, Gating, Abandon, progress, world
  <1>3. CASE HoldPolls  BY <1>3 DEF HoldPolls, Release, world
  <1>4. CASE GateSeesMains  BY <1>4 DEF GateSeesMains, Gating, Abandon, progress, world
  <1>5. CASE GatePasses  BY <1>5 DEF GatePasses, progress, world
  <1>6. CASE Issue  BY <1>6 DEF Issue, world
  <1>7. CASE Reversed  BY <1>7 DEF Reversed, progress, world
  <1>8. CASE Tick  BY <1>8 DEF Tick, progress, world
  <1>9. CASE MainsChange  BY <1>9 DEF MainsChange, progress
  <1>10. QED  BY <1>1, <1>2, <1>3, <1>4, <1>5, <1>6, <1>7, <1>8, <1>9

LEMMA LoopKeepsIInv ==
  ASSUME IInv, TypeOK',
         \/ HoldOver \/ HoldSeesMains \/ HoldPolls \/ GateSeesMains \/ GatePasses
         \/ Issue \/ Reversed \/ Tick \/ MainsChange
  PROVE  IInv'
  <1>1. /\ job' = job /\ at' = at /\ outcome' = outcome /\ undo' = undo
        /\ up' = up /\ marks' = marks
    BY LoopMoves
  <1>2. steps' = steps /\ Wave' = Wave /\ Owed' = Owed
    BY <1>1 DEF steps, Wave, Owed, Completed
  <1>3. \A i \in DOMAIN steps : Issued(i) => Issued(i)'
    BY <1>1, <1>2, LoopMoves DEF Issued
  <1>4. StepsEndInOrder'
    BY <1>1, <1>2, <1>3, LoopMoves DEF IInv, StepsEndInOrder
  <1>5. DoneForReal'
    BY <1>1, <1>2 DEF IInv, DoneForReal
  <1>6. ArmedByAStep'
    BY <1>1, <1>2, <1>3, LoopMoves DEF IInv, ArmedByAStep
  <1>7. UndoneNewestFirst'
    BY <1>1, <1>2, LoopMoves DEF IInv, UndoneNewestFirst
  <1>8. BarrierFirst'
    BY <1>1, <1>2, LoopMoves DEF IInv, BarrierFirst, NeedsBarrier
  <1>9. ChangesAreItsOwn'
    BY <1>1, <1>2 DEF IInv, ChangesAreItsOwn, Lasts, Targets, steps
  <1>10. QED  BY <1>4, <1>5, <1>6, <1>7, <1>8, <1>9 DEF IInv

LEMMA EndWaveKeepsIInv ==
  ASSUME IInv, TypeOK', EndWave
  PROVE  IInv'
  <1>1. PICK next \in (at + 1)..(Len(steps) + 1) :
          Wave = at..(next - 1) /\ at' = next /\ pc' = Enter(steps, next)
    BY DEF EndWave
  <1>2. pc = "wave" /\ WaveOver /\ UNCHANGED <<job, served, outcome, undo, up, marks>>
    BY DEF EndWave, world
  <1>3. steps' = steps  BY <1>2 DEF steps
  <1>4. /\ DOMAIN steps = 1..Len(steps) /\ Len(steps) \in Nat /\ at \in Nat /\ next \in Nat
        /\ next <= Len(steps) + 1
    <2>1. job \in Jobs /\ at \in 1..(Len(steps) + 1)  BY DEF IInv, TypeOK
    <2>2. DOMAIN steps = 1..Len(steps) /\ Len(steps) \in Nat  BY <2>1, StepFacts
    <2>3. QED  BY <1>1, <2>1, <2>2
  <1>5. \A i \in DOMAIN steps : Issued(i) <=> i < next
    BY <1>1, <1>2, <1>4 DEF Issued
  <1>6. \A i \in DOMAIN steps : Issued(i)' <=> i < next
    <2>1. pc' # "wave"  BY <1>1 DEF Enter
    <2>2. QED  BY <1>1, <2>1 DEF Issued
  <1>7. StepsEndInOrder'
    <2>1. \A i \in DOMAIN steps : i < next => outcome[i] # ""
      BY <1>2, <1>5 DEF Issued, WaveOver, Flying, IInv, StepsEndInOrder
    <2>2. pc' \in {"hold", "gate", "barrier", "issue", "wave"} => next <= Len(steps)
      BY <1>1, <1>4 DEF Enter
    <2>3. QED
      BY <1>1, <1>2, <1>3, <1>5, <1>6, <2>1, <2>2 DEF IInv, StepsEndInOrder
  <1>8. DoneForReal'  BY <1>2, <1>3 DEF IInv, DoneForReal
  <1>9. ArmedByAStep'
    <2>1. pc' \notin {"reverse", "aborted"}  BY <1>1 DEF Enter
    <2>2. QED  BY <1>2, <1>3, <1>5, <1>6, <2>1 DEF IInv, ArmedByAStep
  <1>10. UndoneNewestFirst'
    <2>1. pc' # "aborted"  BY <1>1 DEF Enter
    <2>2. \A i \in DOMAIN steps : undo[i] = ""  BY <1>2 DEF IInv, UndoneNewestFirst
    <2>3. QED  BY <1>2, <1>3, <2>1, <2>2 DEF UndoneNewestFirst
  <1>11. BarrierFirst'  BY <1>1 DEF Enter, BarrierFirst
  <1>12. ChangesAreItsOwn'
    BY <1>2, <1>3 DEF IInv, ChangesAreItsOwn, Lasts, Targets, steps
  <1>13. QED  BY <1>7, <1>8, <1>9, <1>10, <1>11, <1>12 DEF IInv

LEMMA PerformKeepsIInv ==
  ASSUME IInv, TypeOK', NEW i \in DOMAIN steps, Perform(i)
  PROVE  IInv'
  <1>1. /\ pc = "wave" /\ i \in Wave
        /\ UNCHANGED <<job, pc, at, served, undo>>
    BY DEF Perform, Flying
  <1>2. steps' = steps /\ Wave' = Wave  BY <1>1 DEF steps, Wave
  <1>3. \A k \in DOMAIN steps : Issued(k)' <=> Issued(k)  BY <1>1, <1>2 DEF Issued
  <1>4. Issued(i)  BY <1>1 DEF Issued
  <1>5. \A k \in DOMAIN steps : k # i => outcome'[k] = outcome[k]
    BY DEF Perform, Ends, IInv, TypeOK
  <1>6. outcome'[i] # ""
    BY DEF Perform, Ends, IInv, TypeOK
  <1>7. outcome'[i] = "done" => ~Skips(i)
    BY DEF Perform, Ends, IInv, TypeOK
  <1>8. marks' \subseteq marks \union {steps[i].action}
    BY DEF Perform, TakesEffect
  <1>9. StepsEndInOrder'
    BY <1>1, <1>2, <1>3, <1>4, <1>5, <1>6 DEF IInv, StepsEndInOrder
  <1>10. DoneForReal'
    BY <1>1, <1>2, <1>5, <1>7 DEF IInv, DoneForReal, Skips
  <1>11. ArmedByAStep'
    BY <1>1, <1>2, <1>3, <1>4, <1>8 DEF IInv, ArmedByAStep
  <1>12. UndoneNewestFirst'
    <2>1. \A k \in DOMAIN steps : undo[k] = ""  BY <1>1 DEF IInv, UndoneNewestFirst
    <2>2. QED  BY <1>1, <1>2, <2>1 DEF UndoneNewestFirst
  <1>13. BarrierFirst'  BY <1>1 DEF BarrierFirst
  <1>14. ChangesAreItsOwn'
    <2>1. outcome[i] = ""  BY DEF Perform, Flying
    <2>2. \A k \in DOMAIN steps : Lasts(k) => Lasts(k)'
      BY <1>1, <1>2, <1>5, <2>1 DEF Lasts
    <2>3. \/ UNCHANGED <<up, marks>>
          \/ /\ Lasts(i)'
             /\ up \ {steps[i].target} \subseteq up' /\ marks' \subseteq marks \union {steps[i].action}
      <3>1. undo'[i] = ""  BY <1>1 DEF IInv, UndoneNewestFirst
      <3>2. CASE UNCHANGED <<up, marks>>  BY <3>2
      <3>3. CASE TakesEffect(i) /\ outcome'[i] \in {"done", "failed"}
        <4>1. Lasts(i)'  BY <3>1, <3>3 DEF Lasts
        <4>2. QED  BY <4>1, <3>3 DEF TakesEffect
      <3>4. QED  BY <3>2, <3>3 DEF Perform, Ends, IInv, TypeOK
    <2>4. Targets(job)' = Targets(job) /\ job'.prior = job.prior  BY <1>1 DEF Targets
    <2>5. ASSUME NEW g \in (Targets(job) \ up)'
          PROVE  \E k \in DOMAIN steps : steps[k].target = g /\ Lasts(k)'
      BY <2>2, <2>3, <2>4, <2>5 DEF IInv, ChangesAreItsOwn
    <2>6. ASSUME NEW a \in ((marks \intersect HostMarks) \ job.prior)'
          PROVE  \E k \in DOMAIN steps : steps[k].action = a /\ Lasts(k)'
      BY <2>2, <2>3, <2>4, <2>6 DEF IInv, ChangesAreItsOwn
    <2>7. QED  BY <1>2, <2>5, <2>6 DEF ChangesAreItsOwn
  <1>15. QED  BY <1>9, <1>10, <1>11, <1>12, <1>13, <1>14 DEF IInv

LEMMA UndoKeepsIInv ==
  ASSUME IInv, TypeOK', NEW i \in DOMAIN steps, Undo(i)
  PROVE  IInv'
  <1>1. pc = "reverse" /\ NextToUndo(i) /\ UNCHANGED <<job, pc, at, served, outcome>>
    BY DEF Undo
  <1>2. steps' = steps /\ Wave' = Wave  BY <1>1 DEF steps, Wave
  <1>3. \A k \in DOMAIN steps : Issued(k)' <=> Issued(k)  BY <1>1, <1>2 DEF Issued
  <1>4. marks' \subseteq marks /\ up \subseteq up'
    BY DEF Undo, IsGivenBack
  <1>5. \A k \in DOMAIN steps : k # i => undo'[k] = undo[k]
    BY DEF Undo, IInv, TypeOK
  <1>6. undo'[i] # ""
    BY DEF Undo, IInv, TypeOK
  <1>7. Owed' = Owed \ {i}
    BY <1>1, <1>2, <1>5, <1>6 DEF Owed, Completed
  <1>8. undo'[i] = "done" => IsGivenBack(i)
    BY DEF Undo, IInv, TypeOK
  <1>9. StepsEndInOrder'  BY <1>1, <1>2, <1>3 DEF IInv, StepsEndInOrder
  <1>10. DoneForReal'  BY <1>1, <1>2 DEF IInv, DoneForReal
  <1>11. ArmedByAStep'  BY <1>1, <1>2, <1>3, <1>4 DEF IInv, ArmedByAStep
  <1>12. UndoneNewestFirst'
    <2>1. ASSUME NEW k \in DOMAIN steps, undo'[k] # "", NEW j \in Owed'  PROVE  j < k
      <3>1. j \in Owed /\ j # i  BY <1>7
      <3>2. CASE k = i
        <4>0. job \in Jobs /\ j \in DOMAIN steps  BY <3>1 DEF Owed, IInv, TypeOK
        <4>1. j \in Int /\ i \in Int  BY <4>0, StepFacts
        <4>2. QED  BY <1>1, <3>1, <3>2, <4>1 DEF NextToUndo
      <3>3. CASE k # i
        BY <1>5, <2>1, <3>1, <3>3 DEF IInv, UndoneNewestFirst
      <3>4. QED  BY <3>2, <3>3
    <2>2. pc' = "reverse"  BY <1>1
    <2>3. QED  BY <1>1, <1>2, <2>1, <2>2 DEF UndoneNewestFirst
  <1>13. BarrierFirst'  BY <1>1 DEF BarrierFirst
  <1>14. ChangesAreItsOwn'
    <2>1. /\ Targets(job)' = Targets(job) /\ job'.prior = job.prior
          /\ \A k \in DOMAIN steps : steps[k].action = GuestStop <=> steps[k].target # ThisHost
      <3>1. job \in Jobs  BY DEF IInv, TypeOK
      <3>2. QED  BY <1>1, <3>1, StepFacts DEF Targets, PlanShape
    <2>2. \A k \in DOMAIN steps : k # i /\ Lasts(k) => Lasts(k)'
      BY <1>1, <1>2, <1>5 DEF Lasts
    <2>3. Lasts(i) => \/ Lasts(i)'
                      \/ steps[i].action = GuestStop /\ steps[i].target \in up'
                      \/ steps[i].action # GuestStop /\ steps[i].action \notin marks'
      <3>1. SUFFICES ASSUME outcome[i] = "done", undo'[i] = "done"
                     PROVE  \/ steps[i].action = GuestStop /\ steps[i].target \in up'
                            \/ steps[i].action # GuestStop /\ steps[i].action \notin marks'
        BY <1>1, <1>2 DEF Lasts
      <3>2. steps[i].action \in Undoable  BY <1>1 DEF NextToUndo, Owed
      <3>3. ~job.dryRun
        BY <3>1, <3>2 DEF IInv, DoneForReal, Undoable, HostMarks, QuorumNote, Noout,
           CordonNode, GuestStop
      <3>4. QED  BY <1>8, <3>1, <3>3 DEF IsGivenBack
    <2>4. ASSUME NEW g \in (Targets(job) \ up)'
          PROVE  \E k \in DOMAIN steps : steps[k].target = g /\ Lasts(k)'
      <3>1. g \in Targets(job) \ up /\ g # ThisHost  BY <1>4, <2>1 DEF Targets
      <3>2. PICK k \in DOMAIN steps : steps[k].target = g /\ Lasts(k)
        BY <3>1 DEF IInv, ChangesAreItsOwn
      <3>3. QED  BY <2>1, <2>2, <2>3, <3>1, <3>2
    <2>5. ASSUME NEW a \in ((marks \intersect HostMarks) \ job.prior)'
          PROVE  \E k \in DOMAIN steps : steps[k].action = a /\ Lasts(k)'
      <3>1. a \in (marks \intersect HostMarks) \ job.prior  BY <1>4, <2>1
      <3>2. a # GuestStop  BY <3>1 DEF HostMarks, Noout, CordonNode, GuestStop
      <3>3. PICK k \in DOMAIN steps : steps[k].action = a /\ Lasts(k)
        BY <3>1 DEF IInv, ChangesAreItsOwn
      <3>4. QED  BY <2>2, <2>3, <3>2, <3>3
    <2>6. QED  BY <1>2, <2>4, <2>5 DEF ChangesAreItsOwn
  <1>15. QED  BY <1>9, <1>10, <1>11, <1>12, <1>13, <1>14 DEF IInv

LEMMA ElsewhereKeepsIInv ==
  ASSUME IInv, TypeOK', NEW g \in Far, ElsewhereChange(g)
  PROVE  IInv'
  <1>1. UNCHANGED <<job, pc, at, served, outcome, undo, marks>>
    BY DEF ElsewhereChange, progress
  <1>2. steps' = steps /\ Wave' = Wave /\ Owed' = Owed
    BY <1>1 DEF steps, Wave, Owed, Completed
  <1>3. \A k \in DOMAIN steps : Issued(k)' <=> Issued(k)  BY <1>1, <1>2 DEF Issued
  <1>4. \A k \in DOMAIN steps : steps[k].target \in up => steps[k].target \in up'
    <2>1. \A k \in DOMAIN steps : steps[k].target # g
      BY GuestsAssumption DEF IInv, TypeOK, steps
    <2>2. QED  BY <2>1 DEF ElsewhereChange
  <1>5. StepsEndInOrder'  BY <1>1, <1>2, <1>3 DEF IInv, StepsEndInOrder
  <1>6. DoneForReal'  BY <1>1, <1>2 DEF IInv, DoneForReal
  <1>7. ArmedByAStep'  BY <1>1, <1>2, <1>3 DEF IInv, ArmedByAStep
  <1>8. UndoneNewestFirst'  BY <1>1, <1>2 DEF IInv, UndoneNewestFirst
  <1>9. BarrierFirst'  BY <1>1, <1>2 DEF IInv, BarrierFirst
  <1>10. ChangesAreItsOwn'
    <2>1. (Targets(job) \ up)' \subseteq Targets(job) \ up
      <3>1. Targets(job)' = Targets(job)  BY <1>1 DEF Targets
      <3>2. \A h \in Targets(job) : h \in up => h \in up'  BY <1>4 DEF Targets, steps
      <3>3. QED  BY <3>1, <3>2
    <2>2. \A k \in DOMAIN steps : Lasts(k)' <=> Lasts(k)  BY <1>1 DEF Lasts
    <2>3. QED  BY <1>1, <1>2, <2>1, <2>2 DEF IInv, ChangesAreItsOwn
  <1>11. QED  BY <1>5, <1>6, <1>7, <1>8, <1>9, <1>10 DEF IInv

LEMMA InitIInv == Init => IInv
  <1> SUFFICES ASSUME Init PROVE IInv  OBVIOUS
  <1>1. TypeOK  BY InitTypeOK
  <1>2. /\ job \in Jobs /\ at = 1 /\ pc = Enter(steps, 1) /\ marks = job.prior
        /\ Targets(job) \subseteq up
        /\ \A i \in DOMAIN steps : outcome[i] = "" /\ undo[i] = ""
    BY DEF Init
  <1>3. DOMAIN steps = 1..Len(steps) /\ Len(steps) \in Nat  BY <1>2, StepFacts
  <1>4. pc \in {"hold", "gate", "completed"} /\ (pc # "completed" => at <= Len(steps))
    <2>1. 1 > Len(steps) \/ 1 <= Len(steps)  BY <1>3
    <2>2. QED  BY <1>2, <1>3, <2>1 DEF Enter
  <1>5. \A i \in DOMAIN steps : ~(i < at)
    <2>1. at = 1  BY <1>2
    <2>2. QED  BY <1>3, <2>1
  <1>6. marks \intersect Irreversible = {}
    BY <1>2, PriorFacts DEF HostMarks, Irreversible, Noout, CordonNode, Unmount, UpsCut, HostHalt
  <1>7. StepsEndInOrder  BY <1>2, <1>4, <1>5 DEF StepsEndInOrder
  <1>8. DoneForReal  BY <1>2 DEF DoneForReal
  <1>9. ArmedByAStep  BY <1>4, <1>6 DEF ArmedByAStep
  <1>10. UndoneNewestFirst  BY <1>2, <1>4 DEF UndoneNewestFirst
  <1>11. BarrierFirst  BY <1>4 DEF BarrierFirst
  <1>12. ChangesAreItsOwn  BY <1>2 DEF ChangesAreItsOwn
  <1>13. QED  BY <1>1, <1>7, <1>8, <1>9, <1>10, <1>11, <1>12 DEF IInv

LEMMA NextIInv == IInv /\ [Next]_vars => IInv'
  <1> SUFFICES ASSUME IInv, [Next]_vars PROVE IInv'  OBVIOUS
  <1>1. TypeOK'  BY NextTypeOK DEF IInv
  <1>2. CASE UNCHANGED vars
    <2>1. UNCHANGED <<job, pc, at, served, outcome, undo, up, marks>>  BY <1>2 DEF vars
    <2>2. steps' = steps /\ Wave' = Wave /\ Owed' = Owed
      BY <2>1 DEF steps, Wave, Owed, Completed
    <2>3. \A k \in DOMAIN steps : Issued(k)' <=> Issued(k)  BY <2>1, <2>2 DEF Issued
    <2>4. StepsEndInOrder' /\ DoneForReal'
      BY <2>1, <2>2, <2>3 DEF IInv, StepsEndInOrder, DoneForReal
    <2>5. ArmedByAStep'  BY <2>1, <2>2, <2>3 DEF IInv, ArmedByAStep
    <2>6. UndoneNewestFirst'  BY <2>1, <2>2 DEF IInv, UndoneNewestFirst
    <2>7. BarrierFirst'  BY <2>1, <2>2 DEF IInv, BarrierFirst
    <2>8. ChangesAreItsOwn'
      BY <2>1, <2>2 DEF IInv, ChangesAreItsOwn, Lasts, Targets, steps
    <2>9. QED  BY <1>1, <2>4, <2>5, <2>6, <2>7, <2>8 DEF IInv
  <1>3. CASE Next
    BY <1>1, <1>3, LoopKeepsIInv, EndWaveKeepsIInv, PerformKeepsIInv, UndoKeepsIInv,
       ElsewhereKeepsIInv DEF Next, Walk, Environment
  <1>4. QED  BY <1>2, <1>3

\* At every moment what the run has behind it is in order: see IInv.
THEOREM InductiveInvariant == Spec => []IInv
  BY InitIInv, NextIInv, PTL DEF Spec

-----------------------------------------------------------------------------
(***************************************************************************)
(* Safety.                                                                 *)
(***************************************************************************)
\* The facts about the plan in hand that the arguments below use.
LEMMA PlanFacts ==
  ASSUME IInv
  PROVE  /\ DOMAIN steps = 1..Len(steps) /\ Len(steps) \in Nat
         /\ at \in 1..(Len(steps) + 1)
         /\ \A i \in DOMAIN steps : i \in Int /\ steps[i].wave \in Nat /\ steps[i].action \in Action
         /\ PlanShape(steps)
         /\ \A i \in Wave : i \in DOMAIN steps /\ at <= i /\ steps[i].wave = steps[at].wave
         /\ \A i \in Wave : at \in DOMAIN steps
  <1>1. job \in Jobs /\ at \in 1..(Len(steps) + 1)  BY DEF IInv, TypeOK
  <1>2. DOMAIN steps = 1..Len(steps) /\ Len(steps) \in Nat /\ PlanShape(steps)
    BY <1>1, StepFacts
  <1>3. \A i \in DOMAIN steps : i \in Int /\ steps[i].wave \in Nat /\ steps[i].action \in Action
    BY <1>1, <1>2, StepFacts DEF StepType
  <1>4. \A i \in Wave : i \in DOMAIN steps /\ at <= i /\ steps[i].wave = steps[at].wave
    BY <1>1, WaveFacts
  <1>5. \A i \in Wave : at \in DOMAIN steps
    BY <1>1, <1>2, <1>4
  <1>6. QED  BY <1>1, <1>2, <1>3, <1>4, <1>5

\* A step with an earlier wave number than an issued one has ended.
LEMMA EarlierWavesEnded ==
  ASSUME IInv, NEW i \in DOMAIN steps, NEW j \in DOMAIN steps, Issued(i),
         j < i, steps[j].wave < steps[i].wave
  PROVE  outcome[j] # ""
  <1>1. CASE i < at
    <2>1. j < at  BY <1>1, PlanFacts
    <2>2. QED  BY <2>1 DEF IInv, StepsEndInOrder
  <1>2. CASE i \in Wave
    <2>1. at \in DOMAIN steps /\ steps[i].wave = steps[at].wave  BY <1>2, PlanFacts
    <2>2. at <= j => steps[at].wave <= steps[j].wave
      BY <2>1, PlanFacts DEF PlanShape
    <2>3. ~(at <= j)
      BY <2>1, <2>2, PlanFacts
    <2>4. j < at  BY <2>1, <2>3, PlanFacts
    <2>5. QED  BY <2>4 DEF IInv, StepsEndInOrder
  <1>3. QED  BY <1>1, <1>2 DEF Issued

\* Neither the cut nor the halt is ever issued while a guest stop has yet to end.
THEOREM CutWaitsForGuests == Spec => []QuietBeforeTheCut
<1>1. IInv => QuietBeforeTheCut
  <2> SUFFICES ASSUME IInv, NEW i \in DOMAIN steps, NEW j \in DOMAIN steps,
                      Issued(i), Detached(i), steps[j].action = GuestStop
               PROVE  outcome[j] # ""
    BY DEF QuietBeforeTheCut
  <2>1. j < i /\ steps[j].wave < steps[i].wave
    BY PlanFacts DEF PlanShape, Detached
  <2>2. QED  BY <2>1, EarlierWavesEnded
<1>2. QED  BY <1>1, InductiveInvariant, PTL

\* A sequence that abandons has issued nothing it cannot undo, nor left its mark.
THEOREM AbandonsOnlyReversible == Spec => []AbandonedMeansNothingArmed
<1>1. IInv => AbandonedMeansNothingArmed
  <2> SUFFICES ASSUME IInv, pc \in {"reverse", "aborted"}
               PROVE  /\ \A i \in DOMAIN steps : Issued(i) => steps[i].reversible
                      /\ marks \intersect Irreversible = {}
    BY DEF AbandonedMeansNothingArmed
  <2>1. ASSUME NEW i \in DOMAIN steps, Issued(i)  PROVE steps[i].reversible
    <3>1. i < at  BY <2>1 DEF Issued
    <3>2. i \in 1..(at - 1)  BY <3>1, PlanFacts
    <3>3. QED  BY <3>2 DEF IInv, ArmedByAStep, Committed
  <2>2. ASSUME NEW a \in marks \intersect Irreversible  PROVE FALSE
    <3>1. PICK i \in DOMAIN steps : Issued(i) /\ steps[i].action = a
      BY <2>2 DEF IInv, ArmedByAStep
    <3>2. ~steps[i].reversible  BY <3>1, PlanFacts DEF PlanShape
    <3>3. QED  BY <2>1, <3>1, <3>2
  <2>3. QED  BY <2>1, <2>2
<1>2. QED  BY <1>1, InductiveInvariant, PTL

\* A step that was done has been undone when the run is over, or its undo is on
\* record as failed.
LEMMA DoneThenUndone ==
  ASSUME IInv, pc = "aborted", NEW i \in DOMAIN steps, Lasts(i), steps[i].action \in Undoable
  PROVE  FailureOnRecord(i)
  <1> SUFFICES ASSUME outcome[i] = "done", undo[i] # "done" PROVE undo[i] = "failed"
    BY DEF Lasts, FailureOnRecord
  <1>1. i < at  BY DEF IInv, StepsEndInOrder, Issued
  <1>2. steps[i].action \in job.kit  BY DEF IInv, DoneForReal
  <1>3. undo[i] # ""  BY <1>1, <1>2 DEF IInv, UndoneNewestFirst, Owed, Completed
  <1>4. QED  BY <1>3 DEF IInv, TypeOK

\* When a run has abandoned, a guest of its plan is down, and a mark stands that was
\* not there before, only where a step for it, or the undo of one, is on record as
\* failed. A step that failed after taking effect is such a one: nothing undoes it.
THEOREM AbandonedRunGivesBack == Spec => []AbortGivesBack
<1>1. IInv => AbortGivesBack
  <2> SUFFICES ASSUME IInv, pc = "aborted" PROVE AbortGivesBack  BY DEF AbortGivesBack
  <2>1. ASSUME NEW g \in Targets(job) \ up
        PROVE  \E i \in DOMAIN steps : steps[i].target = g /\ FailureOnRecord(i)
    <3>1. PICK i \in DOMAIN steps : steps[i].target = g /\ Lasts(i)
      BY DEF IInv, ChangesAreItsOwn
    <3>2. steps[i].action = GuestStop  BY <3>1, PlanFacts DEF PlanShape, Targets
    <3>3. QED  BY <3>1, <3>2, DoneThenUndone DEF Undoable
  <2>2. ASSUME NEW a \in (marks \intersect HostMarks) \ job.prior
        PROVE  \E i \in DOMAIN steps : steps[i].action = a /\ FailureOnRecord(i)
    <3>1. PICK i \in DOMAIN steps : steps[i].action = a /\ Lasts(i)
      BY DEF IInv, ChangesAreItsOwn
    <3>2. QED  BY <3>1, DoneThenUndone DEF Undoable
  <2>3. QED  BY <2>1, <2>2 DEF AbortGivesBack
<1>2. QED  BY <1>1, InductiveInvariant, PTL

\* Rebalancing comes back on only after the last guest has been asked to start.
THEOREM NooutClearedLast == Spec => []NooutOutlivesTheGuests
<1>1. IInv => NooutOutlivesTheGuests
  <2> SUFFICES ASSUME IInv, NEW i \in DOMAIN steps, steps[i].action = Noout, undo[i] = "done",
                      NEW j \in Owed, steps[j].action = GuestStop
               PROVE  FALSE
    BY DEF NooutOutlivesTheGuests
  <2>1. j \in DOMAIN steps  BY DEF Owed
  <2>2. j < i  BY DEF IInv, UndoneNewestFirst
  <2>3. i < j  BY <2>1, PlanFacts DEF PlanShape
  <2>4. QED  BY <2>1, <2>2, <2>3, PlanFacts
<1>2. QED  BY <1>1, InductiveInvariant, PTL

\* The host commits only through the barrier, and an unreadable estate never
\* shortens it.
THEOREM CommitsThroughTheBarrier == Spec => CommitsTogether
<1>1. ASSUME IInv, [Next]_vars
      PROVE  /\ ~served /\ served' => clock' >= job.holdUntil \/ clock' >= Deadline \/ up = {}
             /\ pc = "issue" /\ pc' = "wave" /\ job.holdUntil > 0
                  => served \/ \A i \in Wave : steps[i].reversible
  <2>1. ASSUME ~served, served'
        PROVE  clock' >= job.holdUntil \/ clock' >= Deadline \/ up = {}
    <3>1. HoldOver \/ HoldPolls
      BY <1>1, <2>1 DEF Next, Walk, Environment, vars, progress, world, HoldSeesMains,
         GateSeesMains, GatePasses, Issue, EndWave, Reversed, Perform, Undo, Tick,
         MainsChange, ElsewhereChange
    <3>2. CASE HoldOver
      <4>1. pc = "barrier" /\ clock' = clock /\ clock >= Ceiling
        BY <2>1, <3>2 DEF HoldOver, Release
      <4>2. QED  BY <4>1 DEF Ceiling
    <3>3. CASE HoldPolls
      <4>1. pc = "barrier"
        BY <2>1, <3>3 DEF HoldPolls, Release
      <4>2. EstateClear \/ clock' >= Ceiling \/ clock' >= Deadline
        BY <2>1, <3>3 DEF HoldPolls, Expired
      <4>3. QED  BY <4>1, <4>2 DEF Ceiling, EstateClear, WaitsFor
    <3>4. QED  BY <3>1, <3>2, <3>3
  <2>2. ASSUME pc = "issue", job.holdUntil > 0, ~served, NEW i \in Wave
        PROVE  steps[i].reversible
    <3>1. ~Committing(steps, at)  BY <1>1, <2>2 DEF IInv, BarrierFirst
    <3>2. i \in DOMAIN steps /\ at \in DOMAIN steps /\ steps[i].wave = steps[at].wave
      BY <1>1, <2>2, PlanFacts
    <3>3. steps[at].reversible
      BY <1>1, <3>1, <3>2, PlanFacts DEF Committing
    <3>4. ~steps[i].reversible => i = at
      BY <1>1, <3>2, PlanFacts DEF PlanShape
    <3>5. QED  BY <3>3, <3>4
  <2>3. QED  BY <2>1, <2>2
<1>2. QED  BY <1>1, InductiveInvariant, PTL DEF Spec, CommitsTogether

\* A UPS is honest when nothing it says without utility power, whatever it said
\* before, reads as power being back.
HonestUps == \A m \in ModelType : \A s \in SamplesOff : ~MainsBack(Observe(m, s))

\* With an honest UPS only real power abandons a run: no failure to read it, no
\* deadline, no failed step does.
THEOREM HonestUpsMainsAlone == ASSUME HonestUps PROVE Spec => OnlyMainsAbandon
<1>1. ASSUME TypeOK, [Next]_vars, pc # "reverse", pc' = "reverse"
      PROVE  mains
  <2>1. Gating /\ SeesMainsBack
    BY <1>1 DEF Next, Walk, Environment, vars, progress, world, HoldOver, HoldSeesMains,
       HoldPolls, Release, GateSeesMains, GatePasses, Issue, EndWave, Enter, Reversed,
       Perform, Undo, Tick, MainsChange, ElsewhereChange
  <2>2. PICK s \in Readings : MainsBack(Observe(model, s))
    BY <2>1 DEF SeesMainsBack
  <2>3. model \in ModelType  BY <1>1 DEF TypeOK
  <2>4. s \notin SamplesOff  BY <2>2, <2>3, HonestUps DEF HonestUps
  <2>5. QED  BY <2>4 DEF Readings
<1>2. QED  BY <1>1, TypeCorrect, PTL DEF Spec, OnlyMainsAbandon

\* A UPS that reports no input voltage and does not claim to be online is honest,
\* whatever its charge and runtime figures do.
THEOREM NoVoltageIsHonest ==
  ASSUME \A s \in SamplesOff : ~SaysOnline(s) /\ ~(s.inputV > 0)
  PROVE  HonestUps
  BY DEF HonestUps, MainsBack, Observe

-----------------------------------------------------------------------------
(***************************************************************************)
(* Refinement: the executor implements Commitment. Owed grows only when a  *)
(* wave ends and shrinks only by an undo; Phase follows pc and what has    *)
(* been issued.                                                            *)
(***************************************************************************)
Lost == {i \in DOMAIN steps : undo[i] = "failed"}

Armed == \E i \in DOMAIN steps : Issued(i) /\ ~steps[i].reversible

LEMMA PhaseFacts ==
  /\ pc = "reverse" => Phase = "returning"
  /\ pc = "aborted" => Phase = "returned"
  /\ pc = "completed" => Phase = "slept"
  /\ pc \in {"hold", "gate", "barrier", "issue", "wave"} =>
       Phase = IF Armed THEN "committed" ELSE "open"
  BY DEF Phase, Armed

\* A step that keeps these is invisible to Commitment.
LEMMA Stutters ==
  ASSUME Phase' = Phase, Owed' = Owed, Lost' = Lost
  PROVE  UNCHANGED Promise!vars
  BY DEF Promise!vars, Lost

LEMMA LoopRefines ==
  ASSUME IInv,
         \/ HoldOver \/ HoldSeesMains \/ HoldPolls \/ GateSeesMains \/ GatePasses
         \/ Issue \/ Reversed \/ Tick \/ MainsChange
  PROVE  [Promise!Next]_(Promise!vars)
  <1>1. job' = job /\ at' = at /\ outcome' = outcome /\ undo' = undo
    BY LoopMoves
  <1>2. steps' = steps /\ Wave' = Wave /\ Owed' = Owed /\ Lost' = Lost
    BY <1>1 DEF steps, Wave, Owed, Completed, Lost
  <1>3. \A i \in DOMAIN steps : Issued(i)' <=> i < at \/ (pc' = "wave" /\ i \in Wave)
    BY <1>1, <1>2 DEF Issued
  <1>4. \A i \in DOMAIN steps : Issued(i) <=> i < at \/ (pc = "wave" /\ i \in Wave)
    BY DEF Issued
  <1>5. CASE pc' = pc
    <2>1. Phase' = Phase
      BY <1>2, <1>3, <1>4, <1>5 DEF Phase
    <2>2. QED  BY <1>2, <2>1, Stutters
  <1>6. CASE pc \in {"hold", "barrier", "gate"} /\ pc' \in {"gate", "barrier", "issue"}
    <2>1. Armed' <=> Armed
      BY <1>2, <1>3, <1>4, <1>6 DEF Armed
    <2>2. Phase' = Phase
      BY <1>6, <2>1 DEF Phase, Armed
    <2>3. QED  BY <1>2, <2>2, Stutters
  <1>7. CASE pc \in {"hold", "barrier", "gate"} /\ pc' = "reverse" /\ ~Committed(steps, at)
    <2>1. ~Armed
      <3>1. \A i \in DOMAIN steps : Issued(i) => i \in 1..(at - 1)
        BY <1>4, <1>7, PlanFacts
      <3>2. QED  BY <1>7, <3>1 DEF Armed, Committed
    <2>2. Phase = "open"  BY <1>7, <2>1, PhaseFacts
    <2>3. Phase' = "returning"  BY <1>7 DEF Phase
    <2>4. Promise!Abandon  BY <1>2, <2>2, <2>3 DEF Promise!Abandon, Lost
    <2>5. QED  BY <2>4 DEF Promise!Next
  <1>8. CASE pc = "issue" /\ pc' = "wave"
    <2>1. Armed => Armed'
      BY <1>2, <1>3, <1>4, <1>8 DEF Armed
    <2>2. Phase = IF Armed THEN "committed" ELSE "open"  BY <1>8, PhaseFacts
    <2>3. Phase' = IF Armed' THEN "committed" ELSE "open"  BY <1>8 DEF Phase, Armed
    <2>4. CASE Phase' = Phase  BY <1>2, <2>4, Stutters
    <2>5. CASE Phase' # Phase
      <3>1. Phase = "open" /\ Phase' = "committed"  BY <2>1, <2>2, <2>3, <2>5
      <3>2. Promise!Commit  BY <1>2, <3>1 DEF Promise!Commit, Lost
      <3>3. QED  BY <3>2 DEF Promise!Next
    <2>6. QED  BY <2>4, <2>5
  <1>9. CASE pc = "reverse" /\ pc' = "aborted" /\ Owed = {}
    <2>1. Phase = "returning" /\ Phase' = "returned"  BY <1>9 DEF Phase
    <2>2. Promise!Return  BY <1>2, <1>9, <2>1 DEF Promise!Return, Lost
    <2>3. QED  BY <2>2 DEF Promise!Next
  <1>10. QED  BY <1>5, <1>6, <1>7, <1>8, <1>9, LoopMoves

LEMMA EndWaveRefines ==
  ASSUME IInv, EndWave
  PROVE  [Promise!Next]_(Promise!vars)
  <1>1. PICK next \in (at + 1)..(Len(steps) + 1) :
          Wave = at..(next - 1) /\ at' = next /\ pc' = Enter(steps, next)
    BY DEF EndWave
  <1>2. pc = "wave" /\ job' = job /\ outcome' = outcome /\ undo' = undo  BY DEF EndWave
  <1>3. steps' = steps /\ Lost' = Lost  BY <1>2 DEF steps, Lost
  <1>4. /\ DOMAIN steps = 1..Len(steps) /\ Len(steps) \in Nat /\ at \in 1..(Len(steps) + 1)
        /\ \A i \in DOMAIN steps : i \in Int
    BY PlanFacts
  <1>5. next \in Int /\ at < next  BY <1>1, <1>4
  <1>6. pc' \in {"hold", "gate", "completed"}  BY <1>1 DEF Enter
  <1>7. \A i \in DOMAIN steps : Issued(i) <=> i < next
    BY <1>1, <1>2, <1>4 DEF Issued
  <1>8. \A i \in DOMAIN steps : Issued(i)' <=> i < next
    BY <1>1, <1>6 DEF Issued
  <1>9. Armed' <=> Armed  BY <1>3, <1>7, <1>8 DEF Armed
  <1>10. Owed \subseteq Owed'
    <2>1. \A i \in DOMAIN steps : i < at => i < at'
      BY <1>1, <1>4, <1>5
    <2>2. QED  BY <1>2, <1>3, <2>1 DEF Owed, Completed
  <1>11. Owed' \subseteq 1..MaxSteps
    <2>1. Owed' \subseteq DOMAIN steps  BY <1>3 DEF Owed
    <2>2. Len(steps) <= MaxSteps /\ MaxSteps \in Nat
      BY StepFacts, JobsAssumption DEF IInv, TypeOK
    <2>3. QED  BY <1>4, <2>1, <2>2
  <1>12. Phase = IF Armed THEN "committed" ELSE "open"  BY <1>2, PhaseFacts
  <1>13. CASE pc' = "completed"
    <2>1. Phase' = "slept"  BY <1>13 DEF Phase
    <2>2. Promise!Sleep  BY <1>3, <1>10, <1>11, <1>12, <2>1 DEF Promise!Sleep, Lost
    <2>3. QED  BY <2>2 DEF Promise!Next
  <1>14. CASE pc' \in {"hold", "gate"}
    <2>1. Phase' = IF Armed' THEN "committed" ELSE "open"  BY <1>14 DEF Phase, Armed
    <2>2. Promise!Take
      BY <1>3, <1>9, <1>10, <1>11, <1>12, <2>1 DEF Promise!Take, Lost
    <2>3. QED  BY <2>2 DEF Promise!Next
  <1>15. QED  BY <1>6, <1>13, <1>14

LEMMA PerformRefines ==
  ASSUME IInv, NEW i \in DOMAIN steps, Perform(i)
  PROVE  [Promise!Next]_(Promise!vars)
  <1>1. pc = "wave" /\ i \in Wave /\ UNCHANGED <<job, pc, at, undo>>
    BY DEF Perform, Flying
  <1>2. steps' = steps /\ Wave' = Wave /\ Lost' = Lost  BY <1>1 DEF steps, Wave, Lost
  <1>3. \A k \in DOMAIN steps : k < at => outcome'[k] = outcome[k]
    <2>1. \A k \in DOMAIN steps : k # i => outcome'[k] = outcome[k]
      BY DEF Perform, Ends, IInv, TypeOK
    <2>2. ~(i < at)  BY <1>1, PlanFacts
    <2>3. QED  BY <2>1, <2>2
  <1>4. Owed' = Owed  BY <1>1, <1>2, <1>3 DEF Owed, Completed
  <1>5. Phase' = Phase  BY <1>1, <1>2 DEF Phase, Issued
  <1>6. QED  BY <1>2, <1>4, <1>5, Stutters

LEMMA UndoRefines ==
  ASSUME IInv, NEW i \in DOMAIN steps, Undo(i)
  PROVE  [Promise!Next]_(Promise!vars)
  <1>1. pc = "reverse" /\ i \in Owed /\ UNCHANGED <<job, pc, at, outcome>>
    BY DEF Undo, NextToUndo
  <1>2. steps' = steps  BY <1>1 DEF steps
  <1>3. /\ \A k \in DOMAIN steps : k # i => undo'[k] = undo[k]
        /\ undo'[i] \in {"done", "failed"} /\ undo[i] = ""
    BY <1>1 DEF Undo, Owed, IInv, TypeOK
  <1>4. Owed' = Owed \ {i}  BY <1>1, <1>2, <1>3 DEF Owed, Completed
  <1>5. Lost' \in {Lost, Lost \union {i}}
    <2>1. undo'[i] = "failed" => Lost' = Lost \union {i}  BY <1>2, <1>3 DEF Lost
    <2>2. undo'[i] = "done" => Lost' = Lost  BY <1>2, <1>3 DEF Lost
    <2>3. QED  BY <1>3, <2>1, <2>2
  <1>6. Phase = "returning" /\ Phase' = "returning"  BY <1>1 DEF Phase
  <1>7. i \in 1..MaxSteps
    <2>1. job \in Jobs  BY DEF IInv, TypeOK
    <2>2. QED  BY <2>1, StepFacts, JobsAssumption
  <1>8. Promise!GiveBack(i)
    BY <1>1, <1>4, <1>5, <1>6 DEF Promise!GiveBack, Lost
  <1>9. QED  BY <1>7, <1>8 DEF Promise!Next

\* Commitment's promise holds of every run of every plan of the planner's shape.
THEOREM ExecutorImplementsCommitment == Spec => KeepsThePromise
<1>1. Init => Promise!Init
  <2> SUFFICES ASSUME Init PROVE Promise!Init  OBVIOUS
  <2>1. IInv /\ pc \in {"hold", "gate", "completed"} /\ at = 1
    BY InitIInv DEF Init, Enter
  <2>2. \A i \in DOMAIN steps : ~(i < at) /\ ~Issued(i) /\ undo[i] = ""
    <3>1. \A i \in DOMAIN steps : ~(i < at)  BY <2>1, PlanFacts
    <3>2. \A i \in DOMAIN steps : undo[i] = ""  BY DEF Init
    <3>3. QED  BY <2>1, <3>1, <3>2 DEF Issued
  <2>3. Owed = {} /\ Lost = {}  BY <2>2 DEF Owed, Completed, Lost
  <2>4. Phase \in {"open", "slept"}  BY <2>1, <2>2 DEF Phase
  <2>5. QED  BY <2>3, <2>4 DEF Promise!Init, Lost
<1>2. IInv /\ [Next]_vars => [Promise!Next]_(Promise!vars)
  <2> SUFFICES ASSUME IInv, [Next]_vars PROVE [Promise!Next]_(Promise!vars)  OBVIOUS
  <2>1. ASSUME NEW g \in Far, ElsewhereChange(g)  PROVE [Promise!Next]_(Promise!vars)
    <3>1. UNCHANGED <<job, pc, at, outcome, undo>>  BY <2>1 DEF ElsewhereChange, progress
    <3>2. Phase' = Phase /\ Owed' = Owed /\ Lost' = Lost
      BY <3>1 DEF Phase, Owed, Completed, Lost, Issued, Wave, steps
    <3>3. QED  BY <3>2, Stutters
  <2>2. CASE UNCHANGED vars
    <3>1. UNCHANGED <<job, pc, at, outcome, undo>>  BY <2>2 DEF vars
    <3>2. Phase' = Phase /\ Owed' = Owed /\ Lost' = Lost
      BY <3>1 DEF Phase, Owed, Completed, Lost, Issued, Wave, steps
    <3>3. QED  BY <3>2, Stutters
  <2>3. CASE Next
    BY <2>1, <2>3, LoopRefines, EndWaveRefines, PerformRefines, UndoRefines
       DEF Next, Walk, Environment
  <2>4. QED  BY <2>2, <2>3
<1>3. QED
  BY <1>1, <1>2, InductiveInvariant, PTL DEF Spec, KeepsThePromise, Promise!Spec
=============================================================================
