------------------------------ MODULE JournalProofs ------------------------------
(***************************************************************************)
(* Proofs about Journal, for any runs of any waves, any number of them,    *)
(* any window and any time.                                                *)
(***************************************************************************)
EXTENDS Journal, SequenceLemmas

(***************************************************************************)
(* How many steps there are up to and with each wave.                      *)
(***************************************************************************)
Sum(waves) ==
  LET upTo[k \in 0..Len(waves)] == IF k = 0 THEN 0 ELSE upTo[k - 1] + waves[k]
  IN  upTo

\* A run that says what is true of it: a step announced is one of the list, and no wave
\* is under way whose steps are all over.
InOrder(run, now) ==
  /\ run.announced = Len(run.acted)
  /\ run.began <= now
  /\ run.alive /\ run.wave < Len(run.job.waves) =>
       /\ run.announced <= Sum(run.job.waves)[run.wave + 1]
       /\ run.ended < Sum(run.job.waves)[run.wave + 1]

RunsInOrder == \A r \in DOMAIN runs : InOrder(runs[r], clock)

\* The disk has the start of the step.
Written(r, k) ==
  \E line \in ToSet(disk) : line.run = r /\ line.ev = "step.start" /\ line.step = k

\* A step is on the disk from when it is announced, performed or not.
AnnouncedOnDisk ==
  \A r \in DOMAIN runs : r \notin unsynced /\ ~Hand(r) =>
    \A k \in DOMAIN runs[r].acted : Written(r, k)

IInv == TypeOK /\ RunsInOrder /\ AnnouncedOnDisk

\* Sum counts the steps of the waves.
LEMMA SumCounts ==
  ASSUME NEW waves \in Seq(Nat \ {0})
  PROVE  /\ \A k \in 0..Len(waves) : Sum(waves)[k] \in Nat
         /\ \A k \in 1..Len(waves) : Sum(waves)[k] > Sum(waves)[k - 1]
<1> DEFINE n == Len(waves)
           f == Sum(waves)
<1>0. n \in Nat /\ \A k \in 1..n : waves[k] \in Nat \ {0}
  BY LenProperties, ElementOfSeq
<1>1. IsSum(f, waves, n)
  <2>1. f = CHOOSE g : g = [k \in 0..Len(waves) |-> IF k = 0 THEN 0 ELSE g[k - 1] + waves[k]]
    BY DEF Sum
  <2>2. \E g : g = [k \in 0..Len(waves) |-> IF k = 0 THEN 0 ELSE g[k - 1] + waves[k]]
    BY <1>0, SumExists DEF IsSum
  <2> HIDE DEF f
  <2> QED
    BY <2>1, <2>2 DEF IsSum
<1> HIDE DEF n, f
<1>2. \A k \in 0..n : f[k] = IF k = 0 THEN 0 ELSE f[k - 1] + waves[k]
  BY <1>0, <1>1, SumAt
<1>3. f[0] \in Nat /\ (0 < n => f[1] \in Nat)
  BY <1>0, <1>2
<1> DEFINE S == {k \in 1..n : f[k] \in Nat}
<1>4. n # 0 => 1..n \subseteq S
  <2> SUFFICES ASSUME n # 0 PROVE 1..n \subseteq S
    OBVIOUS
  <2>1. 1 \in S
    BY <1>0, <1>3
  <2>2. ASSUME NEW i \in 1..n, i \in S, i < n
        PROVE  i + 1 \in S
    <3>1. i + 1 \in 1..n /\ i + 1 \in 0..n /\ i + 1 # 0 /\ (i + 1) - 1 = i
      BY <1>0, <2>2
    <3>2. f[i + 1] = f[i] + waves[i + 1]
      BY <1>2, <3>1
    <3> QED
      BY <1>0, <2>2, <3>1, <3>2
  <2> HIDE DEF S
  <2> QED
    BY <1>0, <2>1, <2>2, UpTo
<1>5. \A k \in 0..n : f[k] \in Nat
  <2>1. \A k \in 0..n : k = 0 \/ (n # 0 /\ k \in 1..n)
    BY <1>0
  <2> QED
    BY <1>3, <1>4, <2>1
<1>6. \A k \in 1..n : f[k] > f[k - 1]
  <2> SUFFICES ASSUME NEW k \in 1..n PROVE f[k] > f[k - 1]
    OBVIOUS
  <2>1. k \in 0..n /\ k # 0 /\ k - 1 \in 0..n
    BY <1>0
  <2>2. f[k] = f[k - 1] + waves[k]
    BY <1>2, <2>1
  <2>3. f[k - 1] \in Nat /\ waves[k] \in Nat \ {0}
    BY <1>0, <1>5, <2>1
  <2> QED
    BY <2>2, <2>3
<1> QED
  BY <1>5, <1>6 DEF n, f

-----------------------------------------------------------------------------
(***************************************************************************)
(* Types, and what a line written does.                                    *)
(***************************************************************************)
\* What a run is made of.
LEMMA RunTypes ==
  ASSUME TypeOK, NEW r \in DOMAIN runs
  PROVE  /\ runs \in Seq(RunType) /\ Len(runs) \in Nat /\ DOMAIN runs = 1..Len(runs)
         /\ r \in Nat /\ runs[r] \in RunType /\ runs[r].job \in JobType
         /\ Waves(r) \in Seq(Nat \ {0}) /\ Len(Waves(r)) \in Nat
         /\ runs[r].acted \in Seq(Outcomes \union {""})
         /\ Len(runs[r].acted) \in Nat /\ DOMAIN runs[r].acted = 1..Len(runs[r].acted)
         /\ runs[r].wave \in Nat /\ runs[r].announced \in Nat /\ runs[r].ended \in Nat
         /\ runs[r].began \in Nat /\ clock \in Nat
<1>1. runs \in Seq(RunType) /\ clock \in Nat
  BY NumbersAssumption DEF TypeOK
<1> HIDE DEF RunType
<1>2. Len(runs) \in Nat /\ DOMAIN runs = 1..Len(runs)
  BY <1>1, LenProperties
<1>3. runs[r] \in RunType /\ r \in Nat
  BY <1>1, <1>2, ElementOfSeq
<1>4. /\ runs[r].job \in Jobs /\ runs[r].acted \in Seq(Outcomes \union {""})
      /\ runs[r].wave \in Nat /\ runs[r].announced \in Nat /\ runs[r].ended \in Nat
      /\ runs[r].began \in Nat
  BY <1>3 DEF RunType
<1>5. runs[r].job \in JobType
  BY <1>4, JobsAssumption
<1>6. Waves(r) \in Seq(Nat \ {0})
  BY <1>5 DEF JobType, Waves
<1>7. Len(Waves(r)) \in Nat
  BY <1>6, LenProperties
<1>8. Len(runs[r].acted) \in Nat /\ DOMAIN runs[r].acted = 1..Len(runs[r].acted)
  BY <1>4, LenProperties
<1> QED
  BY <1>1, <1>2, <1>3, <1>4, <1>5, <1>6, <1>7, <1>8

\* How far a wave goes, for one under way.
LEMMA FarType ==
  ASSUME TypeOK, NEW r \in DOMAIN runs, InWave(r)
  PROVE  /\ ThisFar(r) = Sum(Waves(r))[runs[r].wave + 1] /\ ThisFar(r) \in Nat
         /\ runs[r].wave + 1 < Len(Waves(r)) => ThisFar(r) < Sum(Waves(r))[(runs[r].wave + 1) + 1]
<1> DEFINE n == Len(Waves(r))
           w == runs[r].wave
<1>1. n \in Nat /\ w \in Nat /\ Waves(r) \in Seq(Nat \ {0}) /\ w < n
  BY RunTypes DEF InWave
<1>2. ThisFar(r) = Sum(Waves(r))[runs[r].wave + 1]
  BY DEF ThisFar, Sum
<1>3. /\ \A k \in 0..n : Sum(Waves(r))[k] \in Nat
      /\ \A k \in 1..n : Sum(Waves(r))[k] > Sum(Waves(r))[k - 1]
  BY <1>1, SumCounts
<1>4. ThisFar(r) = Sum(Waves(r))[w + 1]
  BY <1>2
<1> HIDE DEF n, w
<1>5. w + 1 \in 0..n
  BY <1>1
<1>6. w + 1 < n => (w + 1) + 1 \in 1..n /\ (w + 1) + 1 \in 0..n /\ ((w + 1) + 1) - 1 = w + 1
  BY <1>1
<1>7. Sum(Waves(r))[w + 1] \in Nat
  BY <1>3, <1>5
<1>8. w + 1 < n => Sum(Waves(r))[w + 1] < Sum(Waves(r))[(w + 1) + 1]
  <2> SUFFICES ASSUME w + 1 < n PROVE Sum(Waves(r))[w + 1] < Sum(Waves(r))[(w + 1) + 1]
    OBVIOUS
  <2>1. Sum(Waves(r))[(w + 1) + 1] > Sum(Waves(r))[w + 1] /\ Sum(Waves(r))[(w + 1) + 1] \in Nat
    BY <1>3, <1>6
  <2> QED
    BY <1>7, <2>1
<1> QED
  BY <1>2, <1>4, <1>7, <1>8 DEF n, w

\* A line is one of the journal's.
LEMMA LineTyped ==
  ASSUME NEW r \in Nat, NEW ev \in {"run.start", "step.start", "note", "step.end", "run.end"},
         NEW step \in Nat, NEW time \in Nat,
         NEW is \in {"", "conserve", "sleep", "complete", "aborted"} \union Undoers \union Outcomes
  PROVE  /\ Line(r, ev, step, is, time) \in LineType /\ Line(r, ev, step, is, time).run = r
         /\ Line(r, ev, step, is, time).ev = ev /\ Line(r, ev, step, is, time).step = step
BY DEF Line, LineType

LinesOK == wire \in Seq(LineType) /\ memory \in Seq(LineType) /\ disk \in Seq(LineType)

\* What is put after the lines on the disk leaves them there.
LEMMA DiskGrows ==
  ASSUME LinesOK, NEW more \in Seq(LineType), disk' = disk \o more
  PROVE  disk' \in Seq(LineType) /\ ToSet(disk') = ToSet(disk) \union ToSet(more)
  BY ConcatElements, ConcatProperties DEF LinesOK

\* A line written goes to the disk, unless the run is started by hand or its sync fails.
LEMMA WriteKeeps ==
  ASSUME LinesOK, NEW r, NEW job, NEW line \in LineType, Write(r, job, line)
  PROVE  /\ LinesOK' /\ ToSet(disk) \subseteq ToSet(disk')
         /\ unsynced' \in {unsynced, unsynced \union {r}}
         /\ ~job.hand /\ r \notin unsynced' => line \in ToSet(disk')
<1> DEFINE held == IF job.hand THEN memory ELSE Append(memory, line)
           T == LineType
<1>1. wire \in Seq(T) /\ memory \in Seq(T) /\ disk \in Seq(T) /\ line \in T
  BY DEF LinesOK
<1> HIDE DEF T
<1>2. Append(memory, line) \in Seq(T) /\ Append(wire, line) \in Seq(T) /\ <<>> \in Seq(T)
  BY <1>1, AppendProperties, EmptySeq
<1>3. held \in Seq(T)
  BY <1>1, <1>2
<1>4. line \in ToSet(Append(memory, line))
  <2>1. /\ Append(memory, line)[Len(memory) + 1] = line
        /\ Len(Append(memory, line)) = Len(memory) + 1 /\ Len(memory) \in Nat
    BY <1>1, AppendProperties, LenProperties
  <2>2. DOMAIN Append(memory, line) = 1..Len(Append(memory, line))
    BY <1>2, LenProperties
  <2>3. Len(memory) + 1 \in DOMAIN Append(memory, line)
    BY <2>1, <2>2
  <2> QED
    BY <2>1, <2>3 DEF ToSet
<1>5. ~job.hand => line \in ToSet(held)
  BY <1>4
<1>6. /\ wire' = IF job.hand THEN Append(wire, line) ELSE wire
      /\ \/ disk' = disk \o held /\ memory' = <<>> /\ unsynced' = unsynced
         \/ job.busy /\ memory' = held /\ unsynced' = unsynced \union {r} /\ disk' = disk
  BY DEF Write
<1> HIDE DEF held
<1>7. wire' \in Seq(T)
  BY <1>1, <1>2, <1>6
<1>8. CASE disk' = disk \o held /\ memory' = <<>> /\ unsynced' = unsynced
  <2>1. disk' \in Seq(T) /\ ToSet(disk') = ToSet(disk) \union ToSet(held)
    BY <1>3, <1>8, DiskGrows DEF T
  <2> QED
    BY <1>2, <1>5, <1>7, <1>8, <2>1 DEF LinesOK, T
<1>9. CASE memory' = held /\ unsynced' = unsynced \union {r} /\ disk' = disk
  BY <1>1, <1>3, <1>7, <1>9 DEF LinesOK, T
<1> QED
  BY <1>6, <1>8, <1>9

\* A run changed is one of as many.
LEMMA RunChanges ==
  ASSUME TypeOK, NEW r \in DOMAIN runs, NEW new \in RunType, runs' = [runs EXCEPT ![r] = new]
  PROVE  /\ runs' \in Seq(RunType) /\ Len(runs') = Len(runs) /\ DOMAIN runs' = DOMAIN runs
         /\ runs'[r] = new /\ \A s \in DOMAIN runs : s # r => runs'[s] = runs[s]
<1> DEFINE T == RunType
<1>1. runs \in Seq(T) /\ r \in 1..Len(runs) /\ DOMAIN runs = 1..Len(runs) /\ new \in T
  BY RunTypes
<1> HIDE DEF T
<1>2. /\ runs' \in Seq(T) /\ Len(runs') = Len(runs)
      /\ \A j \in 1..Len(runs) : runs'[j] = IF j = r THEN new ELSE runs[j]
  BY <1>1, ExceptSeq
<1>3. DOMAIN runs' = 1..Len(runs)
  BY <1>2, LenProperties
<1> QED
  BY <1>1, <1>2, <1>3 DEF T

\* What a step of one run has to show.
LEMMA OneRun ==
  ASSUME IInv, NEW r \in DOMAIN runs, NEW new \in RunType, runs' = [runs EXCEPT ![r] = new],
         clock' = clock, LinesOK', ToSet(disk) \subseteq ToSet(disk'),
         unsynced' \in {unsynced, unsynced \union {r}},
         InOrder(new, clock), new.job = runs[r].job,
         ~Hand(r) /\ r \notin unsynced' =>
           \A k \in DOMAIN new.acted : k \in DOMAIN runs[r].acted \/ Written(r, k)'
  PROVE  IInv'
<1>1. /\ runs' \in Seq(RunType) /\ Len(runs') = Len(runs) /\ DOMAIN runs' = DOMAIN runs
      /\ runs'[r] = new /\ \A s \in DOMAIN runs : s # r => runs'[s] = runs[s]
  BY RunChanges DEF IInv
<1>2. TypeOK'
  BY <1>1 DEF IInv, TypeOK, LinesOK
<1>3. RunsInOrder'
  <2> SUFFICES ASSUME NEW s \in DOMAIN runs PROVE InOrder(runs'[s], clock)
    BY <1>1 DEF RunsInOrder
  <2>1. InOrder(runs[s], clock)
    BY DEF IInv, RunsInOrder
  <2> QED
    BY <1>1, <2>1
<1>4. \A s, k : Written(s, k) => Written(s, k)'
  BY DEF Written
<1>5. AnnouncedOnDisk'
  <2> SUFFICES ASSUME NEW s \in DOMAIN runs, s \notin unsynced', ~Hand(s)',
                      NEW k \in DOMAIN runs'[s].acted
               PROVE  Written(s, k)'
    BY <1>1 DEF AnnouncedOnDisk
  <2>1. s \notin unsynced
    OBVIOUS
  <2>2. ~Hand(s)
    BY <1>1 DEF Hand
  <2>3. k \in DOMAIN runs[s].acted \/ Written(s, k)'
    BY <1>1, <2>2
  <2>4. k \in DOMAIN runs[s].acted => Written(s, k)
    BY <2>1, <2>2 DEF IInv, AnnouncedOnDisk
  <2> QED
    BY <1>4, <2>3, <2>4
<1> QED
  BY <1>2, <1>3, <1>5 DEF IInv

-----------------------------------------------------------------------------
(***************************************************************************)
(* One lemma for each kind of step.                                        *)
(***************************************************************************)
\* Announcing a step.
LEMMA StartKeeps ==
  ASSUME IInv, NEW r \in DOMAIN runs, StepStart(r)
  PROVE  IInv'
<1> DEFINE old == runs[r]
           a == Append(old.acted, "")
           n == old.announced + 1
           new == [old EXCEPT !.announced = n, !.acted = a]
           line == Line(r, "step.start", n, "", clock)
           S == Outcomes \union {""}
<1>1. /\ old \in RunType /\ old.acted \in Seq(S) /\ "" \in S /\ old.announced \in Nat
      /\ clock \in Nat /\ r \in Nat /\ InOrder(old, clock) /\ old.announced = Len(old.acted)
      /\ Len(old.acted) \in Nat /\ DOMAIN old.acted = 1..Len(old.acted)
  BY RunTypes DEF IInv, RunsInOrder, InOrder
<1>2. /\ InWave(r) /\ old.announced < ThisFar(r) /\ clock' = clock /\ Write(r, old.job, line)
  BY DEF StepStart
<1>3. runs' = [runs EXCEPT ![r] = new]
  BY DEF StepStart
<1>4. line \in LineType /\ line.run = r /\ line.ev = "step.start" /\ line.step = n
  <2>1. old.announced \in Nat /\ r \in Nat /\ clock \in Nat
    BY <1>1
  <2> HIDE DEF old
  <2>2. n \in Nat
    BY <2>1
  <2> HIDE DEF n
  <2>3. line \in LineType
    BY <2>1, <2>2, LineTyped
  <2>4. line.run = r /\ line.ev = "step.start" /\ line.step = n
    BY DEF Line
  <2> QED
    BY <2>3, <2>4
<1> HIDE DEF S, line
<1>5. a \in Seq(S) /\ Len(a) = Len(old.acted) + 1
  <2>1. old.acted \in Seq(S) /\ "" \in S
    BY <1>1
  <2> DEFINE w == old.acted
  <2>2. w \in Seq(S) /\ "" \in S
    BY <2>1
  <2> HIDE DEF w
  <2>3. Append(w, "") \in Seq(S) /\ Len(Append(w, "")) = Len(w) + 1
    BY <2>2, AppendProperties
  <2> QED
    BY <2>3 DEF w
<1>6. DOMAIN a = 1..Len(a)
  <2> HIDE DEF old, a
  <2> QED
    BY <1>5, LenProperties
<1>7. n \in Nat /\ Len(a) = n /\ \A k \in 1..n : k \in 1..Len(old.acted) \/ k = n
  <2> DEFINE m == Len(old.acted)
  <2>1. m \in Nat /\ n = m + 1 /\ Len(a) = m + 1
    BY <1>1, <1>5
  <2> HIDE DEF m, n, a
  <2>2. n \in Nat /\ Len(a) = n /\ \A k \in 1..n : k \in 1..m \/ k = n
    BY <2>1
  <2> QED
    BY <2>2 DEF m
<1>f. ThisFar(r) \in Nat => n <= ThisFar(r)
  <2> DEFINE far == ThisFar(r)
             b == old.announced
  <2>1. b \in Nat /\ b < far /\ n = b + 1
    BY <1>1, <1>2
  <2> HIDE DEF far, b, n
  <2>2. far \in Nat => n <= far
    BY <2>1
  <2> QED
    BY <2>2 DEF far
<1> HIDE DEF a, n
<1>8. /\ new \in RunType /\ new.job = old.job /\ new.announced = n /\ new.acted = a
      /\ new.alive = old.alive /\ new.wave = old.wave /\ new.ended = old.ended
      /\ new.began = old.began
  BY <1>1, <1>5, <1>7 DEF RunType, S
<1>9. InOrder(new, clock)
  <2>1. ThisFar(r) = Sum(old.job.waves)[old.wave + 1] /\ ThisFar(r) \in Nat
    BY <1>2, FarType DEF Waves, IInv
  <2>2. old.alive /\ old.wave < Len(old.job.waves)
    BY <1>2 DEF InWave, Alive, Waves
  <2>3. n <= ThisFar(r)
    BY <1>f, <2>1
  <2>4. old.ended < Sum(old.job.waves)[old.wave + 1] /\ old.began <= clock
    BY <1>1, <2>2 DEF InOrder
  <2> HIDE DEF new, old
  <2> QED
    BY <1>7, <1>8, <2>1, <2>3, <2>4 DEF InOrder
<1>10. /\ LinesOK' /\ ToSet(disk) \subseteq ToSet(disk')
       /\ unsynced' \in {unsynced, unsynced \union {r}}
       /\ ~old.job.hand /\ r \notin unsynced' => line \in ToSet(disk')
  <2>1. LinesOK
    BY DEF IInv, TypeOK, LinesOK
  <2> HIDE DEF old
  <2> QED
    BY <1>2, <1>4, <2>1, WriteKeeps
<1>11. ~Hand(r) /\ r \notin unsynced' =>
         \A k \in DOMAIN new.acted : k \in DOMAIN old.acted \/ Written(r, k)'
  <2> SUFFICES ASSUME ~Hand(r), r \notin unsynced', NEW k \in DOMAIN new.acted, k \notin DOMAIN old.acted
               PROVE  Written(r, k)'
    OBVIOUS
  <2>1. k = n
    BY <1>1, <1>6, <1>7, <1>8
  <2>2. line \in ToSet(disk')
    BY <1>10 DEF Hand
  <2> QED
    BY <1>4, <2>1, <2>2 DEF Written
<1> HIDE DEF new
<1> QED
  BY <1>2, <1>3, <1>8, <1>9, <1>10, <1>11, OneRun

\* Performing one.
LEMMA PerformKeeps ==
  ASSUME IInv, NEW r \in DOMAIN runs, NEW p, Perform(r, p)
  PROVE  IInv'
<1> DEFINE old == runs[r]
           S == Outcomes \union {""}
<1>1. /\ old \in RunType /\ old.acted \in Seq(S) /\ clock \in Nat /\ r \in Nat
      /\ InOrder(old, clock) /\ DOMAIN old.acted = 1..Len(old.acted) /\ p \in DOMAIN old.acted
  BY RunTypes DEF IInv, RunsInOrder, Perform, Performs
<1>2. PICK outcome \in Outcomes :
        /\ runs' = [runs EXCEPT ![r].acted[p] = outcome]
        /\ IF runs[r].job.note /\ p = 1 /\ outcome = "done"
           THEN Write(r, runs[r].job, Line(r, "note", p, "", clock))
           ELSE UNCHANGED lines
  BY DEF Perform
<1> DEFINE a == [old.acted EXCEPT ![p] = outcome]
           new == [old EXCEPT !.acted = a]
           line == Line(r, "note", p, "", clock)
<1>3. runs' = [runs EXCEPT ![r] = new] /\ clock' = clock
  BY <1>2 DEF Perform
<1>4. line \in LineType
  <2>1. p \in Nat
    <3> DEFINE m == Len(old.acted)
    <3>1. p \in 1..m /\ m \in Nat
      BY <1>1, RunTypes DEF IInv
    <3> HIDE DEF m
    <3> QED
      BY <3>1
  <2> QED
    BY <1>1, <2>1, LineTyped
<1>5. outcome \in S
  OBVIOUS
<1> HIDE DEF S, line
<1>6. a \in Seq(S) /\ Len(a) = Len(old.acted)
  BY <1>1, <1>5, ExceptSeq
<1>7. DOMAIN a = DOMAIN old.acted
  BY <1>1, <1>6, LenProperties
<1> HIDE DEF a
<1>8. /\ new \in RunType /\ new.job = old.job /\ new.announced = old.announced /\ new.acted = a
      /\ new.alive = old.alive /\ new.wave = old.wave /\ new.ended = old.ended
      /\ new.began = old.began
  BY <1>1, <1>6 DEF RunType, S
<1>9. InOrder(new, clock)
  <2> HIDE DEF new, old
  <2> QED
    BY <1>1, <1>6, <1>8 DEF InOrder
<1>10. /\ LinesOK' /\ ToSet(disk) \subseteq ToSet(disk')
       /\ unsynced' \in {unsynced, unsynced \union {r}}
  <2>1. LinesOK
    BY DEF IInv, TypeOK, LinesOK
  <2>2. CASE UNCHANGED lines
    BY <2>1, <2>2 DEF lines, LinesOK
  <2>3. CASE Write(r, runs[r].job, line)
    BY <1>4, <2>1, <2>3, WriteKeeps
  <2> QED
    BY <1>2, <2>2, <2>3 DEF line
<1>11. ~Hand(r) /\ r \notin unsynced' =>
         \A k \in DOMAIN new.acted : k \in DOMAIN old.acted \/ Written(r, k)'
  BY <1>7, <1>8
<1> HIDE DEF new
<1> QED
  BY <1>3, <1>8, <1>9, <1>10, <1>11, OneRun

\* Ending a step, and with the last of a wave the wave.
LEMMA EndKeeps ==
  ASSUME IInv, NEW r \in DOMAIN runs, StepEnd(r)
  PROVE  IInv'
<1> DEFINE old == runs[r]
           n == old.ended + 1
           w == IF n = ThisFar(r) THEN old.wave + 1 ELSE old.wave
           new == [old EXCEPT !.ended = n, !.wave = w]
           line == Line(r, "step.end", n, old.acted[n], clock)
           S == Outcomes \union {""}
<1>1. /\ old \in RunType /\ old.acted \in Seq(S) /\ old.ended \in Nat /\ old.wave \in Nat
      /\ clock \in Nat /\ r \in Nat /\ InOrder(old, clock) /\ old.announced = Len(old.acted)
      /\ Len(old.acted) \in Nat /\ old.began <= clock /\ Len(old.job.waves) \in Nat
  BY RunTypes DEF IInv, RunsInOrder, InOrder, Waves
<1>2. /\ InWave(r) /\ old.announced = ThisFar(r) /\ clock' = clock /\ Write(r, old.job, line)
  BY DEF StepEnd
<1>3. runs' = [runs EXCEPT ![r] = new]
  BY DEF StepEnd
<1>4. old.alive /\ old.wave < Len(old.job.waves)
  BY <1>2 DEF InWave, Alive, Waves
<1>5. /\ ThisFar(r) = Sum(old.job.waves)[old.wave + 1] /\ ThisFar(r) \in Nat
      /\ old.wave + 1 < Len(old.job.waves) => ThisFar(r) < Sum(old.job.waves)[(old.wave + 1) + 1]
  BY <1>2, FarType DEF Waves, IInv
<1>6. old.ended < ThisFar(r)
  BY <1>1, <1>4, <1>5 DEF InOrder
<1>7. n \in 1..Len(old.acted) /\ n \in Nat /\ n <= ThisFar(r)
  <2> DEFINE m == Len(old.acted)
             e == old.ended
             far == ThisFar(r)
  <2>1. m \in Nat /\ e \in Nat /\ far \in Nat /\ e < far /\ m = far /\ n = e + 1
    BY <1>1, <1>2, <1>5, <1>6
  <2> HIDE DEF m, e, far, n
  <2>2. n \in 1..m /\ n \in Nat /\ n <= far
    BY <2>1
  <2> QED
    BY <2>2 DEF m, far
<1>8. line \in LineType
  <2> HIDE DEF S, n
  <2>1. old.acted[n] \in S
    BY <1>1, <1>7, ElementOfSeq
  <2> HIDE DEF old
  <2>3. old.acted[n] \in Outcomes \union {""}
    BY <2>1 DEF S
  <2> QED
    BY <1>1, <1>7, <2>3, LineTyped
<1>9. w \in Nat
  <2>1. old.wave \in Nat
    BY <1>1
  <2> HIDE DEF old, n
  <2>2. old.wave + 1 \in Nat
    BY <2>1
  <2> QED
    BY <2>1, <2>2
<1> HIDE DEF n, w, line, S
<1>10. /\ new \in RunType /\ new.job = old.job /\ new.announced = old.announced
       /\ new.acted = old.acted /\ new.alive = old.alive /\ new.wave = w /\ new.ended = n
       /\ new.began = old.began
  BY <1>1, <1>7, <1>9 DEF RunType
<1>11. InOrder(new, clock)
  <2>1. CASE n = ThisFar(r)
    <3>1. w = old.wave + 1
      BY <2>1 DEF w
    <3>2. w < Len(old.job.waves) => /\ old.announced <= Sum(old.job.waves)[w + 1]
                                    /\ n < Sum(old.job.waves)[w + 1]
      <4> SUFFICES ASSUME w < Len(old.job.waves)
                   PROVE  /\ old.announced <= Sum(old.job.waves)[w + 1]
                          /\ n < Sum(old.job.waves)[w + 1]
        OBVIOUS
      <4> DEFINE x == Sum(old.job.waves)[w + 1]
      <4>1. ThisFar(r) < x
        BY <1>5, <3>1
      <4>2. x \in Nat
        <5>1. old.job.waves \in Seq(Nat \ {0})
          BY RunTypes DEF IInv, Waves
        <5>2. w + 1 \in 0..Len(old.job.waves)
          BY <1>1, <1>9
        <5> HIDE DEF old
        <5> QED
          BY <5>1, <5>2, SumCounts
      <4> HIDE DEF x, old
      <4>3. old.announced <= x /\ n < x
        BY <1>2, <1>5, <2>1, <4>1, <4>2
      <4> QED
        BY <4>3 DEF x
    <3> HIDE DEF new, old
    <3> QED
      BY <1>1, <1>10, <3>2 DEF InOrder
  <2>2. CASE n # ThisFar(r)
    <3>1. w = old.wave
      BY <2>2 DEF w
    <3>2. n < Sum(old.job.waves)[old.wave + 1]
      BY <1>5, <1>7, <2>2
    <3>3. old.announced <= Sum(old.job.waves)[old.wave + 1]
      BY <1>1, <1>4 DEF InOrder
    <3> HIDE DEF new, old
    <3> QED
      BY <1>1, <1>10, <3>1, <3>2, <3>3 DEF InOrder
  <2> QED
    BY <2>1, <2>2
<1>12. /\ LinesOK' /\ ToSet(disk) \subseteq ToSet(disk')
       /\ unsynced' \in {unsynced, unsynced \union {r}}
  <2>1. LinesOK
    BY DEF IInv, TypeOK, LinesOK
  <2> HIDE DEF old
  <2> QED
    BY <1>2, <1>8, <2>1, WriteKeeps
<1>13. ~Hand(r) /\ r \notin unsynced' =>
         \A k \in DOMAIN new.acted : k \in DOMAIN old.acted \/ Written(r, k)'
  BY <1>10
<1> HIDE DEF new
<1> QED
  BY <1>2, <1>3, <1>10, <1>11, <1>12, <1>13, OneRun

\* A run's end, which for one started by hand takes all its lines to the disk.
LEMMA CloseKeeps ==
  ASSUME IInv, NEW r \in DOMAIN runs, Close(r)
  PROVE  IInv'
<1> DEFINE old == runs[r]
           took == Took(r)
<1>1. /\ old \in RunType /\ r \in Nat /\ InOrder(old, clock) /\ old.began \in Nat
      /\ clock \in Nat /\ old.began <= clock
  BY RunTypes DEF IInv, RunsInOrder, InOrder
<1>2. took \in Nat
  <2> DEFINE b == old.began
  <2>1. b \in Nat /\ clock \in Nat /\ b <= clock /\ took = clock - b
    BY <1>1 DEF Took
  <2> HIDE DEF b, took
  <2> QED
    BY <2>1
<1> HIDE DEF took
<1>3. PICK ending \in {"complete", "aborted"} :
        /\ runs' = [runs EXCEPT ![r].alive = FALSE, ![r].ending = ending, ![r].took = took]
        /\ IF Hand(r)
           THEN /\ wire' = <<>>
                /\ memory' = <<>>
                /\ disk' = disk \o memory \o wire \o <<Line(r, "run.end", 0, ending, took)>>
                /\ UNCHANGED unsynced
           ELSE Write(r, runs[r].job, Line(r, "run.end", 0, ending, took))
  BY DEF Close, took
<1> DEFINE new == [old EXCEPT !.alive = FALSE, !.ending = ending, !.took = took]
           line == Line(r, "run.end", 0, ending, took)
<1>4. runs' = [runs EXCEPT ![r] = new] /\ clock' = clock
  BY <1>3 DEF Close
<1>5. line \in LineType
  BY <1>1, <1>2, LineTyped
<1> HIDE DEF line
<1>6. /\ new \in RunType /\ new.job = old.job /\ new.announced = old.announced
      /\ new.acted = old.acted /\ new.alive = FALSE /\ new.began = old.began
  BY <1>1, <1>2 DEF RunType
<1>7. InOrder(new, clock)
  <2> HIDE DEF new, old
  <2> QED
    BY <1>1, <1>6 DEF InOrder
<1>8. LinesOK
  BY DEF IInv, TypeOK, LinesOK
<1>9. CASE ~Hand(r)
  <2>1. Write(r, runs[r].job, line)
    BY <1>3, <1>9 DEF line
  <2>2. /\ LinesOK' /\ ToSet(disk) \subseteq ToSet(disk')
        /\ unsynced' \in {unsynced, unsynced \union {r}}
    BY <1>5, <1>8, <2>1, WriteKeeps
  <2> HIDE DEF new
  <2> QED
    BY <1>4, <1>6, <1>7, <2>2, OneRun
<1>10. CASE Hand(r)
  <2> DEFINE last == <<line>>
             more == (memory \o wire) \o last
             T == LineType
  <2>1. wire' = <<>> /\ memory' = <<>> /\ unsynced' = unsynced /\ disk' = disk \o memory \o wire \o last
    BY <1>3, <1>10 DEF line
  <2>2. /\ memory \in Seq(T) /\ wire \in Seq(T) /\ disk \in Seq(T) /\ last \in Seq(T)
        /\ <<>> \in Seq(T)
    BY <1>5, <1>8 DEF LinesOK
  <2> HIDE DEF T, last
  <2>3. memory \o wire \in Seq(T)
    BY <2>2, ConcatProperties
  <2>4. (disk \o memory) \o wire = disk \o (memory \o wire)
    BY <2>2, ConcatAssociative
  <2>5. more \in Seq(T)
    BY <2>2, <2>3, ConcatProperties
  <2>6. (disk \o (memory \o wire)) \o last = disk \o more
    BY <2>2, <2>3, ConcatAssociative
  <2>7. disk' = disk \o more
    BY <2>1, <2>4, <2>6
  <2> HIDE DEF more
  <2>8. disk' \in Seq(T) /\ ToSet(disk') = ToSet(disk) \union ToSet(more)
    BY <1>8, <2>5, <2>7, DiskGrows DEF T
  <2>9. LinesOK' /\ ToSet(disk) \subseteq ToSet(disk')
    BY <2>1, <2>2, <2>8 DEF LinesOK, T
  <2> HIDE DEF new
  <2> QED
    BY <1>4, <1>6, <1>7, <1>10, <2>1, <2>9, OneRun
<1> QED
  BY <1>9, <1>10

\* A run begins with nothing to answer for.
LEMMA OpenKeeps ==
  ASSUME IInv, NEW job \in Jobs, Open(job)
  PROVE  IInv'
<1> DEFINE n == Len(runs) + 1
           new == [job |-> job, began |-> clock + 1, alive |-> TRUE, wave |-> 0,
                   announced |-> 0, acted |-> <<>>, ended |-> 0, ending |-> "", took |-> 0]
           line == Line(n, "run.start", 0, job.verb, clock + 1)
           T == RunType
<1>1. runs \in Seq(T) /\ clock \in Nat /\ LinesOK
  BY NumbersAssumption DEF IInv, TypeOK, LinesOK
<1>2. job \in JobType
  BY JobsAssumption
<1>3. clock + 1 \in Nat /\ clock <= clock + 1
  BY <1>1
<1>4. new \in T
  BY <1>3 DEF RunType
<1>5. /\ clock' = clock + 1 /\ clock < MaxClock /\ Len(runs) < MaxRuns
      /\ runs' = Append(runs, new) /\ Write(n, job, line)
  BY DEF Open
<1>6. InOrder(new, clock + 1)
  <2>1. Len(job.waves) \in Nat /\ job.waves \in Seq(Nat \ {0})
    <3>1. job.waves \in Seq(Nat \ {0})
      BY <1>2 DEF JobType
    <3> QED
      BY <3>1, LenProperties
  <2>2. 0 < Len(job.waves) => 0 < Sum(job.waves)[1]
    <3> DEFINE m == Len(job.waves)
               f == Sum(job.waves)
    <3>1. m \in Nat /\ (\A k \in 0..m : f[k] \in Nat) /\ \A k \in 1..m : f[k] > f[k - 1]
      BY <2>1, SumCounts
    <3> HIDE DEF m, f
    <3>2. 0 < m => 0 < f[1]
      <4> SUFFICES ASSUME 0 < m PROVE 0 < f[1]
        OBVIOUS
      <4>1. 1 \in 1..m /\ 0 \in 0..m /\ 1 \in 0..m /\ 1 - 1 = 0
        BY <3>1
      <4>2. f[1] > f[0] /\ f[0] \in Nat /\ f[1] \in Nat
        BY <3>1, <4>1
      <4> QED
        BY <4>2
    <3> QED
      BY <3>2 DEF m, f
  <2>3. 0 < Len(job.waves) => 0 <= Sum(job.waves)[1]
    <3> SUFFICES ASSUME 0 < Len(job.waves) PROVE 0 <= Sum(job.waves)[1]
      OBVIOUS
    <3> DEFINE x == Sum(job.waves)[1]
    <3>1. x \in Nat
      <4>1. 1 \in 0..Len(job.waves)
        BY <2>1
      <4> QED
        BY <2>1, <4>1, SumCounts
    <3> HIDE DEF x
    <3>2. 0 <= x
      BY <3>1
    <3> QED
      BY <3>2 DEF x
  <2>4. /\ new.announced = 0 /\ new.acted = <<>> /\ new.began = clock + 1 /\ new.wave = 0
        /\ new.ended = 0 /\ new.job = job /\ 0 + 1 = 1 /\ Len(<<>>) = 0
    OBVIOUS
  <2>5. clock + 1 <= clock + 1
    BY <1>3
  <2> HIDE DEF new
  <2> QED
    BY <2>2, <2>3, <2>4, <2>5 DEF InOrder
<1>7. new.acted = <<>>
  OBVIOUS
<1>8. line \in LineType
  <2>1. n \in Nat
    BY <1>1, LenProperties
  <2>2. job.verb \in {"", "conserve", "sleep", "complete", "aborted"} \union Undoers \union Outcomes
    BY <1>2 DEF JobType
  <2> HIDE DEF n
  <2> QED
    BY <1>3, <2>1, <2>2, LineTyped
<1> HIDE DEF T, new, line
<1>9. /\ runs' \in Seq(T) /\ Len(runs') = Len(runs) + 1 /\ runs'[Len(runs) + 1] = new
      /\ \A s \in 1..Len(runs) : runs'[s] = runs[s]
  BY <1>1, <1>4, <1>5, AppendProperties
<1>10. Len(runs) \in Nat /\ DOMAIN runs = 1..Len(runs) /\ DOMAIN runs' = 1..Len(runs')
  BY <1>1, <1>9, LenProperties
<1>11. /\ DOMAIN runs' = 1..n /\ n \in Nat /\ n <= MaxRuns /\ n \notin DOMAIN runs
       /\ \A s \in 1..n : s \in DOMAIN runs \/ s = n
  <2> DEFINE m == Len(runs)
  <2>1. m \in Nat /\ DOMAIN runs = 1..m /\ DOMAIN runs' = 1..n /\ n = m + 1 /\ m < MaxRuns
        /\ MaxRuns \in Nat
    BY <1>5, <1>9, <1>10, NumbersAssumption
  <2> HIDE DEF m, n
  <2> QED
    BY <2>1
<1>12. runs'[n] = new /\ \A s \in DOMAIN runs : runs'[s] = runs[s]
  BY <1>9, <1>10
<1>13. /\ LinesOK' /\ ToSet(disk) \subseteq ToSet(disk')
       /\ unsynced' \in {unsynced, unsynced \union {n}}
  BY <1>1, <1>5, <1>8, WriteKeeps
<1>14. clock' \in 0..MaxClock
  <2>1. clock \in Nat /\ MaxClock \in Nat
    BY <1>1, NumbersAssumption
  <2> QED
    BY <1>5, <2>1
<1>15. Len(runs') <= MaxRuns
  BY <1>9, <1>11
<1> HIDE DEF n
<1>16. unsynced' \subseteq DOMAIN runs'
  <2>1. DOMAIN runs \subseteq DOMAIN runs' /\ n \in DOMAIN runs'
    <3>1. DOMAIN runs \subseteq 1..n /\ n \in 1..n
      <4> DEFINE m == Len(runs)
      <4>1. m \in Nat /\ DOMAIN runs = 1..m /\ n = m + 1
        BY <1>10 DEF n
      <4> HIDE DEF m
      <4> QED
        BY <4>1
    <3> QED
      BY <1>11, <3>1
  <2>2. unsynced \subseteq DOMAIN runs
    BY DEF IInv, TypeOK
  <2> QED
    BY <1>13, <2>1, <2>2
<1>17. TypeOK'
  BY <1>9, <1>13, <1>14, <1>15, <1>16 DEF TypeOK, LinesOK, T
<1>18. RunsInOrder'
  <2> SUFFICES ASSUME NEW s \in 1..n PROVE InOrder(runs'[s], clock + 1)
    BY <1>5, <1>11 DEF RunsInOrder
  <2>1. CASE s = n
    BY <1>6, <1>12, <2>1
  <2>2. CASE s \in DOMAIN runs
    <3>1. InOrder(runs[s], clock) /\ runs[s].began \in Nat
      BY <2>2, RunTypes DEF IInv, RunsInOrder
    <3>2. runs[s].began <= clock + 1
      <4> DEFINE b == runs[s].began
      <4>1. b \in Nat /\ b <= clock /\ clock \in Nat
        BY <1>1, <3>1 DEF InOrder
      <4> HIDE DEF b
      <4>2. b <= clock + 1
        BY <4>1
      <4> QED
        BY <4>2 DEF b
    <3>3. InOrder(runs[s], clock + 1)
      BY <3>1, <3>2 DEF InOrder
    <3> QED
      BY <1>12, <2>2, <3>3
  <2> QED
    BY <1>11, <2>1, <2>2
<1>19. AnnouncedOnDisk'
  <2> SUFFICES ASSUME NEW s \in 1..n, s \notin unsynced', ~Hand(s)', NEW k \in DOMAIN runs'[s].acted
               PROVE  Written(s, k)'
    BY <1>11 DEF AnnouncedOnDisk
  <2>1. s # n
    <3>1. DOMAIN <<>> = {}
      OBVIOUS
    <3> QED
      BY <1>7, <1>12, <3>1
  <2>2. s \in DOMAIN runs /\ s \notin unsynced
    BY <1>11, <1>13, <2>1
  <2>3. ~Hand(s) /\ k \in DOMAIN runs[s].acted
    BY <1>12, <2>2 DEF Hand
  <2>4. Written(s, k)
    BY <2>2, <2>3 DEF IInv, AnnouncedOnDisk
  <2> QED
    BY <1>13, <2>4 DEF Written
<1> QED
  BY <1>17, <1>18, <1>19 DEF IInv

\* Lines passed on, time passing, and nothing at all: no run changes.
LEMMA AroundKeeps ==
  ASSUME IInv, runs' = runs, clock' \in clock..MaxClock, LinesOK', disk' = disk,
         unsynced' = unsynced
  PROVE  IInv'
<1>1. clock \in Nat /\ MaxClock \in Nat
  BY NumbersAssumption DEF IInv, TypeOK
<1>2. clock' \in 0..MaxClock /\ clock <= clock' /\ clock' \in Nat
  BY <1>1
<1>3. TypeOK'
  BY <1>2 DEF IInv, TypeOK, LinesOK
<1>4. RunsInOrder'
  <2> SUFFICES ASSUME NEW s \in DOMAIN runs PROVE InOrder(runs[s], clock')
    BY DEF RunsInOrder
  <2>1. InOrder(runs[s], clock) /\ runs[s].began \in Nat
    BY RunTypes DEF IInv, RunsInOrder
  <2>2. runs[s].began <= clock'
    <3> DEFINE b == runs[s].began
               c == clock'
    <3>1. b \in Nat /\ b <= clock /\ clock \in Nat /\ clock <= c /\ c \in Nat
      BY <1>1, <1>2, <2>1 DEF InOrder
    <3> HIDE DEF b, c
    <3>2. b <= c
      BY <3>1
    <3> QED
      BY <3>2 DEF b, c
  <2> QED
    BY <2>1, <2>2 DEF InOrder
<1>5. AnnouncedOnDisk'
  BY DEF IInv, AnnouncedOnDisk, Written, Hand
<1> QED
  BY <1>3, <1>4, <1>5 DEF IInv

\* The power takes what the disk does not have, and every run with it.
LEMMA PowerKeeps ==
  ASSUME IInv, PowerGoes
  PROVE  IInv'
<1> DEFINE T == RunType
           n == Len(runs)
<1>1. /\ runs \in Seq(T) /\ n \in Nat /\ DOMAIN runs = 1..n /\ clock' = clock
      /\ LinesOK
  <2>1. runs \in Seq(T) /\ LinesOK
    BY DEF IInv, TypeOK, LinesOK
  <2> HIDE DEF T
  <2> QED
    BY <2>1, LenProperties DEF PowerGoes
<1>2. runs' = [r \in DOMAIN runs |-> [runs[r] EXCEPT !.alive = FALSE]]
  BY DEF PowerGoes, AllEnd
<1>3. ASSUME NEW r \in DOMAIN runs
      PROVE  /\ runs'[r] \in T /\ runs'[r].acted = runs[r].acted /\ runs'[r].job = runs[r].job
             /\ runs'[r].alive = FALSE /\ runs'[r].announced = runs[r].announced
             /\ runs'[r].began = runs[r].began
  <2> DEFINE old == runs[r]
             new == [old EXCEPT !.alive = FALSE]
  <2>1. old \in RunType
    BY <1>3, RunTypes DEF IInv
  <2>2. runs'[r] = new
    BY <1>2
  <2> HIDE DEF old
  <2>3. /\ new \in RunType /\ new.acted = old.acted /\ new.job = old.job /\ new.alive = FALSE
        /\ new.announced = old.announced /\ new.began = old.began
    BY <2>1 DEF RunType
  <2> HIDE DEF new
  <2> QED
    BY <2>2, <2>3 DEF old
<1> HIDE DEF T
<1>4. runs' \in Seq(T) /\ DOMAIN runs' = DOMAIN runs /\ Len(runs') = n
  <2>1. DOMAIN runs' = 1..n
    BY <1>1, <1>2
  <2>2. runs' \in [1..n -> T]
    <3>1. \A r \in 1..n : runs'[r] \in T
      BY <1>1, <1>3
    <3>2. runs' = [r \in 1..n |-> runs'[r]]
      BY <1>1, <1>2
    <3> QED
      BY <3>1, <3>2
  <2> HIDE DEF n
  <2>3. runs' \in Seq(T)
    BY <1>1, <2>2
  <2> QED
    BY <1>1, <2>1, <2>3, LenProperties, LenOfDomain
<1>5. PICK more \in Seq(LineType) : disk' = disk \o more
  <2>1. PICK k \in 0..Len(memory) : disk' = disk \o SubSeq(memory, 1, k)
    BY DEF PowerGoes
  <2>2. SubSeq(memory, 1, k) \in Seq(LineType)
    <3> DEFINE L == LineType
    <3>1. memory \in Seq(L)
      BY <1>1 DEF LinesOK
    <3> HIDE DEF L
    <3>2. Len(memory) \in Nat
      BY <3>1, LenProperties
    <3>3. k \in Int /\ \A i \in 1..k : i \in 1..Len(memory)
      BY <3>2
    <3>4. \A i \in 1..k : memory[i] \in L
      BY <3>1, <3>3, ElementOfSeq
    <3>5. SubSeq(memory, 1, k) \in Seq(L)
      BY <3>3, <3>4, SubSeqProperties
    <3> QED
      BY <3>5 DEF L
  <2> QED
    BY <2>1, <2>2
<1>6. disk' \in Seq(LineType) /\ ToSet(disk) \subseteq ToSet(disk')
  BY <1>1, <1>5, DiskGrows
<1>7. LinesOK' /\ unsynced' = unsynced
  <2>1. memory' = <<>> /\ wire' = <<>> /\ unsynced' = unsynced
    BY DEF PowerGoes
  <2>2. <<>> \in Seq(LineType)
    BY EmptySeq
  <2> QED
    BY <1>6, <2>1, <2>2 DEF LinesOK
<1>8. TypeOK'
  BY <1>1, <1>4, <1>7 DEF IInv, TypeOK, LinesOK, T
<1>9. RunsInOrder'
  <2> SUFFICES ASSUME NEW r \in DOMAIN runs PROVE InOrder(runs'[r], clock)
    BY <1>1, <1>4 DEF RunsInOrder
  <2>1. InOrder(runs[r], clock)
    BY DEF IInv, RunsInOrder
  <2> QED
    BY <1>3, <2>1 DEF InOrder
<1>10. AnnouncedOnDisk'
  <2> SUFFICES ASSUME NEW r \in DOMAIN runs, r \notin unsynced', ~Hand(r)',
                      NEW k \in DOMAIN runs'[r].acted
               PROVE  Written(r, k)'
    BY <1>4 DEF AnnouncedOnDisk
  <2>1. ~Hand(r) /\ k \in DOMAIN runs[r].acted
    BY <1>3 DEF Hand
  <2>2. Written(r, k)
    BY <1>7, <2>1 DEF IInv, AnnouncedOnDisk
  <2> QED
    BY <1>6, <2>2 DEF Written
<1> QED
  BY <1>8, <1>9, <1>10 DEF IInv

-----------------------------------------------------------------------------
(***************************************************************************)
(* The invariant, and the theorems it gives.                               *)
(***************************************************************************)
\* A host where nothing has run satisfies the invariant.
LEMMA InitIInv == Init => IInv
<1> SUFFICES ASSUME Init PROVE IInv
  OBVIOUS
<1>1. /\ clock = 0 /\ runs = <<>> /\ wire = <<>> /\ memory = <<>> /\ disk = <<>>
      /\ unsynced = {}
  BY DEF Init
<1>2. \A S : <<>> \in Seq(S)
  BY EmptySeq
<1>3. Len(<<>>) = 0 /\ DOMAIN <<>> = {}
  OBVIOUS
<1>4. clock \in 0..MaxClock /\ 0 <= MaxRuns
  BY <1>1, NumbersAssumption
<1>5. TypeOK
  BY <1>1, <1>2, <1>3, <1>4 DEF TypeOK
<1> QED
  BY <1>1, <1>3, <1>5 DEF IInv, RunsInOrder, AnnouncedOnDisk

\* Every step keeps it.
LEMMA StepIInv == IInv /\ [Next]_vars => IInv'
<1> SUFFICES ASSUME IInv, [Next]_vars PROVE IInv'
  OBVIOUS
<1>0. clock \in Nat /\ MaxClock \in Nat /\ clock <= MaxClock /\ LinesOK
  BY NumbersAssumption DEF IInv, TypeOK, LinesOK
<1>1. ASSUME NEW job \in Jobs, Open(job) PROVE IInv'
  BY <1>1, OpenKeeps
<1>2. ASSUME NEW r \in DOMAIN runs, Run(r) PROVE IInv'
  BY <1>2, StartKeeps, PerformKeeps, EndKeeps, CloseKeeps DEF Run
<1>3. CASE PassOn
  <2> DEFINE T == LineType
  <2>1. /\ wire \in Seq(T) /\ memory \in Seq(T) /\ wire # <<>>
        /\ memory' = Append(memory, Head(wire)) /\ wire' = Tail(wire)
        /\ UNCHANGED <<clock, runs, disk, unsynced>>
    BY <1>0, <1>3 DEF PassOn, LinesOK
  <2> HIDE DEF T
  <2>2. Head(wire) \in T /\ Tail(wire) \in Seq(T)
    BY <2>1, HeadTailProperties
  <2>3. memory' \in Seq(T) /\ wire' \in Seq(T)
    BY <2>1, <2>2, AppendProperties
  <2>4. LinesOK'
    BY <1>0, <2>1, <2>3 DEF LinesOK, T
  <2>5. clock' \in clock..MaxClock
    BY <1>0, <2>1
  <2> QED
    BY <2>1, <2>4, <2>5, AroundKeeps
<1>4. CASE Tick
  <2>1. clock' = clock + 1 /\ clock < MaxClock /\ UNCHANGED <<runs, wire, memory, disk, unsynced>>
    BY <1>4 DEF Tick, lines
  <2>2. clock' \in clock..MaxClock
    BY <1>0, <2>1
  <2>3. LinesOK'
    BY <1>0, <2>1 DEF LinesOK
  <2> QED
    BY <2>1, <2>2, <2>3, AroundKeeps
<1>5. CASE PowerGoes
  BY <1>5, PowerKeeps
<1>6. CASE UNCHANGED vars
  <2>1. UNCHANGED <<clock, runs, wire, memory, disk, unsynced>>
    BY <1>6 DEF vars, lines
  <2>2. clock' \in clock..MaxClock
    BY <1>0, <2>1
  <2>3. LinesOK'
    BY <1>0, <2>1 DEF LinesOK
  <2> QED
    BY <2>1, <2>2, <2>3, AroundKeeps
<1> QED
  BY <1>1, <1>2, <1>3, <1>4, <1>5, <1>6 DEF Next

\* The record keeps its type, however runs overlap and whenever the power goes.
THEOREM TypeCorrect == Spec => []TypeOK
<1>1. IInv => TypeOK
  BY DEF IInv
<1> QED
  BY <1>1, InitIInv, StepIInv, PTL DEF Spec

\* For any runs, of any waves and any number of steps, the disk has the start of every
\* step performed, unless a sync failed or the run was started by hand.
THEOREM Announced == Spec => []NothingActsUnannounced
<1>1. IInv => NothingActsUnannounced
  <2> DEFINE P(r, k) == \E i \in DOMAIN disk : /\ disk[i].run = r /\ disk[i].ev = "step.start"
                                               /\ disk[i].step = k
  <2>1. \A r, k : Written(r, k) => P(r, k)
    BY DEF Written, ToSet
  <2>2. IInv => \A r \in DOMAIN runs : r \notin unsynced /\ ~Hand(r) =>
                  \A k \in DOMAIN runs[r].acted : Written(r, k)
    BY DEF IInv, AnnouncedOnDisk
  <2>3. (\A r \in DOMAIN runs : r \notin unsynced /\ ~Hand(r) =>
                  \A k \in DOMAIN runs[r].acted : runs[r].acted[k] # "" => P(r, k))
        => NothingActsUnannounced
    BY DEF NothingActsUnannounced
  <2> HIDE DEF P
  <2> QED
    BY <2>1, <2>2, <2>3
<1> QED
  BY <1>1, InitIInv, StepIInv, PTL DEF Spec

-----------------------------------------------------------------------------
(***************************************************************************)
(* The second invariant: what the lines of the journal say is true of the  *)
(* runs, the order they are in, and that they are there.                   *)
(***************************************************************************)
StartOf(line, r) == line.run = r /\ line.ev = "run.start"
StepStartOf(line, r, k) == line.run = r /\ line.ev = "step.start" /\ line.step = k
StepEndOf(line, r, k) == line.run = r /\ line.ev = "step.end" /\ line.step = k
EndOf(line, r) == line.run = r /\ line.ev = "run.end"

\* What a line says of its run.
Says(line, run) ==
  /\ line.ev = "run.start" => line.is = run.job.verb /\ line.time = run.began /\ line.step = 0
  /\ line.ev \in {"step.start", "note"} => line.step \in 1..run.announced
  /\ line.ev = "step.end" => /\ line.step \in 1..run.ended
                             /\ line.is = run.acted[line.step] /\ line.is # ""
  /\ line.ev = "run.end" => line.is = run.ending /\ line.is # "" /\ line.time = run.took

TrueOf(line, rs) == line.run \in DOMAIN rs /\ Says(line, rs[line.run])

LinesTrue == \A line \in ToSet(Text) \union ToSet(wire) : TrueOf(line, runs)

\* The older of two runs was at work when the newer began.
Overlap(older, newer) ==
  /\ newer.began - older.began <= Limit
  /\ older.job.verb \notin Undoers /\ newer.job.verb \notin Undoers

\* A line may stand before another. Those of one run are in the order they were written;
\* the line of a newer run is before one of an older only if the two overlapped.
Fits(x, y, rs) ==
  /\ x.run = y.run => /\ x.ev # "run.end" /\ y.ev # "run.start"
                      /\ y.ev = "step.start" => x.step < y.step
  /\ x.run > y.run => Overlap(rs[y.run], rs[x.run])

Follow(s, rs) == \A i, j \in DOMAIN s : i < j => Fits(s[i], s[j], rs)

GoBefore(S, T, rs) == \A x \in S, y \in T : Fits(x, y, rs)

LinesInTurn ==
  /\ Follow(Text, runs) /\ Follow(wire, runs)
  /\ GoBefore(ToSet(Text), ToSet(wire), runs)

\* What is still on its way is of runs at work.
WireOfTheLiving == \A line \in ToSet(wire) : Alive(line.run) /\ Hand(line.run)

\* A set of lines has all that a run has written.
Present(run, r, S) ==
  /\ \E line \in S : StartOf(line, r)
  /\ \A k \in 1..run.announced : \E line \in S : StepStartOf(line, r, k)
  /\ \A k \in 1..run.ended : \E line \in S : StepEndOf(line, r, k)
  /\ run.ending # "" => \E line \in S : EndOf(line, r)

KeptOf(r) ==
  /\ ~Hand(r) /\ r \notin unsynced => Present(runs[r], r, ToSet(disk))
  /\ Hand(r) /\ runs[r].ending # "" => Present(runs[r], r, ToSet(disk))
  /\ Hand(r) /\ Alive(r) => Present(runs[r], r, ToSet(Text) \union ToSet(wire))

Kept == \A r \in DOMAIN runs : KeptOf(r)

\* What is so of each run, and of two of them.
RunSound(run, now) ==
  /\ run.alive => run.ending = "" /\ now <= run.began + Limit
  /\ run.announced = Len(run.acted) /\ run.ended <= run.announced
  /\ \A k \in 1..run.ended : run.acted[k] # ""
  /\ run.job.verb \in Undoers => run.announced = 0

Successive(older, newer) ==
  /\ older.began < newer.began
  /\ older.alive => Overlap(older, newer)

RunsSound ==
  /\ \A r \in DOMAIN runs : RunSound(runs[r], clock)
  /\ \A s, r \in DOMAIN runs : s < r => Successive(runs[s], runs[r])

RecordInv == RunsSound /\ LinesTrue /\ LinesInTurn /\ WireOfTheLiving /\ Kept

-----------------------------------------------------------------------------
(***************************************************************************)
(* Lines in turn, of any runs.                                             *)
(***************************************************************************)
\* What is put together of two parts in turn is in turn, if the one goes before the other.
LEMMA FollowOn ==
  ASSUME NEW S, NEW s \in Seq(S), NEW t \in Seq(S), NEW rs,
         Follow(s, rs), Follow(t, rs), GoBefore(ToSet(s), ToSet(t), rs)
  PROVE  Follow(s \o t, rs)
<1> DEFINE p == s \o t
<1> SUFFICES ASSUME NEW i \in DOMAIN p, NEW j \in DOMAIN p, i < j PROVE Fits(p[i], p[j], rs)
  BY DEF Follow
<1>1. /\ Len(s) \in Nat /\ DOMAIN s = 1..Len(s) /\ Len(t) \in Nat /\ DOMAIN t = 1..Len(t)
      /\ p \in Seq(S) /\ Len(p) = Len(s) + Len(t)
      /\ \A k \in 1 .. Len(s) + Len(t) : p[k] = IF k <= Len(s) THEN s[k] ELSE t[k - Len(s)]
  BY LenProperties, ConcatProperties
<1>2. DOMAIN p = 1..(Len(s) + Len(t))
  BY <1>1, LenProperties
<1> DEFINE m == Len(s) n == Len(t)
<1>3. /\ m \in Nat /\ n \in Nat /\ i \in 1..(m + n) /\ j \in 1..(m + n)
      /\ p[i] = IF i <= m THEN s[i] ELSE t[i - m]
      /\ p[j] = IF j <= m THEN s[j] ELSE t[j - m]
      /\ DOMAIN s = 1..m /\ DOMAIN t = 1..n
  BY <1>1, <1>2
<1> HIDE DEF p, m, n
<1>4. CASE j <= m
  <2>1. i \in 1..m /\ j \in 1..m /\ i <= m
    BY <1>3, <1>4
  <2> QED
    BY <1>3, <1>4, <2>1 DEF Follow
<1>5. CASE i <= m /\ ~(j <= m)
  <2>1. i \in 1..m /\ j - m \in 1..n
    BY <1>3, <1>5
  <2>2. s[i] \in ToSet(s) /\ t[j - m] \in ToSet(t)
    BY <1>3, <2>1 DEF ToSet
  <2> QED
    BY <1>3, <1>5, <2>2 DEF GoBefore
<1>6. CASE ~(i <= m)
  <2>1. i - m \in 1..n /\ j - m \in 1..n /\ i - m < j - m /\ ~(j <= m)
    BY <1>3, <1>6
  <2> QED
    BY <1>3, <1>6, <2>1 DEF Follow
<1> QED
  BY <1>3, <1>4, <1>5, <1>6

\* What one line is put to: it holds that line as well.
LEMMA OneMore ==
  ASSUME NEW S, NEW s \in Seq(S), NEW x \in S
  PROVE  /\ Append(s, x) \in Seq(S) /\ ToSet(Append(s, x)) = ToSet(s) \union {x}
<1> DEFINE t == <<x>>
<1>1. t \in Seq(S) /\ ToSet(t) = {x}
  BY DEF ToSet
<1>2. Append(s, x) = s \o t /\ Append(s, x) \in Seq(S)
  BY AppendIsConcat, AppendProperties
<1> HIDE DEF t
<1>3. ToSet(s \o t) = ToSet(s) \union ToSet(t)
  BY <1>1, ConcatElements
<1> QED
  BY <1>1, <1>2, <1>3 DEF t

\* It stays in turn, if the line goes after the others.
LEMMA OneMoreInTurn ==
  ASSUME NEW S, NEW s \in Seq(S), NEW x \in S, NEW rs,
         Follow(s, rs), GoBefore(ToSet(s), {x}, rs)
  PROVE  Follow(Append(s, x), rs)
<1> DEFINE t == <<x>>
<1>1. t \in Seq(S) /\ ToSet(t) = {x} /\ Follow(t, rs)
  BY DEF ToSet, Follow
<1>2. Append(s, x) = s \o t
  BY AppendIsConcat
<1> HIDE DEF t
<1>3. GoBefore(ToSet(s), ToSet(t), rs)
  BY <1>1
<1>4. Follow(s \o t, rs)
  BY <1>1, <1>3, FollowOn
<1> QED
  BY <1>2, <1>4

\* The first of what is in turn goes before the rest.
LEMMA FirstOfAll ==
  ASSUME NEW S, NEW s \in Seq(S), s # <<>>, NEW rs, Follow(s, rs)
  PROVE  /\ Head(s) \in ToSet(s) /\ Tail(s) \in Seq(S) /\ Head(s) \in S
         /\ ToSet(s) = {Head(s)} \union ToSet(Tail(s))
         /\ Follow(Tail(s), rs) /\ GoBefore({Head(s)}, ToSet(Tail(s)), rs)
<1> DEFINE h == Head(s) t == Tail(s) n == Len(s)
<1>1. n \in Nat /\ n # 0 /\ DOMAIN s = 1..n
  BY LenProperties, EmptySeq
<1>2. /\ h \in S /\ t \in Seq(S) /\ Len(t) = n - 1
      /\ \A i \in 1 .. Len(t) : t[i] = s[i + 1]
  BY HeadTailProperties
<1>3. DOMAIN t = 1..(n - 1) /\ \A i \in 1..(n - 1) : t[i] = s[i + 1]
  BY <1>2, LenProperties
<1>4. h = s[1]
  OBVIOUS
<1> HIDE DEF h, t, n
<1>5. \A i \in 1..(n - 1) : i + 1 \in 1..n /\ 1 < i + 1
  BY <1>1
<1>6. 1 \in 1..n /\ \A i \in 1..n : i = 1 \/ (i - 1 \in 1..(n - 1) /\ (i - 1) + 1 = i)
  BY <1>1
<1>7. h \in ToSet(s)
  BY <1>1, <1>4, <1>6 DEF ToSet
<1>8. ToSet(s) = {h} \union ToSet(t)
  <2>1. ASSUME NEW x \in ToSet(s) PROVE x \in {h} \union ToSet(t)
    <3>1. PICK i \in 1..n : x = s[i]
      BY <1>1 DEF ToSet
    <3>2. CASE i = 1
      BY <1>4, <3>1, <3>2
    <3>3. CASE i # 1
      <4>1. i - 1 \in DOMAIN t /\ t[i - 1] = x
        BY <1>3, <1>6, <3>1, <3>3
      <4> QED
        BY <4>1 DEF ToSet
    <3> QED
      BY <3>2, <3>3
  <2>2. ASSUME NEW x \in ToSet(t) PROVE x \in ToSet(s)
    <3>1. PICK i \in 1..(n - 1) : x = t[i]
      BY <1>3 DEF ToSet
    <3> QED
      BY <1>1, <1>3, <1>5, <3>1 DEF ToSet
  <2> QED
    BY <1>7, <2>1, <2>2
<1>9. Follow(t, rs)
  <2> SUFFICES ASSUME NEW i \in 1..(n - 1), NEW j \in 1..(n - 1), i < j
               PROVE  Fits(t[i], t[j], rs)
    BY <1>3 DEF Follow
  <2>1. i + 1 \in 1..n /\ j + 1 \in 1..n /\ i + 1 < j + 1
    BY <1>5
  <2> QED
    BY <1>1, <1>3, <2>1 DEF Follow
<1>10. GoBefore({h}, ToSet(t), rs)
  <2> SUFFICES ASSUME NEW y \in ToSet(t) PROVE Fits(h, y, rs)
    BY DEF GoBefore
  <2>1. PICK i \in 1..(n - 1) : y = t[i]
    BY <1>3 DEF ToSet
  <2> QED
    BY <1>1, <1>3, <1>4, <1>5, <1>6, <2>1 DEF Follow
<1> QED
  BY <1>2, <1>7, <1>8, <1>9, <1>10 DEF h, t

-----------------------------------------------------------------------------
(***************************************************************************)
(* How runs go on.                                                         *)
(***************************************************************************)
\* A run, and what has become of it.
Later(a, b) ==
  /\ b.job = a.job /\ b.began = a.began
  /\ 1..a.announced \subseteq 1..b.announced /\ 1..a.ended \subseteq 1..b.ended
  /\ \A k \in 1..a.ended : b.acted[k] = a.acted[k]
  /\ a.ending # "" => b.ending = a.ending /\ b.took = a.took

RunsGrow == DOMAIN runs \subseteq DOMAIN runs' /\ \A r \in DOMAIN runs : Later(runs[r], runs'[r])

\* What was true of a run still is, and what fitted still fits.
LEMMA StillSo ==
  ASSUME RunsGrow
  PROVE  /\ \A line : TrueOf(line, runs) => TrueOf(line, runs')
         /\ \A x, y : x.run \in DOMAIN runs /\ y.run \in DOMAIN runs /\ Fits(x, y, runs)
                       => Fits(x, y, runs')
<1>1. ASSUME NEW line, TrueOf(line, runs) PROVE TrueOf(line, runs')
  <2>1. /\ line.run \in DOMAIN runs /\ line.run \in DOMAIN runs' /\ Says(line, runs[line.run])
        /\ Later(runs[line.run], runs'[line.run])
    BY <1>1 DEF TrueOf, RunsGrow
  <2>2. ASSUME NEW a, NEW b, Later(a, b), Says(line, a) PROVE Says(line, b)
    BY <2>2 DEF Later, Says
  <2> QED
    BY <2>1, <2>2 DEF TrueOf
<1>2. ASSUME NEW x, NEW y, x.run \in DOMAIN runs, y.run \in DOMAIN runs, Fits(x, y, runs)
      PROVE  Fits(x, y, runs')
  <2>1. Later(runs[x.run], runs'[x.run]) /\ Later(runs[y.run], runs'[y.run])
    BY <1>2 DEF RunsGrow
  <2>2. ASSUME NEW a, NEW b, NEW c, NEW d, Later(a, b), Later(c, d), Overlap(a, c)
        PROVE  Overlap(b, d)
    BY <2>2 DEF Later, Overlap
  <2> QED
    BY <1>2, <2>1, <2>2 DEF Fits
<1> QED
  BY <1>1, <1>2

\* So lines in turn stay in turn.
LEMMA StillInTurn ==
  ASSUME RecordInv, TypeOK, RunsGrow
  PROVE  /\ \A line \in ToSet(Text) \union ToSet(wire) : TrueOf(line, runs')
         /\ Follow(Text, runs') /\ Follow(wire, runs')
         /\ GoBefore(ToSet(Text), ToSet(wire), runs')
<1>1. \A line \in ToSet(Text) \union ToSet(wire) : TrueOf(line, runs) /\ line.run \in DOMAIN runs
  BY DEF RecordInv, LinesTrue, TrueOf
<1>2. \A i \in DOMAIN Text : Text[i] \in ToSet(Text)
  BY DEF ToSet
<1>3. \A i \in DOMAIN wire : wire[i] \in ToSet(wire)
  BY DEF ToSet
<1>4. /\ Follow(Text, runs) /\ Follow(wire, runs) /\ GoBefore(ToSet(Text), ToSet(wire), runs)
  BY DEF RecordInv, LinesInTurn
<1>5. \A line \in ToSet(Text) \union ToSet(wire) : TrueOf(line, runs')
  BY <1>1, StillSo
<1>6. Follow(Text, runs')
  BY <1>1, <1>2, <1>4, StillSo DEF Follow
<1>7. Follow(wire, runs')
  BY <1>1, <1>3, <1>4, StillSo DEF Follow
<1>8. GoBefore(ToSet(Text), ToSet(wire), runs')
  BY <1>1, <1>4, StillSo DEF GoBefore
<1> QED
  BY <1>5, <1>6, <1>7, <1>8

\* The lines that there are, as sets and as sequences.
LEMMA LinesTyped ==
  ASSUME TypeOK
  PROVE  /\ wire \in Seq(LineType) /\ memory \in Seq(LineType) /\ disk \in Seq(LineType)
         /\ Text \in Seq(LineType) /\ ToSet(Text) = ToSet(disk) \union ToSet(memory)
         /\ ToSet(Text) \subseteq LineType /\ ToSet(wire) \subseteq LineType
<1>1. wire \in Seq(LineType) /\ memory \in Seq(LineType) /\ disk \in Seq(LineType)
  BY DEF TypeOK
<1>2. Text \in Seq(LineType) /\ ToSet(Text) = ToSet(disk) \union ToSet(memory)
  <2> DEFINE T == LineType
  <2> HIDE DEF T
  <2>1. wire \in Seq(T) /\ memory \in Seq(T) /\ disk \in Seq(T)
    BY <1>1 DEF T
  <2>2. Text \in Seq(T) /\ ToSet(Text) = ToSet(disk) \union ToSet(memory)
    BY <2>1, ConcatElements, ConcatProperties DEF Text
  <2> QED
    BY <2>2 DEF T
<1>3. ToSet(Text) \subseteq LineType /\ ToSet(wire) \subseteq LineType
  <2> DEFINE T == LineType
  <2> HIDE DEF T
  <2>1. wire \in Seq(T) /\ Text \in Seq(T)
    BY <1>1, <1>2 DEF T
  <2>2. ToSet(Text) \subseteq T /\ ToSet(wire) \subseteq T
    BY <2>1, ElementsInSet
  <2> QED
    BY <2>2 DEF T
<1> QED
  BY <1>1, <1>2, <1>3

\* One run goes on.
LEMMA OneGoesOn ==
  ASSUME IInv, RunsSound, NEW r \in DOMAIN runs, NEW new, runs' = [runs EXCEPT ![r] = new],
         clock' = clock, Later(runs[r], new), RunSound(new, clock), new.alive => Alive(r)
  PROVE  /\ RunsSound' /\ RunsGrow /\ runs'[r] = new /\ DOMAIN runs' = DOMAIN runs
         /\ \A s \in DOMAIN runs : s # r => runs'[s] = runs[s]
<1>1. /\ runs'[r] = new /\ DOMAIN runs' = DOMAIN runs
      /\ \A s \in DOMAIN runs : s # r => runs'[s] = runs[s]
  <2>1. runs \in Seq(RunType)
    BY DEF IInv, TypeOK
  <2> DEFINE T == RunType
  <2> HIDE DEF T
  <2>2. runs \in [1..Len(runs) -> T] /\ DOMAIN runs = 1..Len(runs)
    BY <2>1, LenProperties DEF T
  <2> QED
    BY <2>2
<1>2. RunsGrow
  <2>1. \A a : Later(a, a)
    BY DEF Later
  <2> QED
    BY <1>1, <2>1 DEF RunsGrow
<1>3. \A s \in DOMAIN runs' : RunSound(runs'[s], clock')
  BY <1>1 DEF RunsSound
<1>4. ASSUME NEW s \in DOMAIN runs, NEW q \in DOMAIN runs, s < q
      PROVE  Successive(runs'[s], runs'[q])
  <2>1. Successive(runs[s], runs[q])
    BY <1>4 DEF RunsSound
  <2>2. /\ runs'[s].job = runs[s].job /\ runs'[s].began = runs[s].began
        /\ runs'[q].job = runs[q].job /\ runs'[q].began = runs[q].began
    BY <1>2 DEF RunsGrow, Later
  <2>3. runs'[s].alive => runs[s].alive
    BY <1>1 DEF Alive
  <2> QED
    BY <2>1, <2>2, <2>3 DEF Successive, Overlap
<1> QED
  BY <1>1, <1>2, <1>3, <1>4 DEF RunsSound

-----------------------------------------------------------------------------
(***************************************************************************)
(* What the kinds of change to the lines keep.                             *)
(***************************************************************************)
\* The line of a run that writes it goes after all the others, and before what is on its
\* way if it does not go that way.
GoesLast(z, r) ==
  /\ z.run = r /\ TrueOf(z, runs')
  /\ \A x \in ToSet(Text) \union ToSet(wire) :
       x.run = r => /\ x.ev # "run.end" /\ z.ev # "run.start"
                    /\ z.ev = "step.start" => x.step < z.step
  /\ \A q \in DOMAIN runs' : q > r => Overlap(runs'[r], runs'[q])

LEMMA LastFits ==
  ASSUME RecordInv, TypeOK, NEW r \in Nat, NEW z, GoesLast(z, r), RunsGrow
  PROVE  \A x \in ToSet(Text) \union ToSet(wire) : Fits(x, z, runs')
<1> SUFFICES ASSUME NEW x \in ToSet(Text) \union ToSet(wire) PROVE Fits(x, z, runs')
  OBVIOUS
<1>1. x.run \in DOMAIN runs
  BY DEF RecordInv, LinesTrue, TrueOf
<1>2. x.run \in DOMAIN runs'
  BY <1>1 DEF RunsGrow
<1> QED
  BY <1>2 DEF GoesLast, Fits

\* What a run at work writes goes before what is on its way from others at work.
LEMMA LastIsBefore ==
  ASSUME RecordInv, IInv', RunsGrow, NEW r \in DOMAIN runs', NEW z, GoesLast(z, r), ~Hand(r)',
         RunsSound', \A s \in DOMAIN runs : s # r => runs'[s] = runs[s]
  PROVE  \A y \in ToSet(wire) : Fits(z, y, runs')
<1> SUFFICES ASSUME NEW y \in ToSet(wire) PROVE Fits(z, y, runs')
  OBVIOUS
<1>1. y.run \in DOMAIN runs /\ Alive(y.run) /\ Hand(y.run)
  BY DEF RecordInv, LinesTrue, TrueOf, WireOfTheLiving
<1>2. y.run \in DOMAIN runs' /\ Later(runs[y.run], runs'[y.run])
  BY <1>1 DEF RunsGrow
<1>3. y.run # r
  BY <1>1, <1>2 DEF Hand, Later
<1>4. runs'[y.run].alive
  BY <1>1, <1>3 DEF Alive
<1>5. r \in Nat /\ y.run \in Nat
  <2>1. runs' \in Seq(RunType)
    BY DEF IInv, TypeOK
  <2> HIDE DEF RunType
  <2>2. DOMAIN runs' = 1..Len(runs') /\ Len(runs') \in Nat
    BY <2>1, LenProperties
  <2> QED
    BY <1>2, <2>2
<1>6. y.run < r => Overlap(runs'[y.run], runs'[r])
  BY <1>2, <1>4 DEF RunsSound, Successive
<1> QED
  BY <1>3, <1>5, <1>6 DEF GoesLast, Fits

\* Where a line that is written comes to stand.
LEMMA WriteText ==
  ASSUME TypeOK, NEW r, NEW job, NEW z \in LineType, Write(r, job, z)
  PROVE  IF job.hand THEN wire' = Append(wire, z) /\ Text' = Text
         ELSE wire' = wire /\ Text' = Append(Text, z)
<1> DEFINE held == IF job.hand THEN memory ELSE Append(memory, z)
           T == LineType
<1>1. memory \in Seq(T) /\ disk \in Seq(T) /\ z \in T
  BY DEF TypeOK
<1>2. /\ wire' = IF job.hand THEN Append(wire, z) ELSE wire
      /\ \/ disk' = disk \o held /\ memory' = <<>>
         \/ memory' = held /\ disk' = disk
  BY DEF Write
<1> HIDE DEF T
<1>3. disk \o memory \in Seq(T)
  BY <1>1, ConcatProperties
<1> DEFINE one == <<z>>
<1>4. one \in Seq(T)
  BY <1>1
<1>5. Append(memory, z) = memory \o one /\ Append(disk \o memory, z) = (disk \o memory) \o one
  BY <1>1, <1>3, AppendIsConcat
<1> HIDE DEF one
<1>6. (disk \o memory) \o one = disk \o (memory \o one)
  <2>1. disk \in Seq(T) /\ memory \in Seq(T)
    BY <1>1
  <2> QED
    BY <1>4, <2>1, ConcatAssociative
<1>7. disk \o held = IF job.hand THEN Text ELSE Append(Text, z)
  BY <1>5, <1>6 DEF Text
<1>8. disk \o held \in Seq(T)
  <2>1. Text \in Seq(T)
    BY <1>3 DEF Text
  <2>2. Append(Text, z) \in Seq(T)
    BY <1>1, <2>1, AppendProperties
  <2> QED
    BY <1>7, <2>1, <2>2
<1>9. (disk \o held) \o <<>> = disk \o held
  BY <1>8, ConcatEmptySeq
<1>10. Text' = disk \o held
  <2>1. Text' = disk' \o memory'
    BY DEF Text
  <2> QED
    BY <1>2, <1>9, <2>1
<1> QED
  BY <1>2, <1>7, <1>10

\* More lines hold what fewer did.
LEMMA MorePresent ==
  ASSUME NEW run, NEW r, NEW S, NEW T, S \subseteq T, Present(run, r, S)
  PROVE  Present(run, r, T)
BY DEF Present

\* A line is written.
LEMMA WriteRecords ==
  ASSUME IInv, IInv', RecordInv, RunsGrow, RunsSound',
         NEW r \in DOMAIN runs', DOMAIN runs' \subseteq DOMAIN runs \union {r},
         \A s \in DOMAIN runs : s # r => runs'[s] = runs[s],
         Hand(r)' => Alive(r)' /\ (r \in DOMAIN runs => Alive(r)),
         NEW z \in LineType, GoesLast(z, r), Write(r, runs'[r].job, z),
         \A S : (r \in DOMAIN runs => Present(runs[r], r, S)) => Present(runs'[r], r, S \union {z})
  PROVE  RecordInv'
<1>1. /\ wire \in Seq(LineType) /\ Text \in Seq(LineType)
      /\ ToSet(Text) = ToSet(disk) \union ToSet(memory)
      /\ ToSet(Text') = ToSet(disk') \union ToSet(memory')
  <2>1. TypeOK /\ TypeOK'
    BY DEF IInv
  <2> DEFINE T == LineType
  <2>2. disk' \in Seq(T) /\ memory' \in Seq(T)
    BY DEF IInv, TypeOK
  <2> HIDE DEF T
  <2>3. ToSet(disk' \o memory') = ToSet(disk') \union ToSet(memory')
    BY <2>2, ConcatElements
  <2>4. ToSet(Text') = ToSet(disk') \union ToSet(memory')
    BY <2>3 DEF Text
  <2> QED
    BY <2>1, <2>4, LinesTyped
<1>2. IF Hand(r)' THEN wire' = Append(wire, z) /\ Text' = Text
      ELSE wire' = wire /\ Text' = Append(Text, z)
  BY WriteText DEF IInv, Hand
<1>3. /\ \A line \in ToSet(Text) \union ToSet(wire) : TrueOf(line, runs')
      /\ Follow(Text, runs') /\ Follow(wire, runs')
      /\ GoBefore(ToSet(Text), ToSet(wire), runs')
  BY StillInTurn DEF IInv
<1>4. r \in Nat
  <2>1. runs' \in Seq(RunType)
    BY DEF IInv, TypeOK
  <2> HIDE DEF RunType
  <2>2. DOMAIN runs' = 1..Len(runs') /\ Len(runs') \in Nat
    BY <2>1, LenProperties
  <2> QED
    BY <2>2
<1>5. \A x \in ToSet(Text) \union ToSet(wire) : Fits(x, z, runs')
  BY <1>4, LastFits DEF IInv
<1>6. ~Hand(r)' => \A y \in ToSet(wire) : Fits(z, y, runs')
  BY LastIsBefore
<1> DEFINE T == LineType
<1> HIDE DEF T
<1>7. /\ ToSet(Append(wire, z)) = ToSet(wire) \union {z}
      /\ ToSet(Append(Text, z)) = ToSet(Text) \union {z}
      /\ Follow(Append(wire, z), runs') /\ Follow(Append(Text, z), runs')
  <2>1. wire \in Seq(T) /\ Text \in Seq(T) /\ z \in T
    BY <1>1 DEF T
  <2>2. GoBefore(ToSet(wire), {z}, runs') /\ GoBefore(ToSet(Text), {z}, runs')
    BY <1>5 DEF GoBefore
  <2>3. ToSet(Append(wire, z)) = ToSet(wire) \union {z}
    BY <2>1, OneMore
  <2>4. ToSet(Append(Text, z)) = ToSet(Text) \union {z}
    BY <2>1, OneMore
  <2>5. Follow(Append(wire, z), runs')
    BY <1>3, <2>1, <2>2, OneMoreInTurn
  <2>6. Follow(Append(Text, z), runs')
    BY <1>3, <2>1, <2>2, OneMoreInTurn
  <2> QED
    BY <2>3, <2>4, <2>5, <2>6
<1>8. ToSet(Text') \union ToSet(wire') = ToSet(Text) \union ToSet(wire) \union {z}
  BY <1>2, <1>7
<1>9. LinesTrue'
  <2>1. TrueOf(z, runs')
    BY DEF GoesLast
  <2> QED
    BY <1>3, <1>8, <2>1 DEF LinesTrue
<1>10. LinesInTurn'
  <2>1. CASE Hand(r)'
    BY <1>2, <1>3, <1>5, <1>7, <2>1 DEF LinesInTurn, GoBefore
  <2>2. CASE ~Hand(r)'
    BY <1>2, <1>3, <1>6, <1>7, <2>2 DEF LinesInTurn, GoBefore
  <2> QED
    BY <2>1, <2>2
<1>11. WireOfTheLiving'
  <2> SUFFICES ASSUME NEW line \in ToSet(wire') PROVE Alive(line.run)' /\ Hand(line.run)'
    BY DEF WireOfTheLiving
  <2>1. CASE line = z
    <3>1. Hand(r)'
      <4>1. CASE ~Hand(r)'
        <5>1. z \in ToSet(wire)
          BY <1>2, <2>1, <4>1
        <5>2. z.run = r /\ Hand(r) /\ r \in DOMAIN runs
          BY <5>1 DEF RecordInv, WireOfTheLiving, LinesTrue, TrueOf, GoesLast
        <5> QED
          BY <4>1, <5>2 DEF RunsGrow, Later, Hand
      <4> QED
        BY <4>1
    <3> QED
      BY <2>1, <3>1 DEF GoesLast
  <2>2. CASE line # z
    <3>1. line \in ToSet(wire)
      BY <1>2, <1>7, <2>2
    <3>2. Alive(line.run) /\ Hand(line.run) /\ line.run \in DOMAIN runs
      BY <3>1 DEF RecordInv, WireOfTheLiving, LinesTrue, TrueOf
    <3>3. CASE line.run = r
      <4>1. Hand(r)'
        BY <3>2, <3>3 DEF RunsGrow, Later, Hand
      <4> QED
        BY <3>3, <4>1
    <3>4. CASE line.run # r
      BY <3>2, <3>4 DEF Alive, Hand
    <3> QED
      BY <3>3, <3>4
  <2> QED
    BY <2>1, <2>2
<1>12. /\ ToSet(disk) \subseteq ToSet(disk')
       /\ unsynced' \in {unsynced, unsynced \union {r}}
       /\ ~Hand(r)' /\ r \notin unsynced' => z \in ToSet(disk')
  BY WriteKeeps DEF IInv, TypeOK, LinesOK, Hand
<1>13. ASSUME NEW s \in DOMAIN runs', s # r PROVE KeptOf(s)'
  <2>1. s \in DOMAIN runs /\ runs'[s] = runs[s] /\ KeptOf(s)
    BY <1>13 DEF RecordInv, Kept
  <2>2. (s \in unsynced' <=> s \in unsynced) /\ (Hand(s)' <=> Hand(s)) /\ (Alive(s)' <=> Alive(s))
    BY <1>12, <1>13, <2>1 DEF Hand, Alive
  <2>3. ToSet(Text) \union ToSet(wire) \subseteq ToSet(Text') \union ToSet(wire')
    BY <1>8
  <2> QED
    BY <1>12, <2>1, <2>2, <2>3, MorePresent DEF KeptOf
<1>14. KeptOf(r)'
  <2>1. r \in DOMAIN runs => KeptOf(r) /\ runs'[r].job = runs[r].job
    BY DEF RecordInv, Kept, RunsGrow, Later
  <2>2. ASSUME ~Hand(r)', r \notin unsynced' PROVE Present(runs'[r], r, ToSet(disk'))
    <3>1. r \in DOMAIN runs => Present(runs[r], r, ToSet(disk))
      BY <1>12, <2>1, <2>2 DEF KeptOf, Hand
    <3>2. Present(runs'[r], r, ToSet(disk) \union {z})
      BY <3>1
    <3> QED
      BY <1>12, <2>2, <3>2, MorePresent
  <2>3. Hand(r)' => runs'[r].ending = ""
    BY DEF RunsSound, RunSound, Alive
  <2>4. ASSUME Hand(r)', Alive(r)' PROVE Present(runs'[r], r, ToSet(Text') \union ToSet(wire'))
    <3>1. r \in DOMAIN runs => Present(runs[r], r, ToSet(Text) \union ToSet(wire))
      BY <2>1, <2>4 DEF KeptOf, Hand
    <3> QED
      BY <1>8, <3>1
  <2> QED
    BY <2>2, <2>3, <2>4 DEF KeptOf
<1>15. Kept'
  BY <1>13, <1>14 DEF Kept
<1> QED
  BY <1>9, <1>10, <1>11, <1>15 DEF RecordInv

-----------------------------------------------------------------------------
(***************************************************************************)
(* One lemma for each kind of step.                                        *)
(***************************************************************************)
\* What a run has once it has written a line.
Adds(old, new, r, z) == \A S : Present(old, r, S) => Present(new, r, S \union {z})

\* A run at work goes on, and writes a line that says so.
LEMMA OneWrites ==
  ASSUME IInv, IInv', RecordInv, NEW r \in DOMAIN runs, Alive(r), NEW new,
         runs' = [runs EXCEPT ![r] = new], clock' = clock,
         Later(runs[r], new), RunSound(new, clock), Hand(r) => new.alive,
         NEW z \in LineType, z.run = r, Says(z, new), z.ev # "run.start",
         z.ev = "step.start" => runs[r].announced < z.step,
         Write(r, runs[r].job, z), Adds(runs[r], new, r, z)
  PROVE  RecordInv'
<1>1. /\ RunsSound' /\ RunsGrow /\ runs'[r] = new /\ DOMAIN runs' = DOMAIN runs
      /\ \A s \in DOMAIN runs : s # r => runs'[s] = runs[s]
  BY OneGoesOn DEF RecordInv
<1>2. new.job = runs[r].job
  BY DEF Later
<1>3. Hand(r)' => Alive(r)' /\ (r \in DOMAIN runs => Alive(r))
  BY <1>1, <1>2 DEF Hand, Alive
<1>4. Write(r, runs'[r].job, z)
  BY <1>1, <1>2
<1>5. \A S : (r \in DOMAIN runs => Present(runs[r], r, S)) => Present(runs'[r], r, S \union {z})
  BY <1>1 DEF Adds
<1>6. GoesLast(z, r)
  <2>1. TrueOf(z, runs')
    BY <1>1 DEF TrueOf
  <2>2. ASSUME NEW x \in ToSet(Text) \union ToSet(wire), x.run = r
        PROVE  x.ev # "run.end" /\ (z.ev = "step.start" => x.step < z.step)
    <3>1. x \in LineType /\ Says(x, runs[r])
      BY <2>2, LinesTyped DEF IInv, RecordInv, LinesTrue, TrueOf
    <3>2. /\ runs[r].ending = "" /\ runs[r].ended <= runs[r].announced
          /\ runs[r].announced \in Nat /\ runs[r].ended \in Nat
      BY RunTypes DEF IInv, RecordInv, RunsSound, RunSound, Alive
    <3>3. x.ev # "run.end"
      BY <3>1, <3>2 DEF Says
    <3>4. x.ev \in {"run.start", "step.start", "note", "step.end", "run.end"} /\ z.step \in Nat
      BY <3>1 DEF LineType
    <3> DEFINE m == runs[r].announced  e == runs[r].ended  k == x.step  n == z.step
    <3>5. x.step = 0 \/ x.step \in 1..m \/ x.step \in 1..e
      BY <3>1, <3>3, <3>4 DEF Says
    <3>6. k = 0 \/ k \in 1..m \/ k \in 1..e
      BY <3>5
    <3>7. e <= m /\ m \in Nat /\ e \in Nat /\ n \in Nat
      BY <3>2, <3>4
    <3>8. z.ev = "step.start" => m < n
      OBVIOUS
    <3> HIDE DEF m, e, k, n
    <3>9. m < n => k < n
      BY <3>6, <3>7
    <3>10. z.ev = "step.start" => k < n
      BY <3>8, <3>9
    <3> QED
      BY <3>3, <3>10 DEF k, n
  <2>3. ASSUME NEW q \in DOMAIN runs', q > r
        PROVE  Overlap(runs'[r], runs'[q])
    <3>1. q \in DOMAIN runs /\ r < q
      BY <1>1, <2>3, RunTypes DEF IInv
    <3>2. Overlap(runs[r], runs[q])
      BY <3>1 DEF RecordInv, RunsSound, Successive, Alive
    <3>3. Later(runs[r], runs'[r]) /\ Later(runs[q], runs'[q])
      BY <1>1, <3>1 DEF RunsGrow
    <3> QED
      BY <3>2, <3>3 DEF Later, Overlap
  <2> QED
    BY <2>1, <2>2, <2>3 DEF GoesLast
<1> QED
  BY <1>1, <1>3, <1>4, <1>5, <1>6, WriteRecords

\* A step is announced.
LEMMA StartRecords ==
  ASSUME IInv, IInv', RecordInv, NEW r \in DOMAIN runs, StepStart(r)
  PROVE  RecordInv'
<1> DEFINE old == runs[r]
           n == old.announced + 1
           a == Append(old.acted, "")
           new == [old EXCEPT !.announced = n, !.acted = a]
           z == Line(r, "step.start", n, "", clock)
<1>1. /\ runs' = [runs EXCEPT ![r] = new] /\ clock' = clock /\ Write(r, old.job, z)
      /\ InWave(r) /\ Alive(r)
  BY DEF StepStart, InWave
<1>2. /\ r \in Nat /\ clock \in Nat /\ old.announced \in Nat /\ old.ended \in Nat /\ old \in RunType
      /\ old.acted \in Seq(Outcomes \union {""}) /\ Len(old.acted) \in Nat
      /\ RunSound(old, clock)
  BY RunTypes DEF IInv, RecordInv, RunsSound
<1>3. n \in Nat /\ old.announced < n /\ n \in 1..n /\ old.ended <= old.announced /\ old.ended <= n
      /\ (\A k \in 1..n : k \in 1..old.announced \/ k = n)
      /\ 1..old.announced \subseteq 1..n
  <2> DEFINE m == old.announced  e == old.ended
  <2>1. e <= m /\ e \in Nat /\ m \in Nat /\ n = m + 1
    BY <1>2 DEF RunSound
  <2> HIDE DEF m, e, n
  <2>2. n \in Nat /\ m < n /\ n \in 1..n /\ e <= n /\ 1..m \subseteq 1..n
        /\ \A k \in 1..n : k \in 1..m \/ k = n
    BY <2>1
  <2> QED
    BY <2>1, <2>2 DEF m, e
<1>4. /\ z \in LineType /\ z.run = r /\ z.ev = "step.start" /\ z.step = n
  <2>1. z \in LineType
    BY <1>2, <1>3, LineTyped
  <2> QED
    BY <2>1 DEF Line
<1>5. /\ new.announced = n /\ new.acted = a /\ new.job = old.job /\ new.began = old.began
      /\ new.ended = old.ended /\ new.ending = old.ending /\ new.took = old.took
      /\ new.alive = old.alive
  BY <1>2 DEF RunType
<1>6. Len(a) = n /\ \A k \in 1..old.ended : a[k] = old.acted[k]
  <2> DEFINE w == old.acted  T == Outcomes \union {""}
  <2>1. w \in Seq(T) /\ "" \in T /\ n = Len(w) + 1 /\ old.ended <= Len(w) /\ Len(w) \in Nat
    BY <1>2 DEF RunSound
  <2>2. a = Append(w, "")
    OBVIOUS
  <2> HIDE DEF w, T, n, a
  <2>3. Len(a) = Len(w) + 1 /\ \A k \in 1..Len(w) : a[k] = w[k]
    <3> DEFINE blank == ""
    <3>1. w \in Seq(T) /\ blank \in T /\ a = Append(w, blank)
      BY <2>1, <2>2
    <3> HIDE DEF blank
    <3>2. /\ Len(Append(w, blank)) = Len(w) + 1
          /\ \A k \in 1..Len(w) : Append(w, blank)[k] = w[k]
      BY <3>1, AppendProperties
    <3> QED
      BY <3>1, <3>2
  <2> DEFINE e == old.ended  c == Len(w)
  <2>4. e \in Nat /\ e <= c /\ c \in Nat
    BY <1>2, <2>1
  <2> HIDE DEF e, c
  <2>6. \A k \in 1..e : k \in 1..c
    BY <2>4
  <2>5. \A k \in 1..e : k \in 1..Len(w)
    BY <2>6 DEF c
  <2>7. Len(a) = n /\ \A k \in 1..e : a[k] = w[k]
    BY <2>1, <2>3, <2>5
  <2> QED
    BY <2>7 DEF w, e
<1> HIDE DEF z, a, new, n
<1>7. Later(old, new)
  BY <1>2, <1>3, <1>5, <1>6 DEF Later
<1>8. old.job.verb \notin Undoers
  <2>1. ASSUME old.job.verb \in Undoers PROVE FALSE
    <3>1. Waves(r) = <<>>
      <4>1. old.job \in Jobs
        BY <1>2 DEF RunType
      <4> QED
        BY <2>1, <4>1, JobsAssumption DEF Waves
    <3>2. runs[r].wave \in Nat /\ runs[r].wave < Len(Waves(r))
      BY <1>1, RunTypes DEF IInv, InWave
    <3>3. Len(Waves(r)) = 0
      BY <3>1
    <3> QED
      BY <3>2, <3>3
  <2> QED
    BY <2>1
<1>9. RunSound(new, clock)
  <2>1. \A k \in 1..old.ended : a[k] # ""
    BY <1>2, <1>6 DEF RunSound
  <2> QED
    BY <1>2, <1>3, <1>5, <1>6, <1>8, <2>1 DEF RunSound
<1>10. Says(z, new)
  BY <1>3, <1>4, <1>5 DEF Says
<1>11. Adds(old, new, r, z)
  <2> SUFFICES ASSUME NEW S, Present(old, r, S) PROVE Present(new, r, S \union {z})
    BY DEF Adds
  <2>1. StepStartOf(z, r, n)
    BY <1>4 DEF StepStartOf
  <2>2. \A k \in 1..n : \E line \in S \union {z} : StepStartOf(line, r, k)
    BY <1>3, <2>1 DEF Present
  <2> QED
    BY <1>5, <2>2 DEF Present
<1>12. Hand(r) => new.alive
  BY <1>1, <1>5 DEF Alive
<1> QED
  BY <1>1, <1>4, <1>3, <1>7, <1>9, <1>10, <1>11, <1>12, OneWrites

\* The end of a step is written.
LEMMA EndRecords ==
  ASSUME IInv, IInv', RecordInv, NEW r \in DOMAIN runs, StepEnd(r)
  PROVE  RecordInv'
<1> DEFINE old == runs[r]
           n == old.ended + 1
           w == IF n = ThisFar(r) THEN old.wave + 1 ELSE old.wave
           new == [old EXCEPT !.ended = n, !.wave = w]
           z == Line(r, "step.end", n, old.acted[n], clock)
<1>1. /\ runs' = [runs EXCEPT ![r] = new] /\ clock' = clock /\ Write(r, old.job, z)
      /\ InWave(r) /\ Alive(r) /\ old.announced = ThisFar(r)
      /\ \A k \in DOMAIN old.acted : old.acted[k] # ""
  BY DEF StepEnd, InWave
<1>2. /\ r \in Nat /\ clock \in Nat /\ old.announced \in Nat /\ old.ended \in Nat /\ old \in RunType
      /\ old.acted \in Seq(Outcomes \union {""}) /\ DOMAIN old.acted = 1..Len(old.acted)
      /\ RunSound(old, clock)
  BY RunTypes DEF IInv, RecordInv, RunsSound
<1>3. old.ended < old.announced
  <2>1. old.ended < Sum(old.job.waves)[old.wave + 1]
    BY <1>1 DEF IInv, RunsInOrder, InOrder, InWave, Waves, Alive
  <2>2. ThisFar(r) = Sum(old.job.waves)[old.wave + 1]
    BY <1>1, FarType DEF IInv, Waves
  <2> QED
    BY <1>1, <2>1, <2>2
<1>4. /\ n \in Nat /\ n <= old.announced /\ n \in 1..old.announced /\ n \in 1..n
      /\ 1..old.ended \subseteq 1..n /\ \A k \in 1..n : k \in 1..old.ended \/ k = n
      /\ \A k \in 1..n : k \in 1..old.announced
  <2> DEFINE m == old.announced  e == old.ended
  <2>1. e < m /\ e \in Nat /\ m \in Nat /\ n = e + 1
    BY <1>2, <1>3
  <2> HIDE DEF m, e, n
  <2>2. n \in Nat /\ n <= m /\ n \in 1..m /\ n \in 1..n /\ 1..e \subseteq 1..n
        /\ (\A k \in 1..n : k \in 1..e \/ k = n) /\ \A k \in 1..n : k \in 1..m
    BY <2>1
  <2> QED
    BY <2>2 DEF m, e
<1>5. old.announced = Len(old.acted) /\ \A k \in 1..n : old.acted[k] # ""
  BY <1>1, <1>2, <1>4 DEF RunSound
<1>6. old.acted[n] \in Outcomes \union {""}
  <2> DEFINE u == old.acted  T == Outcomes \union {""}
  <2>1. u \in Seq(T) /\ n \in 1..Len(u)
    BY <1>2, <1>4, <1>5
  <2> HIDE DEF u, T, n
  <2>2. u[n] \in T
    BY <2>1, ElementOfSeq
  <2> QED
    BY <2>2 DEF u, T
<1>7. /\ z \in LineType /\ z.run = r /\ z.ev = "step.end" /\ z.step = n
      /\ z.is = old.acted[n]
  <2>1. z \in LineType
    BY <1>2, <1>4, <1>6, LineTyped
  <2> QED
    BY <2>1 DEF Line
<1>8. /\ new.announced = old.announced /\ new.acted = old.acted /\ new.job = old.job
      /\ new.began = old.began
      /\ new.ended = n /\ new.ending = old.ending /\ new.took = old.took
      /\ new.alive = old.alive
  BY <1>2 DEF RunType
<1> HIDE DEF z, new, n
<1>9. Later(old, new)
  BY <1>4, <1>8 DEF Later
<1>10. RunSound(new, clock)
  BY <1>2, <1>4, <1>5, <1>8 DEF RunSound
<1>11. Says(z, new)
  BY <1>4, <1>5, <1>7, <1>8 DEF Says
<1>12. Adds(old, new, r, z)
  <2> SUFFICES ASSUME NEW S, Present(old, r, S) PROVE Present(new, r, S \union {z})
    BY DEF Adds
  <2>1. StepEndOf(z, r, n)
    BY <1>7 DEF StepEndOf
  <2>2. \A k \in 1..n : \E line \in S \union {z} : StepEndOf(line, r, k)
    BY <1>4, <2>1 DEF Present
  <2> QED
    BY <1>8, <2>2 DEF Present
<1>13. Hand(r) => new.alive
  BY <1>1, <1>8 DEF Alive
<1> QED
  BY <1>1, <1>7, <1>9, <1>10, <1>11, <1>12, <1>13, OneWrites

\* How long a run may be at work is a number of moments.
LEMMA LimitType == Limit \in Nat /\ Gap \in Nat /\ Limit <= Gap
<1>1. Limit \in 0..Gap /\ Gap \in Nat
  BY NumbersAssumption
<1> QED
  BY <1>1

\* Nothing is written, and what there is to write does not change.
LEMMA LinesStay ==
  ASSUME IInv, RecordInv, lines' = lines, RunsSound', RunsGrow, DOMAIN runs' = DOMAIN runs,
         \A s \in DOMAIN runs : /\ (Alive(s)' <=> Alive(s)) /\ runs'[s].ending = runs[s].ending
                                /\ runs'[s].announced = runs[s].announced
                                /\ runs'[s].ended = runs[s].ended
  PROVE  RecordInv'
<1>1. /\ wire' = wire /\ memory' = memory /\ disk' = disk /\ unsynced' = unsynced
      /\ Text' = Text
  BY DEF lines, Text
<1>2. /\ \A line \in ToSet(Text) \union ToSet(wire) : TrueOf(line, runs')
      /\ Follow(Text, runs') /\ Follow(wire, runs')
      /\ GoBefore(ToSet(Text), ToSet(wire), runs')
  BY StillInTurn DEF IInv
<1>3. LinesTrue' /\ LinesInTurn'
  BY <1>1, <1>2 DEF LinesTrue, LinesInTurn
<1>4. \A s \in DOMAIN runs : Hand(s)' <=> Hand(s)
  BY DEF RunsGrow, Later, Hand
<1>5. WireOfTheLiving'
  <2> SUFFICES ASSUME NEW line \in ToSet(wire) PROVE Alive(line.run)' /\ Hand(line.run)'
    BY <1>1 DEF WireOfTheLiving
  <2>1. Alive(line.run) /\ Hand(line.run) /\ line.run \in DOMAIN runs
    BY DEF RecordInv, WireOfTheLiving, LinesTrue, TrueOf
  <2> QED
    BY <1>4, <2>1
<1>6. ASSUME NEW s \in DOMAIN runs PROVE KeptOf(s)'
  <2>1. KeptOf(s)
    BY DEF RecordInv, Kept
  <2>2. \A S : Present(runs[s], s, S) => Present(runs'[s], s, S)
    BY DEF Present
  <2> QED
    BY <1>1, <1>4, <2>1, <2>2 DEF KeptOf
<1> QED
  BY <1>3, <1>5, <1>6 DEF RecordInv, Kept

\* A step is performed.
LEMMA PerformRecords ==
  ASSUME IInv, IInv', RecordInv, NEW r \in DOMAIN runs, NEW k \in DOMAIN runs[r].acted,
         Perform(r, k)
  PROVE  RecordInv'
<1> DEFINE old == runs[r]
<1>1. /\ InWave(r) /\ Alive(r) /\ clock' = clock /\ old.acted[k] = ""
  BY DEF Perform, Performs, InWave
<1>2. PICK outcome \in Outcomes :
        /\ runs' = [runs EXCEPT ![r].acted[k] = outcome]
        /\ IF old.job.note /\ k = 1 /\ outcome = "done"
           THEN Write(r, old.job, Line(r, "note", k, "", clock))
           ELSE UNCHANGED lines
  BY DEF Perform
<1> DEFINE a == [old.acted EXCEPT ![k] = outcome]
           new == [old EXCEPT !.acted = a]
           z == Line(r, "note", k, "", clock)
<1>3. runs' = [runs EXCEPT ![r] = new]
  BY <1>2
<1>4. /\ r \in Nat /\ clock \in Nat /\ old.announced \in Nat /\ old.ended \in Nat /\ old \in RunType
      /\ old.acted \in Seq(Outcomes \union {""}) /\ DOMAIN old.acted = 1..Len(old.acted)
      /\ Len(old.acted) \in Nat /\ RunSound(old, clock)
  BY RunTypes DEF IInv, RecordInv, RunsSound
<1>5. /\ k \in 1..old.announced /\ k \in Nat
  <2>1. k \in 1..old.announced
    BY <1>4 DEF RunSound
  <2> DEFINE m == old.announced
  <2>2. m \in Nat /\ k \in 1..m
    BY <1>4, <2>1
  <2> HIDE DEF m
  <2>3. k \in Nat
    BY <2>2
  <2> QED
    BY <2>1, <2>3
<1>6. /\ \A i \in 1..old.ended : i \in DOMAIN old.acted /\ i # k /\ old.acted[i] # ""
  <2>1. \A i \in 1..old.ended : old.acted[i] # ""
    BY <1>4 DEF RunSound
  <2> DEFINE m == old.announced  e == old.ended
  <2>2. e <= m /\ e \in Nat /\ m \in Nat /\ DOMAIN old.acted = 1..m
    BY <1>4 DEF RunSound
  <2> HIDE DEF e, m
  <2>3. \A i \in 1..e : i \in 1..m
    BY <2>2
  <2>4. \A i \in 1..old.ended : i \in DOMAIN old.acted
    BY <2>2, <2>3 DEF e
  <2> QED
    BY <1>1, <2>1, <2>4
<1>7. /\ Len(a) = Len(old.acted) /\ \A i \in DOMAIN old.acted : i # k => a[i] = old.acted[i]
  <2> DEFINE u == old.acted  T == Outcomes \union {""}
  <2>1. u \in Seq(T) /\ k \in 1..Len(u) /\ outcome \in T /\ DOMAIN u = 1..Len(u)
    BY <1>4
  <2>2. a = [u EXCEPT ![k] = outcome]
    OBVIOUS
  <2> HIDE DEF u, T, a
  <2>3. Len(a) = Len(u) /\ \A i \in 1..Len(u) : i # k => a[i] = u[i]
    BY <2>1, <2>2, ExceptSeq
  <2> QED
    BY <2>1, <2>3 DEF u
<1>8. /\ new.announced = old.announced /\ new.acted = a /\ new.job = old.job
      /\ new.began = old.began
      /\ new.ended = old.ended /\ new.ending = old.ending /\ new.took = old.took
      /\ new.alive = old.alive
  BY <1>4 DEF RunType
<1> HIDE DEF a, new
<1>9. Later(old, new)
  BY <1>6, <1>7, <1>8 DEF Later
<1>10. RunSound(new, clock)
  BY <1>4, <1>6, <1>7, <1>8 DEF RunSound
<1>11. CASE old.job.note /\ k = 1 /\ outcome = "done"
  <2>1. Write(r, old.job, z)
    BY <1>2, <1>11
  <2>2. z \in LineType
    BY <1>4, <1>5, LineTyped
  <2>3. z.run = r /\ z.ev = "note" /\ z.step = k
    BY DEF Line
  <2> HIDE DEF z
  <2>4. Says(z, new)
    BY <1>5, <1>8, <2>3 DEF Says
  <2>5. Adds(old, new, r, z)
    BY <1>8 DEF Adds, Present
  <2>6. Hand(r) => new.alive
    BY <1>1, <1>8 DEF Alive
  <2> QED
    BY <1>1, <1>3, <1>9, <1>10, <2>1, <2>2, <2>3, <2>4, <2>5, <2>6, OneWrites
<1>12. CASE ~(old.job.note /\ k = 1 /\ outcome = "done")
  <2>1. lines' = lines
    BY <1>2, <1>12
  <2>2. /\ RunsSound' /\ RunsGrow /\ runs'[r] = new /\ DOMAIN runs' = DOMAIN runs
        /\ \A s \in DOMAIN runs : s # r => runs'[s] = runs[s]
    BY <1>1, <1>3, <1>8, <1>9, <1>10, OneGoesOn DEF RecordInv, Alive
  <2>3. \A s \in DOMAIN runs :
          /\ (Alive(s)' <=> Alive(s)) /\ runs'[s].ending = runs[s].ending
          /\ runs'[s].announced = runs[s].announced /\ runs'[s].ended = runs[s].ended
    BY <1>8, <2>2 DEF Alive
  <2> QED
    BY <2>1, <2>2, <2>3, LinesStay
<1> QED
  BY <1>11, <1>12

\* Time passes.
LEMMA TickRecords ==
  ASSUME IInv, RecordInv, Tick
  PROVE  RecordInv'
<1>1. runs' = runs /\ lines' = lines /\ clock' = clock + 1 /\ InTime
  BY DEF Tick
<1>2. RunsGrow
  BY <1>1 DEF RunsGrow, Later
<1>3. ASSUME NEW r \in DOMAIN runs PROVE RunSound(runs[r], clock + 1)
  <2>1. RunSound(runs[r], clock)
    BY DEF RecordInv, RunsSound
  <2>2. runs[r].alive => clock + 1 <= runs[r].began + Limit
    <3>1. runs[r].alive => clock < runs[r].began + Limit
      BY <1>1 DEF InTime, Alive
    <3>2. clock \in Nat /\ runs[r].began \in Nat /\ Limit \in Nat
      BY RunTypes, LimitType DEF IInv
    <3> DEFINE b == runs[r].began
    <3>3. (clock < b + Limit) => (clock + 1 <= b + Limit)
      <4>1. clock \in Nat /\ b \in Nat /\ Limit \in Nat
        BY <3>2
      <4> HIDE DEF b
      <4> QED
        BY <4>1
    <3> QED
      BY <3>1, <3>3
  <2> QED
    BY <2>1, <2>2 DEF RunSound
<1>4. RunsSound'
  BY <1>1, <1>3 DEF RecordInv, RunsSound
<1> QED
  BY <1>1, <1>2, <1>4, LinesStay DEF Alive

\* Nothing happens.
LEMMA StutterRecords ==
  ASSUME IInv, RecordInv, UNCHANGED vars
  PROVE  RecordInv'
<1>1. runs' = runs /\ lines' = lines /\ clock' = clock
  BY DEF vars
<1>2. RunsGrow
  BY <1>1 DEF RunsGrow, Later
<1>3. RunsSound'
  BY <1>1 DEF RecordInv, RunsSound
<1> QED
  BY <1>1, <1>2, <1>3, LinesStay DEF Alive

\* A run comes to its end.
LEMMA CloseRecords ==
  ASSUME IInv, IInv', RecordInv, NEW r \in DOMAIN runs, Close(r)
  PROVE  RecordInv'
<1> DEFINE old == runs[r]
<1>1. Alive(r) /\ clock' = clock
  BY DEF Close
<1>2. PICK ending \in {"complete", "aborted"} :
        /\ runs' = [runs EXCEPT ![r].alive = FALSE, ![r].ending = ending, ![r].took = Took(r)]
        /\ IF Hand(r)
           THEN /\ wire' = <<>> /\ memory' = <<>>
                /\ disk' = disk \o memory \o wire \o <<Line(r, "run.end", 0, ending, Took(r))>>
                /\ unsynced' = unsynced
           ELSE Write(r, runs[r].job, Line(r, "run.end", 0, ending, Took(r)))
  BY DEF Close
<1> DEFINE took == Took(r)
           new == [old EXCEPT !.alive = FALSE, !.ending = ending, !.took = took]
           z == Line(r, "run.end", 0, ending, took)
<1>3. runs' = [runs EXCEPT ![r] = new]
  BY <1>2
<1>4. /\ r \in Nat /\ old \in RunType /\ RunSound(old, clock) /\ clock \in Nat /\ old.began \in Nat
      /\ old.began <= clock
  BY RunTypes DEF IInv, RecordInv, RunsSound, RunsInOrder, InOrder
<1>5. took \in Nat
  BY <1>4 DEF Took
<1>6. /\ new.announced = old.announced /\ new.acted = old.acted /\ new.job = old.job
      /\ new.began = old.began /\ new.ended = old.ended
      /\ new.ending = ending /\ new.took = took /\ new.alive = FALSE /\ old.ending = ""
      /\ ending # ""
  BY <1>1, <1>4 DEF RunType, RunSound, Alive
<1>7. /\ z \in LineType /\ z.run = r /\ z.ev = "run.end" /\ z.is = ending /\ z.time = took
  <2>1. z \in LineType
    BY <1>4, <1>5, LineTyped
  <2> QED
    BY <2>1 DEF Line
<1>8. ~Hand(r) => Write(r, runs[r].job, z)
  BY <1>2
<1>9. Hand(r) => /\ wire' = <<>> /\ memory' = <<>> /\ disk' = disk \o memory \o wire \o <<z>>
                 /\ unsynced' = unsynced
  BY <1>2
<1> HIDE DEF z, new, took
<1>10. Later(old, new)
  BY <1>6 DEF Later
<1>11. RunSound(new, clock)
  BY <1>4, <1>6 DEF RunSound
<1>12. Says(z, new)
  BY <1>6, <1>7 DEF Says
<1>13. Adds(old, new, r, z)
  <2>1. EndOf(z, r)
    BY <1>7 DEF EndOf
  <2> QED
    BY <1>6, <2>1 DEF Adds, Present
<1>14. CASE ~Hand(r)
  BY <1>1, <1>3, <1>7, <1>8, <1>10, <1>11, <1>12, <1>13, <1>14, OneWrites
<1>15. CASE Hand(r)
  <2>1. /\ RunsSound' /\ RunsGrow /\ runs'[r] = new /\ DOMAIN runs' = DOMAIN runs
        /\ \A s \in DOMAIN runs : s # r => runs'[s] = runs[s]
    BY <1>1, <1>3, <1>6, <1>10, <1>11, OneGoesOn DEF RecordInv
  <2>2. /\ \A line \in ToSet(Text) \union ToSet(wire) : TrueOf(line, runs')
        /\ Follow(Text, runs') /\ Follow(wire, runs')
        /\ GoBefore(ToSet(Text), ToSet(wire), runs')
    BY <2>1, StillInTurn DEF IInv
  <2>3. GoesLast(z, r)
    <3>1. TrueOf(z, runs')
      BY <1>7, <1>12, <2>1 DEF TrueOf
    <3>2. ASSUME NEW x \in ToSet(Text) \union ToSet(wire), x.run = r
          PROVE  x.ev # "run.end"
      BY <1>6, <3>2 DEF RecordInv, LinesTrue, TrueOf, Says
    <3>3. ASSUME NEW q \in DOMAIN runs', q > r
          PROVE  Overlap(runs'[r], runs'[q])
      <4>1. q \in DOMAIN runs /\ r < q
        BY <2>1, <3>3, RunTypes DEF IInv
      <4>2. Overlap(runs[r], runs[q])
        BY <1>1, <4>1 DEF RecordInv, RunsSound, Successive, Alive
      <4>3. Later(runs[r], runs'[r]) /\ Later(runs[q], runs'[q])
        BY <2>1, <4>1 DEF RunsGrow
      <4> QED
        BY <4>2, <4>3 DEF Later, Overlap
    <3> QED
      BY <1>7, <3>1, <3>2, <3>3 DEF GoesLast
  <2>4. \A x \in ToSet(Text) \union ToSet(wire) : Fits(x, z, runs')
    BY <1>4, <2>1, <2>3, LastFits DEF IInv
  <2> DEFINE T == LineType
             both == Text \o wire
  <2>5. Text \in Seq(T) /\ wire \in Seq(T) /\ z \in T
    BY <1>7, LinesTyped DEF IInv
  <2> HIDE DEF T
  <2>6. both \in Seq(T) /\ ToSet(both) = ToSet(Text) \union ToSet(wire) /\ Follow(both, runs')
    BY <2>2, <2>5, ConcatProperties, ConcatElements, FollowOn
  <2>7. disk' = both \o <<z>>
    BY <1>9, <1>15 DEF Text
  <2> HIDE DEF both
  <2>8. disk' = Append(both, z)
    BY <2>5, <2>6, <2>7, AppendIsConcat
  <2>9. disk' \in Seq(T) /\ ToSet(disk') = ToSet(both) \union {z}
    BY <2>5, <2>6, <2>8, OneMore
  <2>10. Follow(disk', runs')
    <3>1. GoBefore(ToSet(both), {z}, runs')
      BY <2>4, <2>6 DEF GoBefore
    <3> QED
      BY <2>5, <2>6, <2>8, <3>1, OneMoreInTurn
  <2>11. Text' = disk' /\ ToSet(wire') = {} /\ wire' = <<>>
    <3>1. disk' \o <<>> = disk'
      BY <2>9, ConcatEmptySeq
    <3>2. Text' = disk' \o memory'
      BY DEF Text
    <3>3. wire' = <<>> /\ memory' = <<>>
      BY <1>9, <1>15
    <3>4. ToSet(<<>>) = {}
      BY DEF ToSet
    <3> QED
      BY <3>1, <3>2, <3>3, <3>4
  <2>12. LinesTrue'
    <3>1. TrueOf(z, runs')
      BY <2>3 DEF GoesLast
    <3>2. \A line \in ToSet(Text') \union ToSet(wire') : TrueOf(line, runs')
      BY <2>2, <2>6, <2>9, <2>11, <3>1
    <3> QED
      BY <3>2 DEF LinesTrue
  <2>13. LinesInTurn' /\ WireOfTheLiving'
    <3>1. Follow(<<>>, runs')
      BY DEF Follow
    <3>2. GoBefore(ToSet(Text'), ToSet(wire'), runs')
      BY <2>11 DEF GoBefore
    <3>3. Follow(Text', runs') /\ Follow(wire', runs')
      BY <2>10, <2>11, <3>1
    <3> QED
      BY <2>11, <3>2, <3>3 DEF LinesInTurn, WireOfTheLiving
  <2>14. ToSet(disk) \subseteq ToSet(disk') /\ ToSet(Text) \union ToSet(wire) \subseteq ToSet(disk')
         /\ z \in ToSet(disk')
    BY <2>6, <2>9, LinesTyped DEF IInv
  <2>15. ASSUME NEW s \in DOMAIN runs PROVE KeptOf(s)'
    <3>1. KeptOf(s) /\ (Hand(s)' <=> Hand(s)) /\ (s \in unsynced' <=> s \in unsynced)
      BY <1>9, <1>15, <2>1 DEF RecordInv, Kept, RunsGrow, Later, Hand
    <3>2. CASE s = r
      <4>1. Present(runs[r], r, ToSet(Text) \union ToSet(wire))
        BY <1>1, <1>15, <3>1, <3>2 DEF KeptOf
      <4>2. Present(runs[r], r, ToSet(disk'))
        BY <2>14, <4>1, MorePresent
      <4>3. Present(new, r, ToSet(disk') \union {z})
        BY <1>13, <4>2 DEF Adds
      <4>4. Present(runs'[r], r, ToSet(disk'))
        BY <2>1, <2>14, <4>3, MorePresent
      <4> QED
        BY <1>6, <1>15, <2>1, <3>1, <3>2, <4>4 DEF KeptOf, Alive
    <3>3. CASE s # r
      <4>1. runs'[s] = runs[s]
        BY <2>1, <3>3
      <4>2. ToSet(Text) \union ToSet(wire) \subseteq ToSet(Text') \union ToSet(wire')
        BY <2>11, <2>14
      <4> QED
        BY <2>14, <3>1, <4>1, <4>2, MorePresent DEF KeptOf, Alive
    <3> QED
      BY <3>2, <3>3
  <2> QED
    BY <2>1, <2>12, <2>13, <2>15 DEF RecordInv, Kept
<1> QED
  BY <1>14, <1>15

\* A run starts.
LEMMA OpenRecords ==
  ASSUME IInv, IInv', RecordInv, NEW job \in Jobs, Open(job)
  PROVE  RecordInv'
<1> PICK n : n = Len(runs) + 1
  OBVIOUS
<1> DEFINE c == clock + 1
           new == [job |-> job, began |-> c, alive |-> TRUE, wave |-> 0,
                   announced |-> 0, acted |-> <<>>, ended |-> 0, ending |-> "", took |-> 0]
           z == Line(n, "run.start", 0, job.verb, c)
           T == RunType
<1>1. /\ clock' = c /\ InTime /\ runs' = Append(runs, new) /\ Write(n, job, z)
      /\ \A r \in DOMAIN runs : Alive(r) => MayRunWith(job, runs[r].job)
  BY DEF Open
<1>2. runs \in Seq(T) /\ clock \in Nat /\ new \in T
  <2>1. runs \in Seq(T) /\ clock \in Nat
    BY NumbersAssumption DEF IInv, TypeOK
  <2>2. c \in Nat
    BY <2>1
  <2> HIDE DEF c
  <2>3. new \in RunType
    BY <2>2 DEF RunType
  <2> QED
    BY <2>1, <2>3
<1>3. /\ new.job = job /\ new.began = c /\ new.alive /\ new.announced = 0
      /\ new.acted = <<>> /\ new.ended = 0 /\ new.ending = ""
  OBVIOUS
<1> HIDE DEF T, new
<1>4. /\ Len(runs) \in Nat /\ DOMAIN runs = 1..Len(runs)
      /\ runs' \in Seq(T) /\ Len(runs') = n /\ DOMAIN runs' = 1..Len(runs')
      /\ runs'[n] = new /\ \A s \in 1..Len(runs) : runs'[s] = runs[s]
  BY <1>1, <1>2, AppendProperties, LenProperties
<1>5. /\ n \in Nat /\ n \in DOMAIN runs' /\ n \notin DOMAIN runs /\ DOMAIN runs \subseteq DOMAIN runs'
      /\ DOMAIN runs' \subseteq DOMAIN runs \union {n}
      /\ (\A s \in DOMAIN runs : s < n /\ s \in Nat) /\ (\A q \in DOMAIN runs' : ~(q > n))
  <2> DEFINE m == Len(runs)
  <2>1. m \in Nat /\ DOMAIN runs = 1..m /\ DOMAIN runs' = 1..n /\ n = m + 1
    BY <1>4
  <2> HIDE DEF m
  <2> QED
    BY <2>1
<1>6. \A s \in DOMAIN runs : runs'[s] = runs[s]
  BY <1>4
<1>7. RunsGrow
  <2>1. \A a : Later(a, a)
    BY DEF Later
  <2> QED
    BY <1>5, <1>6, <2>1 DEF RunsGrow
<1>8. c \in Nat /\ c <= c + Limit
  BY <1>2, LimitType
<1>9. job \in JobType
  BY JobsAssumption
<1>10. z \in LineType /\ z.run = n /\ z.ev = "run.start" /\ z.step = 0 /\ z.is = job.verb /\ z.time = c
  <2>1. job.verb \in {"", "conserve", "sleep", "complete", "aborted"} \union Undoers \union Outcomes
    BY <1>9 DEF JobType
  <2> HIDE DEF c
  <2>2. z \in LineType
    BY <1>5, <1>8, <2>1, LineTyped
  <2> QED
    BY <2>2 DEF Line
<1>11. ASSUME NEW s \in DOMAIN runs
       PROVE  /\ runs[s].began < c
              /\ Alive(s) => c <= runs[s].began + Limit /\ c - runs[s].began <= Limit
  <2> DEFINE b == runs[s].began
  <2>1. b \in Nat /\ b <= clock /\ clock \in Nat /\ Limit \in Nat
    BY <1>11, RunTypes, LimitType DEF IInv, RunsInOrder, InOrder
  <2>2. Alive(s) => clock < b + Limit
    BY <1>1 DEF InTime
  <2> HIDE DEF b
  <2>3. b < c /\ (clock < b + Limit => c <= b + Limit /\ c - b <= Limit)
    BY <2>1
  <2> QED
    BY <2>2, <2>3 DEF b
<1> HIDE DEF z, c
<1>12. RunsSound'
  <2>1. RunSound(new, c)
    <3>1. Len(<<>>) = 0 /\ 1..0 = {} /\ 0 <= 0
      OBVIOUS
    <3>2. new.announced = Len(new.acted)
      BY <1>3, <3>1
    <3>3. new.ended <= new.announced
      BY <1>3, <3>1
    <3> QED
      BY <1>3, <1>8, <3>1, <3>2, <3>3 DEF RunSound
  <2>2. ASSUME NEW s \in DOMAIN runs PROVE RunSound(runs'[s], c)
    <3>1. RunSound(runs[s], clock)
      BY DEF RecordInv, RunsSound
    <3> QED
      BY <1>6, <1>11, <3>1 DEF RunSound, Alive
  <2>3. ASSUME NEW s \in DOMAIN runs' PROVE RunSound(runs'[s], clock')
    BY <1>1, <1>4, <1>5, <2>1, <2>2
  <2>4. ASSUME NEW s \in DOMAIN runs PROVE Successive(runs[s], new)
    <3>1. Alive(s) => job.verb \in {"conserve", "sleep"} /\ runs[s].job.verb \in {"conserve", "sleep"}
      BY <1>1 DEF MayRunWith
    <3>2. Alive(s) => Overlap(runs[s], new)
      BY <1>3, <1>11, <3>1 DEF Overlap, Undoers
    <3> QED
      BY <1>3, <1>11, <3>2 DEF Successive, Alive
  <2>5. ASSUME NEW s \in DOMAIN runs', NEW q \in DOMAIN runs', s < q
        PROVE  Successive(runs'[s], runs'[q])
    <3>1. s \in DOMAIN runs
      BY <1>5, <2>5
    <3>2. CASE q = n
      BY <1>4, <1>6, <2>4, <3>1, <3>2
    <3>3. CASE q \in DOMAIN runs
      BY <1>6, <2>5, <3>1, <3>3 DEF RecordInv, RunsSound
    <3> QED
      BY <1>5, <3>2, <3>3
  <2> QED
    BY <2>3, <2>5 DEF RunsSound
<1>13. GoesLast(z, n)
  <2>1. TrueOf(z, runs')
    BY <1>3, <1>4, <1>5, <1>10 DEF TrueOf, Says
  <2>2. \A x \in ToSet(Text) \union ToSet(wire) : x.run # n
    BY <1>5 DEF RecordInv, LinesTrue, TrueOf
  <2> QED
    BY <1>5, <1>10, <2>1, <2>2 DEF GoesLast
<1>14. Hand(n)' => Alive(n)' /\ (n \in DOMAIN runs => Alive(n))
  BY <1>3, <1>4, <1>5 DEF Alive
<1>15. \A S : (n \in DOMAIN runs => Present(runs[n], n, S)) => Present(runs'[n], n, S \union {z})
  <2>1. StartOf(z, n)
    BY <1>10 DEF StartOf
  <2>2. 1..0 = {}
    OBVIOUS
  <2> QED
    BY <1>3, <1>4, <2>1, <2>2 DEF Present
<1>16. Write(n, runs'[n].job, z)
  BY <1>1, <1>3, <1>4
<1> QED
  BY <1>5, <1>6, <1>7, <1>10, <1>12, <1>13, <1>14, <1>15, <1>16, WriteRecords

\* A line is passed on: the oldest of those on their way.
LEMMA PassOnRecords ==
  ASSUME IInv, RecordInv, PassOn
  PROVE  RecordInv'
<1> DEFINE T == LineType
           h == Head(wire)
           t == Tail(wire)
<1>1. /\ wire # <<>> /\ memory' = Append(memory, h) /\ wire' = t
      /\ clock' = clock /\ runs' = runs /\ disk' = disk /\ unsynced' = unsynced
  BY DEF PassOn
<1>2. /\ wire \in Seq(T) /\ memory \in Seq(T) /\ disk \in Seq(T) /\ Text \in Seq(T)
  BY LinesTyped DEF IInv
<1>3. /\ Follow(Text, runs) /\ Follow(wire, runs)
      /\ GoBefore(ToSet(Text), ToSet(wire), runs)
  BY DEF RecordInv, LinesInTurn
<1> HIDE DEF T
<1>4. /\ h \in ToSet(wire) /\ t \in Seq(T) /\ h \in T /\ ToSet(wire) = {h} \union ToSet(t)
      /\ Follow(t, runs) /\ GoBefore({h}, ToSet(t), runs)
  BY <1>1, <1>2, <1>3, FirstOfAll
<1> HIDE DEF h, t
<1>5. Text' = Append(Text, h)
  <2> DEFINE one == <<h>>
  <2>1. one \in Seq(T)
    BY <1>4
  <2>2. Append(memory, h) = memory \o one
    BY <1>2, <1>4, AppendIsConcat
  <2>3. Append(Text, h) = Text \o one
    BY <1>2, <1>4, AppendIsConcat
  <2> HIDE DEF one
  <2>4. (disk \o memory) \o one = disk \o (memory \o one)
    <3>1. disk \in Seq(T) /\ memory \in Seq(T)
      BY <1>2
    <3> QED
      BY <2>1, <3>1, ConcatAssociative
  <2>5. Text' = disk' \o memory'
    BY DEF Text
  <2> QED
    BY <1>1, <2>2, <2>3, <2>4, <2>5 DEF Text
<1>6. ToSet(Text') = ToSet(Text) \union {h} /\ Follow(Text', runs)
  <2>1. ToSet(Append(Text, h)) = ToSet(Text) \union {h}
    BY <1>2, <1>4, OneMore
  <2>2. GoBefore(ToSet(Text), {h}, runs)
    BY <1>3, <1>4 DEF GoBefore
  <2>3. Follow(Append(Text, h), runs)
    BY <1>2, <1>3, <1>4, <2>2, OneMoreInTurn
  <2> QED
    BY <1>5, <2>1, <2>3
<1>7. ToSet(Text') \union ToSet(wire') = ToSet(Text) \union ToSet(wire)
  BY <1>1, <1>4, <1>6
<1>8. LinesTrue'
  BY <1>1, <1>7 DEF RecordInv, LinesTrue
<1>9. LinesInTurn'
  <2>1. GoBefore(ToSet(Text'), ToSet(wire'), runs)
    BY <1>1, <1>3, <1>4, <1>6 DEF GoBefore
  <2> QED
    BY <1>1, <1>4, <1>6, <2>1 DEF LinesInTurn
<1>10. WireOfTheLiving'
  BY <1>1, <1>4 DEF RecordInv, WireOfTheLiving, Alive, Hand
<1>11. Kept'
  BY <1>1, <1>7 DEF RecordInv, Kept, KeptOf, Alive, Hand
<1>12. RunsSound'
  BY <1>1 DEF RecordInv, RunsSound
<1> QED
  BY <1>8, <1>9, <1>10, <1>11, <1>12 DEF RecordInv

\* The power goes: of what was not on the disk, the oldest may have been.
LEMMA PowerRecords ==
  ASSUME IInv, IInv', RecordInv, PowerGoes
  PROVE  RecordInv'
<1> DEFINE T == LineType
<1>1. PICK k \in 0..Len(memory) : disk' = disk \o SubSeq(memory, 1, k)
  BY DEF PowerGoes
<1>2. /\ runs' = [r \in DOMAIN runs |-> [runs[r] EXCEPT !.alive = FALSE]]
      /\ memory' = <<>> /\ wire' = <<>> /\ clock' = clock /\ unsynced' = unsynced
  BY DEF PowerGoes, AllEnd
<1>3. /\ memory \in Seq(T) /\ disk \in Seq(T) /\ Text \in Seq(T)
      /\ ToSet(Text) = ToSet(disk) \union ToSet(memory)
  BY LinesTyped DEF IInv
<1> HIDE DEF T
<1> DEFINE p == SubSeq(memory, 1, k)
           m == Len(disk)
<1>4. /\ p \in Seq(T) /\ Len(p) = k /\ \A i \in 1..k : p[i] = memory[i]
  <2>1. Len(memory) \in Nat
    BY <1>3, LenProperties
  <2>2. k \in Int /\ k \in Nat /\ \A i \in 1..k : i \in 1..Len(memory)
    BY <2>1
  <2>3. \A i \in 1..k : memory[i] \in T
    BY <1>3, <2>2, ElementOfSeq
  <2>4. /\ p \in Seq(T) /\ Len(p) = IF 1 <= k THEN k - 1 + 1 ELSE 0
        /\ \A i \in 1..(k - 1 + 1) : p[i] = memory[1 + i - 1]
    BY <2>2, <2>3, SubSeqProperties
  <2> QED
    BY <2>2, <2>4
<1> HIDE DEF p
<1>5. /\ m \in Nat /\ Len(memory) \in Nat /\ DOMAIN Text = 1..(m + Len(memory))
      /\ \A i \in 1..(m + Len(memory)) : Text[i] = IF i <= m THEN disk[i] ELSE memory[i - m]
  <2>1. Len(Text) = m + Len(memory) /\ m \in Nat /\ Len(memory) \in Nat
        /\ \A i \in 1..(m + Len(memory)) : Text[i] = IF i <= m THEN disk[i] ELSE memory[i - m]
    BY <1>3, ConcatProperties, LenProperties DEF Text
  <2> QED
    BY <1>3, <2>1, LenProperties
<1>6. /\ disk' \in Seq(T) /\ ToSet(disk') = ToSet(disk) \union ToSet(p)
      /\ DOMAIN disk' = 1..(m + k)
      /\ \A i \in 1..(m + k) : disk'[i] = IF i <= m THEN disk[i] ELSE p[i - m]
  <2>1. disk' = disk \o p
    BY <1>1 DEF p
  <2>2. disk' \in Seq(T) /\ Len(disk') = m + k
        /\ \A i \in 1..(m + k) : disk'[i] = IF i <= m THEN disk[i] ELSE p[i - m]
    BY <1>3, <1>4, <2>1, ConcatProperties
  <2>3. ToSet(disk') = ToSet(disk) \union ToSet(p)
    BY <1>3, <1>4, <2>1, ConcatElements
  <2> QED
    BY <2>2, <2>3, LenProperties
<1>7. ASSUME NEW i \in DOMAIN disk' PROVE i \in DOMAIN Text /\ disk'[i] = Text[i]
  <2> DEFINE c == Len(memory)
  <2>1. k \in 0..c /\ c \in Nat /\ m \in Nat /\ i \in 1..(m + k)
    BY <1>5, <1>6
  <2> HIDE DEF c, m
  <2>2. i \in 1..(m + c) /\ (~(i <= m) => i - m \in 1..k)
    BY <2>1
  <2> QED
    BY <1>4, <1>5, <1>6, <2>1, <2>2 DEF c
<1>8. Text' = disk' /\ ToSet(wire') = {}
  <2>1. disk' \o <<>> = disk'
    BY <1>6, ConcatEmptySeq
  <2>2. Text' = disk' \o memory'
    BY DEF Text
  <2>3. ToSet(<<>>) = {}
    BY DEF ToSet
  <2> QED
    BY <1>2, <2>1, <2>2, <2>3
<1>9. /\ DOMAIN runs' = DOMAIN runs
      /\ \A r \in DOMAIN runs :
           /\ ~runs'[r].alive /\ runs'[r].job = runs[r].job /\ runs'[r].began = runs[r].began
           /\ runs'[r].announced = runs[r].announced /\ runs'[r].acted = runs[r].acted
           /\ runs'[r].ended = runs[r].ended /\ runs'[r].ending = runs[r].ending
           /\ runs'[r].took = runs[r].took
  <2>1. ASSUME NEW r \in DOMAIN runs
        PROVE  /\ ~runs'[r].alive /\ runs'[r].job = runs[r].job /\ runs'[r].began = runs[r].began
               /\ runs'[r].announced = runs[r].announced /\ runs'[r].acted = runs[r].acted
               /\ runs'[r].ended = runs[r].ended /\ runs'[r].ending = runs[r].ending
               /\ runs'[r].took = runs[r].took
    <3> DEFINE old == runs[r]
    <3>1. old \in RunType /\ runs'[r] = [old EXCEPT !.alive = FALSE]
      BY <1>2, RunTypes DEF IInv
    <3> HIDE DEF old
    <3>2. LET new == [old EXCEPT !.alive = FALSE]
          IN  /\ ~new.alive /\ new.job = old.job /\ new.began = old.began
              /\ new.announced = old.announced /\ new.acted = old.acted
              /\ new.ended = old.ended /\ new.ending = old.ending /\ new.took = old.took
      BY <3>1 DEF RunType
    <3> QED
      BY <3>1, <3>2 DEF old
  <2>2. DOMAIN runs' = DOMAIN runs
    BY <1>2
  <2> QED
    BY <2>1, <2>2
<1>10. RunsGrow
  BY <1>9 DEF RunsGrow, Later
<1>11. RunsSound'
  <2>1. ASSUME NEW r \in DOMAIN runs PROVE RunSound(runs'[r], clock')
    <3>1. RunSound(runs[r], clock)
      BY DEF RecordInv, RunsSound
    <3> QED
      BY <1>9, <3>1 DEF RunSound
  <2>2. ASSUME NEW s \in DOMAIN runs, NEW q \in DOMAIN runs, s < q
        PROVE  Successive(runs'[s], runs'[q])
    <3>1. Successive(runs[s], runs[q])
      BY <2>2 DEF RecordInv, RunsSound
    <3> QED
      BY <1>9, <3>1 DEF Successive
  <2> QED
    BY <1>9, <2>1, <2>2 DEF RunsSound
<1>12. /\ \A line \in ToSet(Text) : TrueOf(line, runs')
       /\ Follow(Text, runs')
  BY <1>10, StillInTurn DEF IInv
<1>13. ToSet(disk') \subseteq ToSet(Text) /\ ToSet(disk) \subseteq ToSet(disk')
  BY <1>6, <1>7 DEF ToSet
<1>14. LinesTrue' /\ WireOfTheLiving'
  <2>1. \A line \in ToSet(Text') \union ToSet(wire') : TrueOf(line, runs')
    BY <1>8, <1>12, <1>13
  <2> QED
    BY <1>8, <2>1 DEF LinesTrue, WireOfTheLiving
<1>15. LinesInTurn'
  <2>1. Follow(disk', runs')
    BY <1>7, <1>12 DEF Follow
  <2>2. Follow(<<>>, runs')
    BY DEF Follow
  <2>3. Follow(Text', runs') /\ Follow(wire', runs')
    BY <1>2, <1>8, <2>1, <2>2
  <2>4. GoBefore(ToSet(Text'), ToSet(wire'), runs')
    BY <1>8 DEF GoBefore
  <2> QED
    BY <2>3, <2>4 DEF LinesInTurn
<1>16. ASSUME NEW r \in DOMAIN runs PROVE KeptOf(r)'
  <2>1. KeptOf(r) /\ (Hand(r)' <=> Hand(r)) /\ ~Alive(r)' /\ runs'[r].ending = runs[r].ending
    BY <1>9 DEF RecordInv, Kept, Hand, Alive
  <2>2. \A S : Present(runs[r], r, S) => Present(runs'[r], r, S)
    BY <1>9 DEF Present
  <2> QED
    BY <1>2, <1>13, <2>1, <2>2, MorePresent DEF KeptOf
<1> QED
  BY <1>9, <1>11, <1>14, <1>15, <1>16 DEF RecordInv, Kept

-----------------------------------------------------------------------------
\* A host where nothing has run has a sound record.
LEMMA InitRecordInv == Init => RecordInv
<1> SUFFICES ASSUME Init PROVE RecordInv
  OBVIOUS
<1>1. /\ runs = <<>> /\ wire = <<>> /\ memory = <<>> /\ disk = <<>>
  BY DEF Init
<1>2. DOMAIN <<>> = {} /\ <<>> \o <<>> = <<>> /\ ToSet(<<>>) = {}
  BY DEF ToSet
<1>3. Text = <<>> /\ ToSet(Text) = {} /\ ToSet(wire) = {} /\ DOMAIN runs = {}
      /\ DOMAIN Text = {} /\ DOMAIN wire = {}
  BY <1>1, <1>2 DEF Text
<1> QED
  BY <1>3 DEF RecordInv, RunsSound, LinesTrue, LinesInTurn, Follow, GoBefore, WireOfTheLiving, Kept

\* Every step keeps it.
LEMMA StepRecordInv == IInv /\ RecordInv /\ [Next]_vars => RecordInv'
<1> SUFFICES ASSUME IInv, RecordInv, [Next]_vars PROVE RecordInv'
  OBVIOUS
<1>1. IInv'
  BY StepIInv
<1>2. ASSUME NEW job \in Jobs, Open(job) PROVE RecordInv'
  BY <1>1, <1>2, OpenRecords
<1>3. ASSUME NEW r \in DOMAIN runs, Run(r) PROVE RecordInv'
  BY <1>1, <1>3, StartRecords, PerformRecords, EndRecords, CloseRecords DEF Run
<1>4. CASE PassOn
  BY <1>4, PassOnRecords
<1>5. CASE Tick
  BY <1>5, TickRecords
<1>6. CASE PowerGoes
  BY <1>1, <1>6, PowerRecords
<1>7. CASE UNCHANGED vars
  BY <1>7, StutterRecords
<1> QED
  BY <1>2, <1>3, <1>4, <1>5, <1>6, <1>7 DEF Next

\* The record is sound: every line is true of its run, lines are in the order in which
\* they were written but for those of runs that overlapped, and every run at work, and
\* every one whose end came before the power went, has all of its lines.
THEOREM RecordIsSound == Spec => [](IInv /\ RecordInv)
  BY InitIInv, StepIInv, InitRecordInv, StepRecordInv, PTL DEF Spec

-----------------------------------------------------------------------------
(***************************************************************************)
(* Reading: what one line adds to the run it is of.                        *)
(***************************************************************************)
Words == {"", "conserve", "sleep", "complete", "aborted"} \union Undoers \union Outcomes
StepRead == [action : BOOLEAN, outcome : Words, finished : BOOLEAN]
ReadType == [id : Nat, verb : Words, began : Int, took : Nat, ending : Words, steps : Seq(StepRead)]

\* A line that the program writes: steps count from one.
Proper(line) == line \in LineType /\ (line.ev = "step.start" => line.step # 0)

LEMMA ProperFields ==
  ASSUME NEW line, Proper(line)
  PROVE  /\ line.run \in Nat /\ line.step \in Nat /\ line.time \in Nat /\ line.is \in Words
         /\ line.ev \in {"run.start", "step.start", "note", "step.end", "run.end"}
         /\ line.ev = "step.start" => line.step # 0
BY DEF Proper, LineType, Words

LEMMA ReadFields ==
  ASSUME NEW run \in ReadType
  PROVE  /\ run.id \in Nat /\ run.verb \in Words /\ run.began \in Int /\ run.took \in Nat
         /\ run.ending \in Words /\ run.steps \in Seq(StepRead)
         /\ Len(run.steps) \in Nat /\ DOMAIN run.steps = 1..Len(run.steps)
         /\ \A k \in DOMAIN run.steps : run.steps[k] \in StepRead
<1>1. /\ run.id \in Nat /\ run.verb \in Words /\ run.began \in Int /\ run.took \in Nat
      /\ run.ending \in Words /\ run.steps \in Seq(StepRead)
  BY DEF ReadType
<1> HIDE DEF StepRead
<1>2. Len(run.steps) \in Nat /\ DOMAIN run.steps = 1..Len(run.steps)
      /\ \A k \in DOMAIN run.steps : run.steps[k] \in StepRead
  <2> DEFINE s == run.steps  T == StepRead
  <2>1. s \in Seq(T)
    BY <1>1
  <2> HIDE DEF s, T
  <2>2. Len(s) \in Nat /\ DOMAIN s = 1..Len(s) /\ \A k \in DOMAIN s : s[k] \in T
    BY <2>1, LenProperties, ElementOfSeq
  <2> QED
    BY <2>2 DEF s, T
<1> QED
  BY <1>1, <1>2

\* A run that is the same but for its steps.
SameBut(new, run, steps) ==
  /\ new \in ReadType /\ new.id = run.id /\ new.verb = run.verb /\ new.began = run.began
  /\ new.took = run.took /\ new.ending = run.ending /\ new.steps = steps

LEMMA ToldRunStart ==
  ASSUME NEW run \in ReadType, NEW line, Proper(line), line.ev = "run.start"
  PROVE  LET new == Told(run, line)
         IN  /\ new \in ReadType /\ new.id = run.id /\ new.verb = line.is /\ new.began = line.time
             /\ new.took = run.took /\ new.ending = run.ending /\ new.steps = run.steps
<1>1. line.is \in Words /\ line.time \in Int
  BY ProperFields
<1>2. Told(run, line) = [run EXCEPT !.began = line.time, !.verb = line.is]
  BY DEF Told
<1> QED
  BY <1>1, <1>2 DEF ReadType

LEMMA ToldRunEnd ==
  ASSUME NEW run \in ReadType, NEW line, Proper(line), line.ev = "run.end"
  PROVE  LET new == Told(run, line)
         IN  /\ new \in ReadType /\ new.id = run.id /\ new.verb = run.verb /\ new.began = run.began
             /\ new.took = line.time /\ new.ending = line.is /\ new.steps = run.steps
<1>1. line.is \in Words /\ line.time \in Nat
  BY ProperFields
<1>2. Told(run, line) = [run EXCEPT !.ending = line.is, !.took = line.time]
  BY DEF Told
<1> QED
  BY <1>1, <1>2 DEF ReadType

\* New steps for a run.
LEMMA StepsSet ==
  ASSUME NEW run \in ReadType, NEW steps \in Seq(StepRead)
  PROVE  SameBut([run EXCEPT !.steps = steps], run, steps)
BY DEF ReadType, SameBut

\* A step is started, as the last of them or again, and none else.
OneStarted(steps, old, started) ==
  /\ started \in DOMAIN steps /\ DOMAIN old \subseteq DOMAIN steps
  /\ steps[started].action /\ steps[started].outcome = ""
  /\ \A k \in DOMAIN old : k # started => steps[k] = old[k]
  /\ \A k \in DOMAIN steps : k # started /\ k \notin DOMAIN old =>
       ~steps[k].action /\ steps[k].outcome = ""

LEMMA ToldStepStart ==
  ASSUME NEW run \in ReadType, NEW line, Proper(line), line.ev = "step.start"
  PROVE  \E steps \in Seq(StepRead) :
           SameBut(Told(run, line), run, steps) /\ OneStarted(steps, run.steps, line.step)
<1> DEFINE s == run.steps
           m == Len(s)
           e == line.step
           n == IF m < e THEN e ELSE m
           started == [NoStep EXCEPT !.action = TRUE]
           steps == [k \in 1..n |-> IF k = e THEN started ELSE IF k <= m THEN s[k] ELSE NoStep]
<1>1. /\ m \in Nat /\ DOMAIN s = 1..m /\ \A k \in 1..m : s[k] \in StepRead
      /\ e \in Nat /\ e # 0
  BY ReadFields, ProperFields
<1>2. /\ NoStep \in StepRead /\ started \in StepRead
      /\ started.action /\ started.outcome = "" /\ ~NoStep.action /\ NoStep.outcome = ""
  BY DEF NoStep, StepRead, Words
<1>3. Told(run, line) = [run EXCEPT !.steps = steps]
  BY DEF Told
<1> HIDE DEF s, m, e, started
<1>4. n \in Nat /\ e \in 1..n /\ 1..m \subseteq 1..n /\ \A k \in 1..n : k <= m <=> k \in 1..m
  BY <1>1
<1> HIDE DEF n
<1>5. steps \in [1..n -> StepRead]
  BY <1>1, <1>2, <1>4
<1>6. DOMAIN steps = 1..n /\ steps[e] = started
      /\ \A k \in 1..n : k # e => steps[k] = IF k \in 1..m THEN s[k] ELSE NoStep
  BY <1>4
<1> HIDE DEF steps
<1>7. /\ \A k \in 1..m : k # e => steps[k] = s[k]
      /\ \A k \in 1..n : k # e /\ k \notin 1..m => ~steps[k].action /\ steps[k].outcome = ""
      /\ steps[e].action /\ steps[e].outcome = ""
  BY <1>2, <1>4, <1>6
<1>8. steps \in Seq(StepRead)
  BY <1>4, <1>5
<1>9. SameBut(Told(run, line), run, steps)
  BY <1>3, <1>8, StepsSet
<1>10. OneStarted(steps, s, e)
  BY <1>1, <1>4, <1>6, <1>7 DEF OneStarted
<1> QED
  BY <1>8, <1>9, <1>10 DEF s, e

LEMMA ToldStepEnd ==
  ASSUME NEW run \in ReadType, NEW line, Proper(line), line.ev = "step.end"
  PROVE  \E steps \in Seq(StepRead) :
           /\ SameBut(Told(run, line), run, steps)
           /\ DOMAIN steps = DOMAIN run.steps
           /\ \A k \in DOMAIN steps :
                steps[k] = IF k = line.step
                           THEN [run.steps[k] EXCEPT !.outcome = line.is, !.finished = TRUE]
                           ELSE run.steps[k]
<1> DEFINE s == run.steps
           e == line.step
<1>1. /\ s \in Seq(StepRead) /\ Len(s) \in Nat /\ DOMAIN s = 1..Len(s)
      /\ (\A k \in DOMAIN s : s[k] \in StepRead) /\ e \in Nat /\ line.is \in Words
  BY ReadFields, ProperFields
<1>2. CASE e \notin DOMAIN s
  <2>1. Told(run, line) = run
    BY <1>2 DEF Told
  <2>2. SameBut(run, run, s)
    BY <1>1 DEF SameBut
  <2> QED
    BY <1>1, <1>2, <2>1, <2>2
<1>3. CASE e \in DOMAIN s
  <2> DEFINE after == [s[e] EXCEPT !.outcome = line.is, !.finished = TRUE]
             steps == [s EXCEPT ![e] = after]
  <2>1. Told(run, line) = [run EXCEPT !.steps[e] = AfterLine(@, line)]
    BY <1>3 DEF Told
  <2>2. AfterLine(s[e], line) = after
    BY DEF AfterLine
  <2>3. Told(run, line) = [run EXCEPT !.steps = steps]
    BY <2>1, <2>2
  <2>4. after \in StepRead
    BY <1>1, <1>3 DEF StepRead
  <2> HIDE DEF s, e, after
  <2>5. DOMAIN steps = DOMAIN s /\ \A k \in DOMAIN s : steps[k] = IF k = e THEN after ELSE s[k]
    BY <1>1, <1>3
  <2>6. steps \in Seq(StepRead)
    <3> DEFINE T == StepRead
    <3>1. s \in Seq(T) /\ e \in 1..Len(s) /\ after \in T
      BY <1>1, <1>3, <2>4
    <3> HIDE DEF T
    <3>2. steps \in Seq(T)
      BY <3>1, ExceptSeq
    <3> QED
      BY <3>2 DEF T
  <2> HIDE DEF steps
  <2>7. SameBut(Told(run, line), run, steps)
    BY <2>3, <2>6, StepsSet
  <2> QED
    BY <2>5, <2>6, <2>7 DEF s, e, after
<1> QED
  BY <1>2, <1>3

LEMMA ToldNote ==
  ASSUME NEW run \in ReadType, NEW line, Proper(line), line.ev = "note"
  PROVE  Told(run, line) = run
<1> DEFINE s == run.steps
           e == line.step
<1>1. CASE e \notin DOMAIN s
  BY <1>1 DEF Told
<1>2. CASE e \in DOMAIN s
  <2>1. Told(run, line) = [run EXCEPT !.steps[e] = AfterLine(@, line)]
    BY <1>2 DEF Told
  <2>2. AfterLine(s[e], line) = s[e]
    BY DEF AfterLine
  <2>3. Told(run, line) = [run EXCEPT !.steps = [s EXCEPT ![e] = s[e]]]
    BY <2>1, <2>2
  <2>4. [s EXCEPT ![e] = s[e]] = s
    <3>1. s \in Seq(StepRead) /\ s \in [1..Len(s) -> StepRead]
      BY ReadFields
    <3> HIDE DEF s
    <3> QED
      BY <3>1
  <2>5. [run EXCEPT !.steps = s] = run
    BY DEF ReadType
  <2> QED
    BY <2>3, <2>4, <2>5
<1> QED
  BY <1>1, <1>2

-----------------------------------------------------------------------------
(***************************************************************************)
(* Reading: a run as the lines of a set tell it, out of all there are.     *)
(***************************************************************************)
StartTold(run, L) ==
  \/ \E line \in L : StartOf(line, run.id) /\ run.verb = line.is /\ run.began = line.time
  \/ (\A line \in L : ~StartOf(line, run.id)) /\ run.verb = "" /\ run.began = LongAgo

EndTold(run, L) ==
  \/ \E line \in L : EndOf(line, run.id) /\ run.ending = line.is /\ run.took = line.time
  \/ (\A line \in L : ~EndOf(line, run.id)) /\ run.ending = "" /\ run.took = 0

\* A step counts as one of the run's from the line of its start.
StartsTold(run, L) ==
  /\ \A k \in DOMAIN run.steps : run.steps[k].action => \E line \in L : StepStartOf(line, run.id, k)
  /\ \A line \in L, k \in Nat :
       StepStartOf(line, run.id, k) => k \in DOMAIN run.steps /\ run.steps[k].action

\* Its outcome is what one of its ends says; and there is one, if its start is read too.
EndsTold(run, L, all) ==
  /\ \A k \in DOMAIN run.steps :
       run.steps[k].outcome # "" =>
         \E line \in L : StepEndOf(line, run.id, k) /\ run.steps[k].outcome = line.is
  /\ \A k \in Nat :
       (\E line \in all : StepStartOf(line, run.id, k)) /\ (\E line \in L : StepEndOf(line, run.id, k))
       => \E line \in L : StepEndOf(line, run.id, k) /\ k \in DOMAIN run.steps
                          /\ run.steps[k].outcome = line.is

ToldOf(run, L, all) ==
  run \in ReadType /\ StartTold(run, L) /\ EndTold(run, L) /\ StartsTold(run, L) /\ EndsTold(run, L, all)

\* The next line of those in turn.
Next1(line, L, all, rs) ==
  /\ line \in all /\ L \subseteq all /\ \A x \in all : Proper(x)
  /\ \A x \in L : Fits(x, line, rs)
  /\ \A y \in all : y \in L \/ y = line \/ Fits(line, y, rs)

\* Of a run there is nothing to tell without lines.
LEMMA ToldNothing ==
  ASSUME NEW r \in Nat, NEW L, NEW all, \A line \in L : line.run # r
  PROVE  ToldOf(Unknown(r), L, all)
<1> DEFINE run == Unknown(r)
<1>1. LongAgo \in Int
  BY LimitType DEF LongAgo
<1>2. /\ run.id = r /\ run.verb = "" /\ run.began = LongAgo /\ run.took = 0 /\ run.ending = ""
      /\ run.steps = <<>>
  BY DEF Unknown
<1>3. run \in ReadType
  <2>1. <<>> \in Seq(StepRead) /\ "" \in Words /\ 0 \in Nat
    BY EmptySeq DEF Words
  <2> HIDE DEF StepRead, Words
  <2> QED
    BY <1>1, <2>1 DEF Unknown, ReadType
<1>4. DOMAIN <<>> = {}
  OBVIOUS
<1> HIDE DEF run
<1>5. StartTold(run, L) /\ EndTold(run, L)
  BY <1>2 DEF StartTold, EndTold, StartOf, EndOf
<1>6. StartsTold(run, L)
  BY <1>2, <1>4 DEF StartsTold, StepStartOf
<1>7. EndsTold(run, L, all)
  BY <1>2, <1>4 DEF EndsTold, StepEndOf
<1> QED
  BY <1>3, <1>5, <1>6, <1>7 DEF ToldOf, run

\* The line of another run tells nothing of this one.
LEMMA ToldElsewhere ==
  ASSUME NEW run, NEW L, NEW all, ToldOf(run, L, all), NEW line, line.run # run.id
  PROVE  ToldOf(run, L \union {line}, all)
<1>1. StartTold(run, L \union {line}) /\ EndTold(run, L \union {line})
  BY DEF ToldOf, StartTold, EndTold, StartOf, EndOf
<1>2. StartsTold(run, L \union {line})
  BY DEF ToldOf, StartsTold, StepStartOf
<1>3. EndsTold(run, L \union {line}, all)
  <2>1. \A k : ~StepEndOf(line, run.id, k)
    BY DEF StepEndOf
  <2> QED
    BY <2>1 DEF ToldOf, EndsTold
<1> QED
  BY <1>1, <1>2, <1>3 DEF ToldOf

\* With no more ends of steps than there were, and the same steps, nothing changes.
LEMMA EndsStay ==
  ASSUME NEW run, NEW new, NEW L, NEW M, NEW all, EndsTold(run, L, all), L \subseteq M,
         new.id = run.id, new.steps = run.steps,
         \A x \in M : \A k : StepEndOf(x, run.id, k) => x \in L
  PROVE  EndsTold(new, M, all)
<1> DEFINE s == run.steps  r == run.id
<1>1. ASSUME NEW k \in DOMAIN s, s[k].outcome # ""
      PROVE  \E x \in M : StepEndOf(x, r, k) /\ s[k].outcome = x.is
  BY <1>1 DEF EndsTold
<1>2. ASSUME NEW k \in Nat, \E x \in all : StepStartOf(x, r, k), \E x \in M : StepEndOf(x, r, k)
      PROVE  \E x \in M : StepEndOf(x, r, k) /\ k \in DOMAIN s /\ s[k].outcome = x.is
  <2>1. \E x \in L : StepEndOf(x, r, k)
    BY <1>2
  <2>2. \E x \in L : StepEndOf(x, r, k) /\ k \in DOMAIN s /\ s[k].outcome = x.is
    BY <1>2, <2>1 DEF EndsTold
  <2> QED
    BY <2>2
<1> QED
  BY <1>1, <1>2 DEF EndsTold

\* Its own line tells what it says.
LEMMA ToldMore ==
  ASSUME NEW run, NEW L, NEW all, ToldOf(run, L, all), NEW rs, NEW line, line.run = run.id,
         Next1(line, L, all, rs)
  PROVE  ToldOf(Told(run, line), L \union {line}, all) /\ Told(run, line).id = run.id
<1> DEFINE new == Told(run, line)
           M == L \union {line}
           r == run.id
<1> SUFFICES ToldOf(new, M, all) /\ new.id = r
  OBVIOUS
<1>1. /\ run \in ReadType /\ Proper(line)
      /\ StartTold(run, L) /\ EndTold(run, L) /\ StartsTold(run, L) /\ EndsTold(run, L, all)
  BY DEF ToldOf, Next1
<1>2. /\ line.run \in Nat /\ line.step \in Nat
      /\ line.ev \in {"run.start", "step.start", "note", "step.end", "run.end"}
  BY <1>1, ProperFields
<1>3. CASE line.ev = "run.start"
  <2>1. /\ new \in ReadType /\ new.id = run.id /\ new.verb = line.is /\ new.began = line.time
        /\ new.took = run.took /\ new.ending = run.ending /\ new.steps = run.steps
    BY <1>1, <1>3, ToldRunStart
  <2> HIDE DEF new
  <2>2. StartTold(new, M)
    BY <1>3, <2>1 DEF StartTold, StartOf
  <2>3. EndTold(new, M)
    BY <1>1, <1>3, <2>1 DEF EndTold, EndOf
  <2>4. StartsTold(new, M)
    BY <1>1, <1>3, <2>1 DEF StartsTold, StepStartOf
  <2>5. EndsTold(new, M, all)
    <3>1. \A x \in M : \A k : StepEndOf(x, r, k) => x \in L
      BY <1>3 DEF StepEndOf
    <3> QED
      BY <1>1, <2>1, <3>1, EndsStay
  <2> QED
    BY <2>1, <2>2, <2>3, <2>4, <2>5 DEF ToldOf
<1>4. CASE line.ev = "run.end"
  <2>1. /\ new \in ReadType /\ new.id = run.id /\ new.verb = run.verb /\ new.began = run.began
        /\ new.took = line.time /\ new.ending = line.is /\ new.steps = run.steps
    BY <1>1, <1>4, ToldRunEnd
  <2> HIDE DEF new
  <2>2. StartTold(new, M)
    BY <1>1, <1>4, <2>1 DEF StartTold, StartOf
  <2>3. EndTold(new, M)
    BY <1>4, <2>1 DEF EndTold, EndOf
  <2>4. StartsTold(new, M)
    BY <1>1, <1>4, <2>1 DEF StartsTold, StepStartOf
  <2>5. EndsTold(new, M, all)
    <3>1. \A x \in M : \A k : StepEndOf(x, r, k) => x \in L
      BY <1>4 DEF StepEndOf
    <3> QED
      BY <1>1, <2>1, <3>1, EndsStay
  <2> QED
    BY <2>1, <2>2, <2>3, <2>4, <2>5 DEF ToldOf
<1>5. CASE line.ev = "note"
  <2>1. new = run
    BY <1>1, <1>5, ToldNote
  <2> HIDE DEF new
  <2>2. StartTold(new, M) /\ EndTold(new, M)
    BY <1>1, <1>5, <2>1 DEF StartTold, StartOf, EndTold, EndOf
  <2>3. StartsTold(new, M)
    BY <1>1, <1>5, <2>1 DEF StartsTold, StepStartOf
  <2>4. EndsTold(new, M, all)
    <3>1. \A k : ~StepEndOf(line, run.id, k)
      BY <1>5 DEF StepEndOf
    <3> QED
      BY <1>1, <2>1, <3>1 DEF EndsTold
  <2> QED
    BY <1>1, <2>1, <2>2, <2>3, <2>4 DEF ToldOf
<1>6. CASE line.ev = "step.start"
  <2>0. PICK steps \in Seq(StepRead) :
          SameBut(new, run, steps) /\ OneStarted(steps, run.steps, line.step)
    BY <1>1, <1>6, ToldStepStart
  <2>1. /\ line.step \in DOMAIN steps /\ DOMAIN run.steps \subseteq DOMAIN steps
        /\ steps[line.step].action /\ steps[line.step].outcome = ""
        /\ \A k \in DOMAIN run.steps : k # line.step => steps[k] = run.steps[k]
        /\ \A k \in DOMAIN steps : k # line.step /\ k \notin DOMAIN run.steps =>
             ~steps[k].action /\ steps[k].outcome = ""
    BY <2>0 DEF OneStarted
  <2>2. /\ new \in ReadType /\ new.id = run.id /\ new.verb = run.verb /\ new.began = run.began
        /\ new.took = run.took /\ new.ending = run.ending /\ new.steps = steps
    BY <2>0 DEF SameBut
  <2>3. /\ steps[line.step].action /\ steps[line.step].outcome = ""
    BY <2>1
  <2>4. StepStartOf(line, r, line.step) /\ \A k : ~StepEndOf(line, r, k)
    BY <1>6 DEF StepStartOf, StepEndOf
  <2> HIDE DEF new
  <2>5. StartTold(new, M) /\ EndTold(new, M)
    BY <1>1, <1>6, <2>2 DEF StartTold, StartOf, EndTold, EndOf
  <2>6. StartsTold(new, M)
    <3>1. ASSUME NEW k \in DOMAIN steps, steps[k].action
          PROVE  \E x \in M : StepStartOf(x, r, k)
      <4>1. CASE k = line.step
        BY <2>4, <4>1
      <4>2. CASE k # line.step
        BY <1>1, <2>1, <2>3, <3>1, <4>2 DEF StartsTold
      <4> QED
        BY <4>1, <4>2
    <3>2. ASSUME NEW x \in M, NEW k \in Nat, StepStartOf(x, r, k)
          PROVE  k \in DOMAIN steps /\ steps[k].action
      <4>1. CASE k = line.step
        BY <2>1, <2>3, <4>1
      <4>2. CASE k # line.step
        <5>1. x \in L
          BY <3>2, <4>2 DEF StepStartOf
        <5> QED
          BY <1>1, <2>1, <3>2, <4>2, <5>1 DEF StartsTold
      <4> QED
        BY <4>1, <4>2
    <3> QED
      BY <2>2, <3>1, <3>2 DEF StartsTold
  <2>7. \A x \in L : ~StepEndOf(x, r, line.step)
    <3> SUFFICES ASSUME NEW x \in L, StepEndOf(x, r, line.step) PROVE FALSE
      OBVIOUS
    <3>1. Fits(x, line, rs) /\ x.run = line.run /\ x.step = line.step
      BY DEF Next1, StepEndOf
    <3>2. x.step < line.step
      BY <1>6, <3>1 DEF Fits
    <3> QED
      BY <1>2, <3>1, <3>2
  <2>8. EndsTold(new, M, all)
    <3>1. ASSUME NEW k \in DOMAIN steps, steps[k].outcome # ""
          PROVE  \E x \in M : StepEndOf(x, r, k) /\ steps[k].outcome = x.is
      <4>1. k # line.step /\ k \in DOMAIN run.steps /\ steps[k] = run.steps[k]
        BY <2>1, <2>3, <3>1
      <4> QED
        BY <1>1, <3>1, <4>1 DEF EndsTold
    <3>2. ASSUME NEW k \in Nat, \E x \in all : StepStartOf(x, r, k), \E x \in M : StepEndOf(x, r, k)
          PROVE  \E x \in M : StepEndOf(x, r, k) /\ k \in DOMAIN steps /\ steps[k].outcome = x.is
      <4>1. \E x \in L : StepEndOf(x, r, k)
        BY <2>4, <3>2
      <4>2. k # line.step
        BY <2>7, <4>1
      <4>3. PICK x \in L : StepEndOf(x, r, k) /\ k \in DOMAIN run.steps /\ run.steps[k].outcome = x.is
        BY <1>1, <3>2, <4>1 DEF EndsTold
      <4>4. k \in DOMAIN steps /\ steps[k] = run.steps[k]
        BY <2>1, <4>2, <4>3
      <4> QED
        BY <4>3, <4>4
    <3> QED
      BY <2>2, <3>1, <3>2 DEF EndsTold
  <2> QED
    BY <2>2, <2>5, <2>6, <2>8 DEF ToldOf
<1>7. CASE line.ev = "step.end"
  <2>1. PICK steps \in Seq(StepRead) :
           /\ SameBut(new, run, steps)
           /\ DOMAIN steps = DOMAIN run.steps
           /\ \A k \in DOMAIN steps :
                steps[k] = IF k = line.step
                           THEN [run.steps[k] EXCEPT !.outcome = line.is, !.finished = TRUE]
                           ELSE run.steps[k]
    BY <1>1, <1>7, ToldStepEnd
  <2>2. /\ new \in ReadType /\ new.id = run.id /\ new.verb = run.verb /\ new.began = run.began
        /\ new.took = run.took /\ new.ending = run.ending /\ new.steps = steps
    BY <2>1 DEF SameBut
  <2>3. ASSUME NEW k \in DOMAIN steps
        PROVE  /\ steps[k].action = run.steps[k].action
               /\ k = line.step => steps[k].outcome = line.is
               /\ k # line.step => steps[k].outcome = run.steps[k].outcome
    <3>1. run.steps[k] \in StepRead
      BY <1>1, <2>1, ReadFields
    <3> QED
      BY <2>1, <3>1 DEF StepRead
  <2>4. StepEndOf(line, r, line.step) /\ \A k : ~StepStartOf(line, r, k)
    BY <1>7 DEF StepStartOf, StepEndOf
  <2> HIDE DEF new
  <2>5. StartTold(new, M) /\ EndTold(new, M)
    BY <1>1, <1>7, <2>2 DEF StartTold, StartOf, EndTold, EndOf
  <2>6. StartsTold(new, M)
    <3>1. ASSUME NEW k \in DOMAIN steps, steps[k].action
          PROVE  \E x \in M : StepStartOf(x, r, k)
      BY <1>1, <2>1, <2>3, <3>1 DEF StartsTold
    <3>2. ASSUME NEW x \in M, NEW k \in Nat, StepStartOf(x, r, k)
          PROVE  k \in DOMAIN steps /\ steps[k].action
      <4>1. x \in L
        BY <2>4, <3>2
      <4> QED
        BY <1>1, <2>1, <2>3, <3>2, <4>1 DEF StartsTold
    <3> QED
      BY <2>2, <3>1, <3>2 DEF StartsTold
  <2>7. EndsTold(new, M, all)
    <3>1. ASSUME NEW k \in DOMAIN steps, steps[k].outcome # ""
          PROVE  \E x \in M : StepEndOf(x, r, k) /\ steps[k].outcome = x.is
      <4>1. CASE k = line.step
        BY <2>3, <2>4, <4>1
      <4>2. CASE k # line.step
        <5>1. k \in DOMAIN run.steps /\ steps[k].outcome = run.steps[k].outcome
          BY <2>1, <2>3, <4>2
        <5>2. PICK x \in L : StepEndOf(x, r, k) /\ run.steps[k].outcome = x.is
          BY <1>1, <3>1, <5>1 DEF EndsTold
        <5> QED
          BY <5>1, <5>2
      <4> QED
        BY <4>1, <4>2
    <3>2. ASSUME NEW k \in Nat, \E x \in all : StepStartOf(x, r, k), \E x \in M : StepEndOf(x, r, k)
          PROVE  \E x \in M : StepEndOf(x, r, k) /\ k \in DOMAIN steps /\ steps[k].outcome = x.is
      <4>1. CASE k = line.step
        <5>1. PICK y \in all : StepStartOf(y, r, k)
          BY <3>2
        <5>2. y \in L
          <6>1. y # line
            BY <2>4, <5>1
          <6>2. ~Fits(line, y, rs)
            <7> SUFFICES ASSUME Fits(line, y, rs) PROVE FALSE
              OBVIOUS
            <7>1. line.run = y.run /\ y.ev = "step.start" /\ y.step = k
              BY <5>1 DEF StepStartOf
            <7>2. line.step < y.step
              BY <7>1 DEF Fits
            <7> QED
              BY <1>2, <4>1, <7>1, <7>2
          <6> QED
            BY <6>1, <6>2 DEF Next1
        <5>3. k \in DOMAIN steps
          BY <1>1, <2>1, <5>1, <5>2 DEF StartsTold
        <5> QED
          BY <2>3, <2>4, <4>1, <5>3
      <4>2. CASE k # line.step
        <5>1. \E x \in L : StepEndOf(x, r, k)
          BY <3>2, <4>2 DEF StepEndOf
        <5>2. PICK x \in L : StepEndOf(x, r, k) /\ k \in DOMAIN run.steps /\ run.steps[k].outcome = x.is
          BY <1>1, <3>2, <5>1 DEF EndsTold
        <5>3. k \in DOMAIN steps /\ steps[k].outcome = run.steps[k].outcome
          BY <2>1, <2>3, <4>2, <5>2
        <5> QED
          BY <5>2, <5>3
      <4> QED
        BY <4>1, <4>2
    <3> QED
      BY <2>2, <3>1, <3>2 DEF EndsTold
  <2> QED
    BY <2>2, <2>5, <2>6, <2>7 DEF ToldOf
<1> QED
  BY <1>2, <1>3, <1>4, <1>5, <1>6, <1>7

-----------------------------------------------------------------------------
(***************************************************************************)
(* Reading: the runs put together of lines in turn.                        *)
(***************************************************************************)
\* Each run once, as the lines tell it, and a run for each line.
ReadOf(read, L, all) ==
  /\ read \in Seq(ReadType)
  /\ \A i \in DOMAIN read : ToldOf(read[i], L, all) /\ \E line \in L : line.run = read[i].id
  /\ \A line \in L : \E i \in DOMAIN read : read[i].id = line.run
  /\ \A i, j \in DOMAIN read : read[i].id = read[j].id => i = j

LEMMA CollectMore ==
  ASSUME NEW read, NEW L, NEW all, ReadOf(read, L, all), NEW rs, NEW line, Next1(line, L, all, rs)
  PROVE  ReadOf(Collect(read, line), L \union {line}, all)
<1> DEFINE r == line.run
           M == L \union {line}
           known == {i \in DOMAIN read : read[i].id = r}
           new == Collect(read, line)
           T == ReadType
<1> SUFFICES ReadOf(new, M, all)
  OBVIOUS
<1>1. /\ read \in Seq(T) /\ r \in Nat
      /\ \A i \in DOMAIN read : ToldOf(read[i], L, all) /\ \E x \in L : x.run = read[i].id
      /\ \A x \in L : \E i \in DOMAIN read : read[i].id = x.run
      /\ \A i, j \in DOMAIN read : read[i].id = read[j].id => i = j
  BY ProperFields DEF ReadOf, Next1
<1>2. Len(read) \in Nat /\ DOMAIN read = 1..Len(read)
  <2> HIDE DEF T
  <2> QED
    BY <1>1, LenProperties
<1>3. CASE known = {}
  <2> DEFINE run == Told(Unknown(r), line)
             m == Len(read)
  <2>1. \A x \in L : x.run # r
    BY <1>1, <1>3
  <2>2. ToldOf(Unknown(r), L, all) /\ Unknown(r).id = r
    BY <1>1, <2>1, ToldNothing DEF Unknown
  <2>3. ToldOf(run, M, all) /\ run.id = r
    BY <2>2, ToldMore
  <2>4. run \in T
    BY <2>3 DEF ToldOf
  <2>5. new = Append(read, run)
    BY <1>3 DEF Collect
  <2> HIDE DEF run, T, new, known
  <2>6. /\ new \in Seq(T) /\ Len(new) = m + 1 /\ new[m + 1] = run
        /\ \A i \in 1..m : new[i] = read[i]
    BY <1>1, <2>4, <2>5, AppendProperties
  <2>7. DOMAIN new = 1..(m + 1)
    BY <2>6, LenProperties
  <2> HIDE DEF m
  <2>8. /\ m + 1 \in DOMAIN new /\ DOMAIN read = 1..m /\ \A i \in DOMAIN read : i \in DOMAIN new
        /\ \A i \in DOMAIN new : i \in DOMAIN read \/ i = m + 1
    <3>1. m \in Nat /\ DOMAIN read = 1..m
      BY <1>2 DEF m
    <3>2. m + 1 \in 1..(m + 1) /\ (\A i \in 1..m : i \in 1..(m + 1))
          /\ \A i \in 1..(m + 1) : i \in 1..m \/ i = m + 1
      BY <3>1
    <3> QED
      BY <2>7, <3>1, <3>2
  <2>9. \A i \in DOMAIN read : new[i] = read[i] /\ read[i].id # r
    BY <1>3, <2>6, <2>8 DEF known
  <2>10. ASSUME NEW i \in DOMAIN new
         PROVE  ToldOf(new[i], M, all) /\ \E x \in M : x.run = new[i].id
    <3>1. CASE i = m + 1
      BY <2>3, <2>6, <3>1
    <3>2. CASE i \in DOMAIN read
      <4>1. ToldOf(read[i], L, all) /\ (\E x \in L : x.run = read[i].id) /\ new[i] = read[i]
            /\ r # read[i].id
        BY <1>1, <2>9, <3>2
      <4>2. ToldOf(read[i], M, all)
        BY <4>1, ToldElsewhere
      <4> QED
        BY <4>1, <4>2
    <3> QED
      BY <2>8, <3>1, <3>2
  <2>11. ASSUME NEW x \in M PROVE \E i \in DOMAIN new : new[i].id = x.run
    <3>1. CASE x = line
      BY <2>3, <2>6, <2>8, <3>1
    <3>2. CASE x \in L
      <4>1. PICK i \in DOMAIN read : read[i].id = x.run
        BY <1>1, <3>2
      <4> QED
        BY <2>8, <2>9, <4>1
    <3> QED
      BY <3>1, <3>2
  <2>12. ASSUME NEW i \in DOMAIN new, NEW j \in DOMAIN new, new[i].id = new[j].id PROVE i = j
    BY <1>1, <2>3, <2>6, <2>8, <2>9, <2>12
  <2> QED
    BY <2>6, <2>10, <2>11, <2>12 DEF ReadOf, T
<1>4. CASE known # {}
  <2>1. new = [i \in DOMAIN read |-> IF i \in known THEN Told(read[i], line) ELSE read[i]]
    BY <1>4 DEF Collect
  <2>2. DOMAIN new = DOMAIN read
    BY <2>1
  <2>3. ASSUME NEW i \in DOMAIN read
        PROVE  /\ ToldOf(new[i], M, all) /\ new[i].id = read[i].id
    <3>1. CASE i \in known
      <4>1. new[i] = Told(read[i], line) /\ read[i].id = line.run
        BY <2>1, <3>1
      <4>2. ToldOf(read[i], L, all)
        BY <1>1
      <4> HIDE DEF new
      <4>3. ToldOf(Told(read[i], line), L \union {line}, all) /\ Told(read[i], line).id = read[i].id
        BY <4>1, <4>2, ToldMore
      <4> QED
        BY <4>1, <4>3
    <3>2. CASE i \notin known
      <4>1. new[i] = read[i] /\ line.run # read[i].id
        BY <2>1, <3>2
      <4>2. ToldOf(read[i], L, all)
        BY <1>1
      <4> HIDE DEF new
      <4>3. ToldOf(read[i], L \union {line}, all)
        BY <4>1, <4>2, ToldElsewhere
      <4> QED
        BY <4>1, <4>3
    <3> QED
      BY <3>1, <3>2
  <2>4. new \in Seq(T)
    <3>1. \A i \in 1..Len(read) : new[i] \in T
      BY <1>2, <2>3 DEF ToldOf
    <3>2. new = [i \in 1..Len(read) |-> new[i]]
      BY <1>2, <2>1
    <3> HIDE DEF new, T
    <3>3. new \in [1..Len(read) -> T]
      BY <3>1, <3>2
    <3> QED
      BY <1>2, <3>3
  <2> HIDE DEF new
  <2>5. ASSUME NEW x \in M PROVE \E i \in DOMAIN new : new[i].id = x.run
    <3>1. CASE x = line
      <4>1. PICK i \in DOMAIN read : read[i].id = r
        BY <1>4
      <4> QED
        BY <2>2, <2>3, <3>1, <4>1
    <3>2. CASE x \in L
      <4>1. PICK i \in DOMAIN read : read[i].id = x.run
        BY <1>1, <3>2
      <4> QED
        BY <2>2, <2>3, <4>1
    <3> QED
      BY <3>1, <3>2
  <2>6. ASSUME NEW i \in DOMAIN new PROVE \E x \in M : x.run = new[i].id
    <3>1. \E x \in L : x.run = read[i].id
      BY <1>1, <2>2
    <3> QED
      BY <2>2, <2>3, <3>1
  <2>7. ASSUME NEW i \in DOMAIN new, NEW j \in DOMAIN new, new[i].id = new[j].id PROVE i = j
    BY <1>1, <2>2, <2>3, <2>7
  <2> QED
    BY <2>2, <2>3, <2>4, <2>5, <2>6, <2>7 DEF ReadOf, T
<1> QED
  BY <1>3, <1>4

IsCollected(f, text, n) ==
  f = [k \in 0..n |-> IF k = 0 THEN <<>> ELSE Collect(f[k - 1], text[k])]

\* What a function that is defined by recursion up to a bound gives.
LEMMA CollectedAt ==
  ASSUME NEW f, NEW text, NEW n \in Nat, IsCollected(f, text, n), NEW k \in 0..n
  PROVE  f[k] = IF k = 0 THEN <<>> ELSE Collect(f[k - 1], text[k])
<1> DEFINE g == [j \in 0..n |-> IF j = 0 THEN <<>> ELSE Collect(f[j - 1], text[j])]
<1>1. f = g
  BY DEF IsCollected
<1>2. g[k] = IF k = 0 THEN <<>> ELSE Collect(f[k - 1], text[k])
  OBVIOUS
<1> HIDE DEF g
<1> QED
  BY <1>1, <1>2

\* It can be taken one further.
LEMMA CollectedGoesOn ==
  ASSUME NEW f, NEW text, NEW n \in Nat, IsCollected(f, text, n)
  PROVE  \E g : IsCollected(g, text, n + 1)
<1> DEFINE g == [j \in 0..(n + 1) |-> IF j = n + 1 THEN Collect(f[n], text[j]) ELSE f[j]]
<1>1. ASSUME NEW j \in 0..(n + 1)
      PROVE  g[j] = IF j = 0 THEN <<>> ELSE Collect(g[j - 1], text[j])
  <2>1. CASE j = n + 1
    <3>1. j # 0 /\ j - 1 = n /\ n \in 0..(n + 1) /\ n # n + 1
      BY <2>1
    <3> QED
      BY <2>1, <3>1
  <2>2. CASE j # n + 1
    <3>1. j \in 0..n /\ (j # 0 => j - 1 \in 0..(n + 1) /\ j - 1 # n + 1)
      BY <2>2
    <3>2. f[j] = IF j = 0 THEN <<>> ELSE Collect(f[j - 1], text[j])
      BY <3>1, CollectedAt
    <3> QED
      BY <2>2, <3>1, <3>2
  <2> QED
    BY <2>1, <2>2
<1>2. g = [j \in 0..(n + 1) |-> IF j = 0 THEN <<>> ELSE Collect(g[j - 1], text[j])]
  BY <1>1
<1> QED
  BY <1>2 DEF IsCollected

\* There is such a function.
LEMMA CollectedExists ==
  ASSUME NEW text, NEW n \in Nat
  PROVE  \E f : IsCollected(f, text, n)
<1> DEFINE z == [k \in 0..0 |-> <<>>]
           S == {m \in 1..n : \E f : IsCollected(f, text, m)}
<1>1. IsCollected(z, text, 0)
  <2>1. z = [k \in 0..0 |-> IF k = 0 THEN <<>> ELSE Collect(z[k - 1], text[k])]
    OBVIOUS
  <2> QED
    BY <2>1 DEF IsCollected
<1> HIDE DEF z
<1>2. CASE n # 0
  <2>1. 1 \in S
    <3>1. \E g : IsCollected(g, text, 0 + 1)
      BY <1>1, CollectedGoesOn
    <3> QED
      BY <1>2, <3>1
  <2>2. ASSUME NEW i \in 1..n, i \in S, i < n
        PROVE  i + 1 \in S
    <3>1. PICK f : IsCollected(f, text, i)
      BY <2>2
    <3>2. \E g : IsCollected(g, text, i + 1)
      BY <3>1, CollectedGoesOn
    <3> QED
      BY <2>2, <3>2
  <2>3. 1..n \subseteq S
    <3> HIDE DEF S
    <3> QED
      BY <2>1, <2>2, UpTo
  <2> QED
    BY <1>2, <2>3
<1> QED
  BY <1>1, <1>2

\* Lines in turn give the runs that they tell of.
LEMMA CollectedReads ==
  ASSUME NEW text \in Seq(LineType), \A x \in ToSet(text) : Proper(x), NEW rs, Follow(text, rs)
  PROVE  ReadOf(Collected(text), ToSet(text), ToSet(text))
<1> DEFINE n == Len(text)
           all == ToSet(text)
           First(k) == {text[i] : i \in 1..k}
           f == LET upTo[k \in 0..Len(text)] == IF k = 0 THEN <<>> ELSE Collect(upTo[k - 1], text[k])
                IN  upTo
<1>1. n \in Nat /\ DOMAIN text = 1..n
  <2> HIDE DEF LineType
  <2> QED
    BY LenProperties
<1>2. Collected(text) = f[n] /\ IsCollected(f, text, n)
  <2>1. f = CHOOSE g : g = [k \in 0..n |-> IF k = 0 THEN <<>> ELSE Collect(g[k - 1], text[k])]
    OBVIOUS
  <2>2. \E g : g = [k \in 0..n |-> IF k = 0 THEN <<>> ELSE Collect(g[k - 1], text[k])]
    BY <1>1, CollectedExists DEF IsCollected
  <2>3. Collected(text) = f[n]
    BY DEF Collected
  <2> HIDE DEF f, n
  <2> QED
    BY <2>1, <2>2, <2>3 DEF IsCollected
<1> HIDE DEF f, n
<1>3. \A k \in 0..n : f[k] = IF k = 0 THEN <<>> ELSE Collect(f[k - 1], text[k])
  BY <1>1, <1>2, CollectedAt
<1>4. First(n) = all
  BY <1>1 DEF ToSet
<1>5. ReadOf(f[0], First(0), all)
  <2>1. f[0] = <<>>
    BY <1>1, <1>3
  <2>2. First(0) = {}
    OBVIOUS
  <2>3. <<>> \in Seq(ReadType) /\ DOMAIN <<>> = {}
    BY EmptySeq
  <2> HIDE DEF First
  <2> QED
    BY <2>1, <2>2, <2>3 DEF ReadOf
<1>6. ASSUME NEW k \in 1..n, ReadOf(f[k - 1], First(k - 1), all)
      PROVE  ReadOf(f[k], First(k), all)
  <2> DEFINE L == First(k - 1)
             line == text[k]
  <2>1. First(k) = L \union {line} /\ L \subseteq all /\ line \in all
    <3>1. \A i \in 1..k : i \in 1..(k - 1) \/ i = k
      BY <1>1
    <3>2. \A i \in 1..(k - 1) : i \in 1..k /\ i \in 1..n
      BY <1>1
    <3>3. k \in 1..k
      BY <1>1
    <3> QED
      BY <1>1, <3>1, <3>2, <3>3 DEF ToSet
  <2>2. \A x \in L : Fits(x, line, rs)
    <3> SUFFICES ASSUME NEW i \in 1..(k - 1) PROVE Fits(text[i], text[k], rs)
      OBVIOUS
    <3>1. i \in 1..n /\ i < k
      BY <1>1
    <3> QED
      BY <1>1, <3>1 DEF Follow
  <2>3. \A y \in all : y \in L \/ y = line \/ Fits(line, y, rs)
    <3> SUFFICES ASSUME NEW i \in 1..n PROVE text[i] \in L \/ text[i] = line \/ Fits(line, text[i], rs)
      BY <1>1 DEF ToSet
    <3>1. i \in 1..(k - 1) \/ i = k \/ k < i
      BY <1>1
    <3> QED
      BY <1>1, <3>1 DEF Follow
  <2> HIDE DEF L, line
  <2>4. Next1(line, L, all, rs)
    BY <2>1, <2>2, <2>3 DEF Next1
  <2>5. f[k] = Collect(f[k - 1], line)
    <3>1. k \in 0..n /\ k # 0
      BY <1>1
    <3> QED
      BY <1>3, <3>1 DEF line
  <2>6. ReadOf(Collect(f[k - 1], line), L \union {line}, all)
    BY <1>6, <2>4, CollectMore DEF L
  <2> QED
    BY <2>1, <2>5, <2>6
<1> DEFINE S == {k \in 1..n : ReadOf(f[k], First(k), all)}
<1>7. n # 0 => 1..n \subseteq S
  <2> SUFFICES ASSUME n # 0 PROVE 1..n \subseteq S
    OBVIOUS
  <2> HIDE DEF First, all
  <2>1. 1 \in S
    <3>1. 1 \in 1..n /\ 1 - 1 = 0
      BY <1>1
    <3> QED
      BY <1>5, <1>6, <3>1
  <2>2. ASSUME NEW i \in 1..n, i \in S, i < n PROVE i + 1 \in S
    <3>1. i + 1 \in 1..n /\ (i + 1) - 1 = i
      BY <1>1, <2>2
    <3> QED
      BY <1>6, <2>2, <3>1
  <2> HIDE DEF S
  <2> QED
    BY <1>1, <2>1, <2>2, UpTo
<1>8. ReadOf(f[n], First(n), all)
  <2>1. n # 0 => n \in 1..n
    BY <1>1
  <2> HIDE DEF First, all
  <2> QED
    BY <1>5, <1>7, <2>1
<1> QED
  BY <1>2, <1>4, <1>8

-----------------------------------------------------------------------------
(***************************************************************************)
(* Reading: the runs, newest first, and the window they are read from.     *)
(***************************************************************************)
\* The runs that lines tell of, each once, none before one that began later.
Newest(p, L) ==
  /\ \E n \in Nat : DOMAIN p = 1..n
  /\ \A k \in DOMAIN p : ToldOf(p[k], L, L) /\ \E line \in L : line.run = p[k].id
  /\ \A line \in L : \E k \in DOMAIN p : p[k].id = line.run
  /\ \A k, l \in DOMAIN p : p[k].id = p[l].id => k = l
  /\ \A k, l \in DOMAIN p : p[k].began > p[l].began => k < l

LEMMA NewestOf ==
  ASSUME NEW read, NEW L, ReadOf(read, L, L)
  PROVE  Newest(NewestFirst(read), L)
<1> DEFINE D == DOMAIN read
           n == Len(read)
           before == [i \in D |-> {j \in D : \/ read[j].began > read[i].began
                                             \/ read[j].began = read[i].began /\ j < i}]
           order == Sorted(D, before)
           p == NewestFirst(read)
<1>1. /\ read \in Seq(ReadType)
      /\ \A i \in D : ToldOf(read[i], L, L) /\ \E line \in L : line.run = read[i].id
      /\ \A line \in L : \E i \in D : read[i].id = line.run
      /\ \A i, j \in D : read[i].id = read[j].id => i = j
  BY DEF ReadOf
<1>2. n \in Nat /\ D = 1..n
  <2> HIDE DEF ReadType
  <2> QED
    BY <1>1, LenProperties
<1>3. IsFiniteSet(D)
  BY <1>2, FS_Interval
<1>4. \A i \in D : read[i].began \in Int /\ i \in Nat
  <2>1. \A i \in D : read[i] \in ReadType
    BY <1>1 DEF ToldOf
  <2> QED
    BY <1>2, <2>1, ReadFields
<1>5. \A i \in D : before[i] = {j \in D : \/ read[j].began > read[i].began
                                          \/ read[j].began = read[i].began /\ j < i}
  OBVIOUS
<1>6. before \in [D -> SUBSET D]
  OBVIOUS
<1>7. p = [k \in DOMAIN order |-> read[order[k]]]
  BY DEF NewestFirst
<1> HIDE DEF before, p, D, order, n
<1>8. PutsInTurn(before, D)
  <2>1. \A i \in D : i \notin before[i]
    BY <1>4, <1>5
  <2>2. \A i, j \in D : i # j => i \in before[j] \/ j \in before[i]
    BY <1>4, <1>5
  <2>3. \A i, j \in D : j \in before[i] => before[j] \subseteq before[i]
    BY <1>4, <1>5
  <2> QED
    BY <1>6, <2>1, <2>2, <2>3 DEF PutsInTurn
<1>9. InTurn(order, before, D)
  BY <1>3, <1>8, SortedInTurn DEF order
<1> DEFINE c == Cardinality(D)
<1>10. /\ c \in Nat /\ DOMAIN order = 1..c /\ DOMAIN p = 1..c
       /\ \A k \in 1..c : order[k] \in D /\ p[k] = read[order[k]]
       /\ \A i \in D : \E k \in 1..c : order[k] = i
       /\ \A k, l \in 1..c : k < l <=> order[k] \in before[order[l]]
  <2>1. /\ c \in Nat /\ order \in [1..c -> D]
        /\ \A i \in D : \E k \in 1..c : order[k] = i
        /\ \A k, l \in 1..c : k < l <=> order[k] \in before[order[l]]
    BY <1>9 DEF InTurn
  <2>2. DOMAIN order = 1..c /\ \A k \in 1..c : order[k] \in D
    BY <2>1
  <2> QED
    BY <1>7, <2>1, <2>2
<1> HIDE DEF c
<1>11. ASSUME NEW k \in 1..c, NEW l \in 1..c, p[k].id = p[l].id PROVE k = l
  <2>1. order[k] = order[l]
    BY <1>1, <1>10, <1>11
  <2>2. ~(k < l) /\ ~(l < k)
    BY <1>4, <1>5, <1>10, <2>1
  <2> QED
    BY <1>10, <2>2
<1>12. ASSUME NEW k \in 1..c, NEW l \in 1..c, p[k].began > p[l].began PROVE k < l
  BY <1>5, <1>10, <1>12
<1>13. \A line \in L : \E k \in 1..c : p[k].id = line.run
  <2> SUFFICES ASSUME NEW line \in L PROVE \E k \in 1..c : p[k].id = line.run
    OBVIOUS
  <2>1. PICK i \in D : read[i].id = line.run
    BY <1>1
  <2>2. PICK k \in 1..c : order[k] = i
    BY <1>10
  <2> QED
    BY <1>10, <2>1, <2>2
<1>14. \A k \in 1..c : ToldOf(p[k], L, L) /\ \E line \in L : line.run = p[k].id
  BY <1>1, <1>10
<1>15. Newest(p, L)
  BY <1>10, <1>11, <1>12, <1>13, <1>14 DEF Newest
<1> QED
  BY <1>15 DEF p

\* The window is the last of the journal: of two lines that are there, it has the later
\* if it has the earlier.
LEMMA WindowIsLast ==
  ASSUME TypeOK, NEW rs, Follow(Text, rs)
  PROVE  /\ Window \in Seq(LineType) /\ ToSet(Window) \subseteq ToSet(Text) /\ Follow(Window, rs)
         /\ \A x \in ToSet(Window), y \in ToSet(Text) : y \in ToSet(Window) \/ Fits(y, x, rs)
         /\ Len(Text) <= MaxLines => Window = Text
<1> DEFINE T == LineType
           n == Len(Text)
           w == Window
<1>1. Text \in Seq(T)
  BY LinesTyped
<1> HIDE DEF T
<1>2. n \in Nat /\ DOMAIN Text = 1..n /\ MaxLines \in Nat \ {0}
  BY <1>1, LenProperties, NumbersAssumption
<1>3. CASE n <= MaxLines
  <2>1. w = Text
    BY <1>3 DEF Window
  <2> QED
    BY <1>1, <1>3, <2>1 DEF T
<1>4. CASE ~(n <= MaxLines)
  <2> DEFINE a == n - MaxLines + 1
             p == SubSeq(Text, a, n)
             m == n - a + 1
  <2>1. w = p
    BY <1>4 DEF Window
  <2>2. a \in Int /\ n \in Int /\ a <= n /\ a >= 1 /\ m = MaxLines
    BY <1>2, <1>4
  <2>3. \A i \in a..n : i \in 1..n /\ Text[i] \in T
    <3>1. \A i \in a..n : i \in 1..n
      BY <1>2, <2>2
    <3> QED
      BY <1>1, <3>1, ElementOfSeq
  <2> HIDE DEF n, a
  <2>4. /\ p \in Seq(T) /\ Len(p) = IF a <= n THEN n - a + 1 ELSE 0
        /\ \A i \in 1..(n - a + 1) : p[i] = Text[a + i - 1]
    BY <2>2, <2>3, SubSeqProperties
  <2>5. p \in Seq(T) /\ DOMAIN p = 1..m /\ \A i \in 1..m : p[i] = Text[a + i - 1]
    BY <2>2, <2>4, LenProperties
  <2> HIDE DEF m, p
  <2>6. /\ \A i \in 1..m : a + i - 1 \in 1..n
        /\ \A i, j \in 1..m : i < j => a + i - 1 < a + j - 1
        /\ \A j \in a..n : j - a + 1 \in 1..m /\ a + (j - a + 1) - 1 = j
        /\ \A i \in 1..m, j \in 1..n : j \in a..n \/ j < a + i - 1
    BY <1>2, <2>2 DEF m
  <2>7. ToSet(p) \subseteq ToSet(Text)
    BY <1>2, <2>5, <2>6 DEF ToSet
  <2>8. Follow(p, rs)
    <3> SUFFICES ASSUME NEW i \in 1..m, NEW j \in 1..m, i < j PROVE Fits(p[i], p[j], rs)
      BY <2>5 DEF Follow
    <3> QED
      BY <1>2, <2>5, <2>6 DEF Follow
  <2>9. ASSUME NEW x \in ToSet(p), NEW y \in ToSet(Text), y \notin ToSet(p) PROVE Fits(y, x, rs)
    <3>1. PICK i \in 1..m : x = Text[a + i - 1]
      BY <2>5 DEF ToSet
    <3>2. PICK j \in 1..n : y = Text[j]
      BY <1>2 DEF ToSet
    <3>3. j \notin a..n
      <4> SUFFICES ASSUME j \in a..n PROVE FALSE
        OBVIOUS
      <4> DEFINE k == j - a + 1
      <4>1. k \in 1..m /\ a + k - 1 = j
        BY <2>6
      <4> HIDE DEF k
      <4>2. y = p[k]
        BY <2>5, <3>2, <4>1
      <4> QED
        BY <2>5, <2>9, <4>1, <4>2 DEF ToSet
    <3>4. j < a + i - 1 /\ a + i - 1 \in 1..n
      BY <2>6, <3>3
    <3> QED
      BY <1>2, <3>1, <3>2, <3>4 DEF Follow
  <2>10. ~(Len(Text) <= MaxLines)
    BY <1>4 DEF n
  <2> QED
    BY <2>1, <2>5, <2>7, <2>8, <2>9, <2>10 DEF T
<1> QED
  BY <1>3, <1>4

\* A read gives the runs that the window tells of, newest first.
LEMMA LoadReads ==
  ASSUME IInv, RecordInv
  PROVE  Newest(LoadRuns, ToSet(Window))
<1>1. TypeOK /\ Follow(Text, runs)
  BY DEF IInv, RecordInv, LinesInTurn
<1>2. Window \in Seq(LineType) /\ ToSet(Window) \subseteq ToSet(Text) /\ Follow(Window, runs)
  BY <1>1, WindowIsLast
<1>3. ASSUME NEW x \in ToSet(Text) PROVE Proper(x)
  <2>1. x \in LineType /\ x.run \in DOMAIN runs /\ Says(x, runs[x.run])
    BY <1>1, <1>3, LinesTyped DEF RecordInv, LinesTrue, TrueOf
  <2>2. x.ev = "step.start" => x.step # 0
    <3>1. x.ev = "step.start" => x.step \in 1..runs[x.run].announced
      BY <2>1 DEF Says
    <3>2. runs[x.run].announced \in Nat
      BY <1>1, <2>1, RunTypes
    <3> QED
      BY <3>1, <3>2
  <2> QED
    BY <2>1, <2>2 DEF Proper
<1>4. ReadOf(Collected(Window), ToSet(Window), ToSet(Window))
  BY <1>2, <1>3, CollectedReads
<1> QED
  BY <1>4, NewestOf DEF LoadRuns

-----------------------------------------------------------------------------
(***************************************************************************)
(* What is read of a run, and what happened.                               *)
(***************************************************************************)
HasStart(r, L) == \E x \in L : StartOf(x, r)
HasEnd(r, L) == \E x \in L : EndOf(x, r)

\* Of a run read, what is so.
Reads(run, L) ==
  LET r == run.id IN
  /\ r \in DOMAIN runs
  /\ HasStart(r, L) => run.verb = runs[r].job.verb /\ run.began = runs[r].began
  /\ ~HasStart(r, L) => run.verb = "" /\ run.began = LongAgo
  /\ HasEnd(r, L) => /\ run.ending = runs[r].ending /\ runs[r].ending # ""
                     /\ run.took = runs[r].took
  /\ ~HasEnd(r, L) => run.ending = "" /\ run.took = 0
  /\ \A k \in Completed(run) :
       /\ k \in 1..runs[r].announced /\ k \in 1..runs[r].ended /\ runs[r].acted[k] = "done"
       /\ \E x \in L : StepStartOf(x, r, k)

LEMMA ReadsTrue ==
  ASSUME IInv, RecordInv, NEW k \in DOMAIN LoadRuns
  PROVE  Reads(LoadRuns[k], ToSet(Window)) /\ LoadRuns[k] \in ReadType
<1> DEFINE run == LoadRuns[k]
           r == run.id
           W == ToSet(Window)
<1>1. ToldOf(run, W, W) /\ \E line \in W : line.run = r
  BY LoadReads DEF Newest
<1>2. \A x \in W : x \in ToSet(Text) /\ TrueOf(x, runs)
  <2>1. W \subseteq ToSet(Text)
    BY WindowIsLast DEF IInv, RecordInv, LinesInTurn
  <2> QED
    BY <2>1 DEF RecordInv, LinesTrue
<1> HIDE DEF run, W
<1>3. r \in DOMAIN runs
  BY <1>1, <1>2 DEF TrueOf
<1>4. \A x \in W : x.run = r => Says(x, runs[r])
  BY <1>2 DEF TrueOf
<1>5. /\ HasStart(r, W) => run.verb = runs[r].job.verb /\ run.began = runs[r].began
      /\ ~HasStart(r, W) => run.verb = "" /\ run.began = LongAgo
  BY <1>1, <1>4 DEF ToldOf, StartTold, HasStart, StartOf, Says
<1>6. /\ HasEnd(r, W) => /\ run.ending = runs[r].ending /\ runs[r].ending # ""
                         /\ run.took = runs[r].took
      /\ ~HasEnd(r, W) => run.ending = "" /\ run.took = 0
  BY <1>1, <1>4 DEF ToldOf, EndTold, HasEnd, EndOf, Says
<1>7. ASSUME NEW j \in Completed(run)
      PROVE  /\ j \in 1..runs[r].announced /\ j \in 1..runs[r].ended /\ runs[r].acted[j] = "done"
             /\ \E x \in W : StepStartOf(x, r, j)
  <2>1. j \in DOMAIN run.steps /\ run.steps[j].action /\ run.steps[j].outcome = "done"
    BY DEF Completed
  <2>2. PICK x \in W : StepStartOf(x, r, j)
    BY <1>1, <2>1 DEF ToldOf, StartsTold
  <2>3. j \in 1..runs[r].announced
    BY <1>4, <2>2 DEF StepStartOf, Says
  <2>4. PICK y \in W : StepEndOf(y, r, j) /\ y.is = "done"
    BY <1>1, <2>1 DEF ToldOf, EndsTold
  <2>5. j \in 1..runs[r].ended /\ runs[r].acted[j] = "done"
    BY <1>4, <2>4 DEF StepEndOf, Says
  <2> QED
    BY <2>2, <2>3, <2>5
<1>8. run \in ReadType
  BY <1>1 DEF ToldOf
<1> QED
  BY <1>3, <1>5, <1>6, <1>7, <1>8 DEF Reads, run, W

\* What must not stand before a line of the window is in it.
LEMMA InWindow ==
  ASSUME IInv, RecordInv, NEW x \in ToSet(Window), NEW y \in ToSet(Text), ~Fits(y, x, runs)
  PROVE  y \in ToSet(Window)
BY WindowIsLast DEF IInv, RecordInv, LinesInTurn

\* The end of a run whose record is kept is read, if another of its lines is.
LEMMA EndRead ==
  ASSUME IInv, RecordInv, NEW x \in ToSet(Window), Present(runs[x.run], x.run, ToSet(disk)),
         runs[x.run].ending # ""
  PROVE  HasEnd(x.run, ToSet(Window))
<1>1. PICK y \in ToSet(disk) : EndOf(y, x.run)
  BY DEF Present
<1>2. y \in ToSet(Text)
  BY LinesTyped DEF IInv
<1>3. ~Fits(y, x, runs)
  BY <1>1 DEF Fits, EndOf
<1>4. y \in ToSet(Window)
  BY <1>2, <1>3, InWindow
<1> QED
  BY <1>1, <1>4 DEF HasEnd

\* However runs overlap and wherever the power goes, a run that is over and was read from
\* its start reads as cut exactly if it never came to its end.
THEOREM CutIsCut == Spec => []CutReadsAsCut
<1>1. IInv /\ RecordInv => CutReadsAsCut
  <2> DEFINE P(run) == ReadWhole(run.id) /\ ~Alive(run.id) /\ run.id \notin unsynced =>
                         (WasCut(run) <=> runs[run.id].ending = "")
  <2>0. (\A k \in DOMAIN LoadRuns : P(LoadRuns[k])) => CutReadsAsCut
    <3>1. (\A run \in ToSet(LoadRuns) : P(run)) => CutReadsAsCut
      BY DEF CutReadsAsCut
    <3> HIDE DEF P
    <3> QED
      BY <3>1 DEF ToSet
  <2> SUFFICES ASSUME IInv, RecordInv, NEW k \in DOMAIN LoadRuns PROVE P(LoadRuns[k])
    BY <2>0
  <2> DEFINE run == LoadRuns[k]
             r == run.id
             W == ToSet(Window)
  <2> SUFFICES ASSUME ReadWhole(r), ~Alive(r), r \notin unsynced
               PROVE  WasCut(run) <=> runs[r].ending = ""
    OBVIOUS
  <2>2. Reads(run, W)
    BY ReadsTrue
  <2> HIDE DEF run
  <2>3. PICK x \in W : StartOf(x, r)
    BY DEF ReadWhole, ToSet, StartOf
  <2>4. KeptOf(r) /\ r \in DOMAIN runs
    BY <2>2 DEF Reads, RecordInv, Kept
  <2>5. CASE runs[r].ending = ""
    BY <2>2, <2>5 DEF Reads, WasCut
  <2>6. CASE runs[r].ending # ""
    <3>1. Present(runs[r], r, ToSet(disk))
      BY <2>4, <2>6 DEF KeptOf
    <3>2. HasEnd(r, W)
      BY <2>3, <2>6, <3>1, EndRead DEF StartOf
    <3> QED
      BY <2>2, <2>6, <3>2 DEF Reads, WasCut
  <2> QED
    BY <2>5, <2>6
<1> QED
  BY <1>1, RecordIsSound, PTL

-----------------------------------------------------------------------------
(***************************************************************************)
(* The threshold.                                                          *)
(***************************************************************************)
\* What is divided to the nearest is off by a half at most.
LEMMA ToNearest ==
  ASSUME NEW x \in Nat, NEW m \in Nat \ {0}
  PROVE  /\ (x + m) \div (2 * m) \in Int
         /\ 2 * m * ((x + m) \div (2 * m)) >= x - m
<1> DEFINE a == x + m  d == 2 * m  q == a \div d
<1>1. a \in Int /\ d \in Int /\ d > 0
  OBVIOUS
<1> HIDE DEF a, d
<1>2. q \in Int /\ d * q <= a /\ a < d * (q + 1)
  BY <1>1
<1> HIDE DEF q
<1>3. d * (q + 1) = d * q + d
  BY <1>1, <1>2
<1>4. d * q \in Int
  BY <1>1, <1>2
<1>5. d * q > x + m - 2 * m
  BY <1>2, <1>3, <1>4 DEF a, d
<1>6. d * q >= x - m
  BY <1>4, <1>5
<1> QED
  BY <1>2, <1>6 DEF q, a, d

LEMMA Scaled ==
  ASSUME NEW t \in Nat, NEW b \in Nat, t <= b, NEW s \in Nat
  PROVE  t * s \in Nat /\ b * s \in Nat /\ t * s <= b * s
<1>1. PICK c \in Nat : b = t + c
  <2>1. b - t \in Nat /\ b = t + (b - t)
    OBVIOUS
  <2> QED
    BY <2>1
<1>2. b * s = t * s + c * s
  BY <1>1
<1>3. t * s \in Nat /\ c * s \in Nat /\ b * s \in Nat
  BY <1>1
<1> QED
  BY <1>2, <1>3

\* The threshold is no lower than any sleep that was read as completed, margin and all.
THEOREM ThresholdCovers == Spec => []ThresholdCoversEveryRun
<1>1. IInv /\ RecordInv => ThresholdCoversEveryRun
  <2> DEFINE read == LoadRuns
             Timed(run) == runs[run.id].job.verb = "sleep" /\ run.ending = "complete" /\ run.took > 0
             Covered(run) == LeavesMargin(Recommended(Durations(read)), runs[run.id].took)
  <2>0. (\A i \in DOMAIN read : Timed(read[i]) => Covered(read[i])) => ThresholdCoversEveryRun
    <3>1. (\A run \in ToSet(read) : Timed(run) => Covered(run)) => ThresholdCoversEveryRun
      BY DEF ThresholdCoversEveryRun
    <3> HIDE DEF Timed, Covered, read
    <3> QED
      BY <3>1 DEF ToSet
  <2> SUFFICES ASSUME IInv, RecordInv, NEW i \in DOMAIN read, Timed(read[i]) PROVE Covered(read[i])
    BY <2>0
  <2>1. \E n \in Nat : DOMAIN read = 1..n
    BY LoadReads DEF Newest
  <2>2. \A k \in DOMAIN read : Reads(read[k], ToSet(Window)) /\ read[k] \in ReadType
    BY ReadsTrue
  <2> HIDE DEF read
  <2>3. \A k \in DOMAIN read : read[k].took \in Nat /\ k \in Nat
    BY <2>1, <2>2, ReadFields
  <2> DEFINE timed == {k \in DOMAIN read : /\ read[k].verb \in {"sleep", ""}
                                           /\ read[k].ending = "complete" /\ read[k].took > 0}
             before == [k \in timed |-> {j \in timed : \/ read[j].took < read[k].took
                                                       \/ read[j].took = read[k].took /\ j < k}]
             order == Sorted(timed, before)
             ds == Durations(read)
             c == Cardinality(timed)
  <2>4. i \in timed
    <3>1. read[i].verb \in {"sleep", ""}
      BY <2>2 DEF Reads
    <3> QED
      BY <3>1
  <2>5. IsFiniteSet(timed)
    <3>1. PICK n \in Nat : DOMAIN read = 1..n
      BY <2>1
    <3>2. IsFiniteSet(1..n)
      BY FS_Interval
    <3>3. timed \subseteq 1..n
      BY <3>1
    <3> HIDE DEF timed
    <3> QED
      BY <3>2, <3>3, FS_Subset
  <2>6. ds = [k \in DOMAIN order |-> read[order[k]].took]
    BY DEF Durations
  <2>7. \A k \in timed : /\ before[k] = {j \in timed : \/ read[j].took < read[k].took
                                                       \/ read[j].took = read[k].took /\ j < k}
                         /\ read[k].took \in Nat /\ k \in Nat
    BY <2>3
  <2>8. before \in [timed -> SUBSET timed]
    OBVIOUS
  <2> HIDE DEF timed, before, order, ds
  <2>9. PutsInTurn(before, timed)
    <3>1. \A k \in timed : k \notin before[k]
      BY <2>7
    <3>2. \A k, j \in timed : k # j => k \in before[j] \/ j \in before[k]
      BY <2>7
    <3>3. \A k, j \in timed : j \in before[k] => before[j] \subseteq before[k]
      BY <2>7
    <3> QED
      BY <2>8, <3>1, <3>2, <3>3 DEF PutsInTurn
  <2>10. InTurn(order, before, timed)
    BY <2>5, <2>9, SortedInTurn DEF order
  <2>11. /\ c \in Nat /\ DOMAIN order = 1..c /\ \A k \in 1..c : order[k] \in timed
         /\ \A k \in timed : \E l \in 1..c : order[l] = k
         /\ \A k, l \in 1..c : k < l => order[k] \in before[order[l]]
    <3>1. /\ c \in Nat /\ order \in [1..c -> timed]
          /\ \A k \in timed : \E l \in 1..c : order[l] = k
          /\ \A k, l \in 1..c : k < l <=> order[k] \in before[order[l]]
      BY <2>10 DEF InTurn
    <3> QED
      BY <3>1
  <2> HIDE DEF c
  <2>12. DOMAIN ds = 1..c /\ Len(ds) = c /\ \A k \in 1..c : ds[k] = read[order[k]].took
    <3>1. DOMAIN ds = 1..c /\ \A k \in 1..c : ds[k] = read[order[k]].took
      BY <2>6, <2>11
    <3> QED
      BY <2>11, <3>1, LenOfDomain
  <2>13. PICK l \in 1..c : order[l] = i
    BY <2>4, <2>11
  <2>14. c \in 1..c /\ ds # <<>>
    <3>1. c \in 1..c
      BY <2>11
    <3>2. DOMAIN <<>> = {}
      OBVIOUS
    <3> QED
      BY <2>12, <3>1, <3>2
  <2> DEFINE t == read[i].took
             b == Basis(ds)
             s == Margin[1] + Margin[2]
             m == Margin[2]
             q == Measured(ds)
  <2>15. b = read[order[c]].took
    BY <2>12, <2>14 DEF Basis
  <2>16. b \in Nat /\ t \in Nat /\ t <= b
    <3>1. b \in Nat /\ t \in Nat
      BY <2>4, <2>7, <2>11, <2>14, <2>15
    <3>2. CASE l = c
      BY <2>13, <2>15, <3>1, <3>2
    <3>3. CASE l # c
      <4>1. l < c
        BY <2>11, <3>3
      <4>2. i \in before[order[c]]
        BY <2>11, <2>13, <2>14, <4>1
      <4>3. \/ t < b
            \/ t = b
        BY <2>7, <2>11, <2>14, <2>15, <4>2
      <4> QED
        BY <3>1, <4>3
    <3> QED
      BY <3>2, <3>3
  <2>17. Margin[1] \in Nat /\ m \in Nat \ {0} /\ s \in Nat /\ Floor \in Nat
    <3>1. Margin[1] \in Nat /\ Margin[2] \in Nat \ {0} /\ Floor \in Nat
      BY NumbersAssumption
    <3> QED
      BY <3>1
  <2>18. q = (2 * b * s + m) \div (2 * m)
    BY DEF Measured
  <2>19. IF q < Floor THEN Recommended(ds) = Floor ELSE Recommended(ds) = q
    BY <2>14 DEF Recommended
  <2>20. Covered(read[i]) <=> 2 * m * Recommended(ds) >= 2 * t * s - m
    <3>1. t = runs[read[i].id].took
      <4>1. HasEnd(read[i].id, ToSet(Window))
        BY <2>2 DEF Reads
      <4> QED
        BY <2>2, <4>1 DEF Reads
    <3> HIDE DEF t
    <3> QED
      BY <3>1 DEF ds, LeavesMargin
  <2> HIDE DEF t, b, s, m, q, Covered
  <2>21. t * s \in Nat /\ b * s \in Nat /\ t * s <= b * s
    BY <2>16, <2>17, Scaled
  <2>22. 2 * b * s = 2 * (b * s) /\ 2 * t * s = 2 * (t * s)
    BY <2>16, <2>17
  <2> DEFINE x == 2 * b * s
             y == 2 * t * s
  <2>23. x \in Nat /\ y \in Nat /\ y <= x
    <3> DEFINE u == t * s  v == b * s
    <3>1. u \in Nat /\ v \in Nat /\ u <= v /\ x = 2 * v /\ y = 2 * u
      BY <2>21, <2>22
    <3> HIDE DEF u, v, x, y
    <3> QED
      BY <3>1
  <2>24. q = (x + m) \div (2 * m)
    BY <2>18
  <2> HIDE DEF x, y
  <2>25. q \in Int /\ 2 * m * q >= x - m
    BY <2>17, <2>23, <2>24, ToNearest
  <2>26. CASE q < Floor
    <3>1. 2 * m \in Nat /\ Recommended(ds) = Floor
      BY <2>17, <2>19, <2>26
    <3> DEFINE d == 2 * m
    <3>2. d * Floor >= d * q
      <4>1. d \in Nat /\ q \in Int /\ Floor \in Nat /\ q < Floor
        BY <2>17, <2>25, <2>26, <3>1
      <4> HIDE DEF d
      <4>2. PICK e \in Nat : Floor = q + e
        <5>1. Floor - q \in Nat /\ Floor = q + (Floor - q)
          BY <4>1
        <5> QED
          BY <5>1
      <4>3. d * Floor = d * q + d * e /\ d * e \in Nat /\ d * q \in Int
        BY <4>1, <4>2
      <4> QED
        BY <4>3
    <3>3. d * q \in Int /\ d * Floor \in Int /\ d * q >= x - m
      BY <2>17, <2>25, <3>1
    <3> HIDE DEF d
    <3>4. d * Floor >= y - m
      BY <2>17, <2>23, <3>2, <3>3
    <3> QED
      BY <2>20, <3>1, <3>4 DEF d, y
  <2>27. CASE ~(q < Floor)
    <3>1. Recommended(ds) = q
      BY <2>19, <2>27
    <3> DEFINE d == 2 * m
    <3>2. d * q \in Int /\ d * q >= x - m
      BY <2>17, <2>25
    <3> HIDE DEF d
    <3>3. d * q >= y - m
      BY <2>17, <2>23, <3>2
    <3> QED
      BY <2>20, <3>1, <3>3 DEF d, y
  <2> QED
    BY <2>26, <2>27
<1> QED
  BY <1>1, RecordIsSound, PTL

-----------------------------------------------------------------------------
(***************************************************************************)
(* What an undo reverses.                                                  *)
(***************************************************************************)
\* When every run is over and recorded, all of its lines are on the disk.
LEMMA AllKept ==
  ASSUME IInv, RecordInv, AllRecorded, NEW r \in DOMAIN runs
  PROVE  Present(runs[r], r, ToSet(disk)) /\ Present(runs[r], r, ToSet(Text))
<1>1. KeptOf(r) /\ (Hand(r) => runs[r].ending # "") /\ r \notin unsynced
  BY DEF RecordInv, Kept, AllRecorded
<1>2. Present(runs[r], r, ToSet(disk))
  BY <1>1 DEF KeptOf
<1>3. ToSet(disk) \subseteq ToSet(Text)
  BY LinesTyped DEF IInv
<1> QED
  BY <1>2, <1>3, MorePresent

\* When runs began.
LEMMA Began ==
  ASSUME IInv, RecordInv
  PROVE  /\ \E n \in Nat : n = Len(runs) /\ DOMAIN runs = 1..n
         /\ \A r \in DOMAIN runs : runs[r].began \in Nat
         /\ \A s, r \in DOMAIN runs : s < r => runs[s].began < runs[r].began
         /\ LongAgo \in Int /\ \A r \in DOMAIN runs : LongAgo < runs[r].began
         /\ \A r \in DOMAIN runs : runs[r].began - LongAgo > Gap
<1>1. \E n \in Nat : n = Len(runs) /\ DOMAIN runs = 1..n
  <2> DEFINE T == RunType
  <2>1. runs \in Seq(T)
    BY DEF IInv, TypeOK
  <2> HIDE DEF T
  <2>2. Len(runs) \in Nat /\ DOMAIN runs = 1..Len(runs)
    BY <2>1, LenProperties
  <2> QED
    BY <2>2
<1>2. \A r \in DOMAIN runs : runs[r].began \in Nat
  BY RunTypes DEF IInv
<1>3. \A s, r \in DOMAIN runs : s < r => runs[s].began < runs[r].began
  BY DEF RecordInv, RunsSound, Successive
<1>4. Gap \in Nat /\ LongAgo = -Gap - 1
  BY LimitType DEF LongAgo
<1>5. LongAgo \in Int /\ \A b \in Nat : LongAgo < b /\ b - LongAgo > Gap
  BY <1>4
<1> QED
  BY <1>1, <1>2, <1>3, <1>5

\* A newer run that did not overlap with one that is read, is read from its start.
LEMMA NewerRead ==
  ASSUME IInv, RecordInv, AllRecorded, NEW x \in ToSet(Window), NEW q \in DOMAIN runs,
         x.run \in DOMAIN runs, x.run < q, ~Overlap(runs[x.run], runs[q])
  PROVE  HasStart(q, ToSet(Window))
<1>1. PICK y \in ToSet(Text) : StartOf(y, q)
  BY AllKept DEF Present
<1>2. y.run = q /\ q > x.run
  <2>1. q \in Nat /\ x.run \in Nat
    BY RunTypes DEF IInv
  <2> QED
    BY <1>1, <2>1 DEF StartOf
<1>3. ~Fits(y, x, runs)
  BY <1>2 DEF Fits
<1>4. y \in ToSet(Window)
  BY <1>3, InWindow
<1> QED
  BY <1>1, <1>4 DEF HasStart

\* Where the runs of a read stand.
LEMMA Places ==
  ASSUME IInv, RecordInv
  PROVE  LET p == LoadRuns
         IN  /\ \E n \in Nat : DOMAIN p = 1..n
             /\ \A k \in DOMAIN p : /\ p[k].id \in DOMAIN runs /\ p[k].began \in Int
                                    /\ \/ p[k].began = runs[p[k].id].began
                                       \/ p[k].began = LongAgo
             /\ \A k, l \in DOMAIN p : p[k].began > p[l].began => k < l
             /\ \A r \in DOMAIN runs : HasStart(r, ToSet(Window)) =>
                  \E k \in DOMAIN p : p[k].id = r
             /\ \A k \in DOMAIN p : HasStart(p[k].id, ToSet(Window)) =>
                  /\ p[k].began = runs[p[k].id].began /\ p[k].verb = runs[p[k].id].job.verb
<1> DEFINE p == LoadRuns
           W == ToSet(Window)
<1>1. Newest(p, W)
  BY LoadReads
<1>2. \A k \in DOMAIN p : Reads(p[k], W) /\ p[k] \in ReadType
  BY ReadsTrue
<1> HIDE DEF p, W
<1>3. \A k \in DOMAIN p : /\ p[k].id \in DOMAIN runs /\ p[k].began \in Int
                          /\ \/ p[k].began = runs[p[k].id].began
                             \/ p[k].began = LongAgo
  BY <1>2, ReadFields DEF Reads
<1>4. ASSUME NEW r \in DOMAIN runs, HasStart(r, W) PROVE \E k \in DOMAIN p : p[k].id = r
  <2>1. PICK x \in W : x.run = r
    BY <1>4 DEF HasStart, StartOf
  <2> QED
    BY <1>1, <2>1 DEF Newest
<1>5. \A k \in DOMAIN p : HasStart(p[k].id, W) =>
        p[k].began = runs[p[k].id].began /\ p[k].verb = runs[p[k].id].job.verb
  BY <1>2 DEF Reads
<1>6. (\E n \in Nat : DOMAIN p = 1..n) /\ \A k, l \in DOMAIN p : p[k].began > p[l].began => k < l
  BY <1>1 DEF Newest
<1> QED
  BY <1>3, <1>4, <1>5, <1>6 DEF p, W

\* What ends an episode.
EndsEpisode(read, j) == j \in DOMAIN read /\ (read[j].verb \in Undoers \/ FarApart(read, j))

\* Nothing of an older outage is in the newest episode: a run in it, of which a step was
\* read, is of the outage.
LEMMA NothingElse ==
  ASSUME IInv, RecordInv, AllRecorded, NEW i \in DOMAIN LoadRuns,
         \A j : EndsEpisode(LoadRuns, j) => i < j,
         LoadRuns[i].ending # "aborted",
         NEW k \in Completed(LoadRuns[i])
  PROVE  LoadRuns[i].id \in Outage /\ k \in 1..runs[LoadRuns[i].id].ended
         /\ runs[LoadRuns[i].id].acted[k] = "done"
<1> DEFINE p == LoadRuns
           r == p[i].id
           W == ToSet(Window)
<1>1. /\ r \in DOMAIN runs /\ k \in 1..runs[r].announced
      /\ k \in 1..runs[r].ended /\ runs[r].acted[k] = "done"
      /\ \E x \in W : StepStartOf(x, r, k)
      /\ HasEnd(r, W) => p[i].ending = runs[r].ending
  BY ReadsTrue DEF Reads
<1>2. PICK x \in W : StepStartOf(x, r, k)
  BY <1>1
<1>3. x.run = r
  BY <1>2 DEF StepStartOf
<1>4. /\ \E n \in Nat : DOMAIN p = 1..n
      /\ \A l \in DOMAIN p : /\ p[l].id \in DOMAIN runs /\ p[l].began \in Int
                             /\ \/ p[l].began = runs[p[l].id].began
                                \/ p[l].began = LongAgo
      /\ \A m, l \in DOMAIN p : p[m].began > p[l].began => m < l
      /\ \A s \in DOMAIN runs : HasStart(s, W) => \E l \in DOMAIN p : p[l].id = s
      /\ \A l \in DOMAIN p : HasStart(p[l].id, W) =>
           /\ p[l].began = runs[p[l].id].began /\ p[l].verb = runs[p[l].id].job.verb
  BY Places
<1>5. /\ \E n \in Nat : n = Len(runs) /\ DOMAIN runs = 1..n
      /\ \A s \in DOMAIN runs : runs[s].began \in Nat
      /\ \A s, q \in DOMAIN runs : s < q => runs[s].began < runs[q].began
      /\ LongAgo \in Int /\ \A s \in DOMAIN runs : LongAgo < runs[s].began
      /\ \A s \in DOMAIN runs : runs[s].began - LongAgo > Gap
  BY Began
<1>6. \A j : EndsEpisode(p, j) => i < j
  OBVIOUS
<1>7. \A q \in DOMAIN runs : r < q /\ ~Overlap(runs[r], runs[q]) => HasStart(q, W)
  BY <1>1, <1>3, NewerRead
<1>8. runs[r].ending # "aborted"
  <2> SUFFICES ASSUME runs[r].ending = "aborted" PROVE FALSE
    OBVIOUS
  <2>1. Present(runs[x.run], x.run, ToSet(disk))
    BY <1>1, <1>3, AllKept
  <2>2. HasEnd(r, W)
    BY <1>3, <2>1, EndRead
  <2> QED
    BY <1>1, <2>2
<1>9. runs[r].job.verb \notin Undoers
  <2> SUFFICES ASSUME runs[r].job.verb \in Undoers PROVE FALSE
    OBVIOUS
  <2>1. runs[r].announced = 0
    BY <1>1 DEF RecordInv, RunsSound, RunSound
  <2> QED
    BY <1>1, <2>1
<1> HIDE DEF p, W
<1> PICK R : R = r
  OBVIOUS
<1>10. ASSUME NEW j \in R..Len(runs), runs[j].job.verb \in Undoers PROVE FALSE
  <2>1. j # R
    BY <1>9, <1>10
  <2>2. R \in DOMAIN runs /\ j \in DOMAIN runs /\ R < j
    <3>1. PICK n \in Nat : n = Len(runs) /\ DOMAIN runs = 1..n
      BY <1>5
    <3>2. R \in 1..n
      BY <1>1, <3>1
    <3> QED
      BY <2>1, <3>1, <3>2
  <2>3. ~Overlap(runs[R], runs[j])
    BY <1>10 DEF Overlap
  <2>4. HasStart(j, W)
    BY <1>7, <2>2, <2>3
  <2>5. PICK l \in DOMAIN p : p[l].id = j
    BY <1>4, <2>2, <2>4
  <2>6. p[l].began = runs[j].began /\ p[l].verb = runs[j].job.verb
    BY <1>4, <2>4, <2>5
  <2>7. i < l
    BY <1>6, <1>10, <2>5, <2>6 DEF EndsEpisode
  <2>8. p[l].began > p[i].began
    <3>1. i \in DOMAIN p /\ p[i].id = R
      BY DEF p
    <3>2. runs[R].began < runs[j].began /\ LongAgo < runs[j].began
      BY <1>5, <2>2
    <3>3. p[i].began = runs[R].began \/ p[i].began = LongAgo
      BY <1>4, <3>1
    <3> QED
      BY <1>5, <2>2, <2>6, <3>2, <3>3
  <2>9. l < i
    BY <1>4, <2>8 DEF p
  <2>10. l \in Nat /\ i \in Nat
    BY <1>4 DEF p
  <2> QED
    BY <2>7, <2>9, <2>10
<1>11. ASSUME NEW j \in (R + 1)..Len(runs), ~(runs[j].began - runs[j - 1].began <= Gap) PROVE FALSE
  <2>1. PICK n \in Nat : n = Len(runs) /\ DOMAIN runs = 1..n
    BY <1>5
  <2>2. R \in 1..n /\ j \in 1..n /\ j - 1 \in 1..n /\ R < j /\ R <= j - 1 /\ j \in Nat
    <3>1. R \in 1..n
      BY <1>1, <2>1
    <3> QED
      BY <1>11, <2>1, <3>1
  <2> DEFINE b == runs[j].began
             a == runs[j - 1].began
  <2>3. a \in Nat /\ b \in Nat /\ b - a > Gap /\ Gap \in Nat /\ Limit \in Nat /\ Limit <= Gap
    <3>1. a \in Nat /\ b \in Nat /\ Gap \in Nat /\ Limit \in Nat /\ Limit <= Gap
      BY <1>5, <2>1, <2>2, LimitType
    <3> QED
      BY <1>11, <3>1
  <2>4. \A q \in 1..n : j <= q => runs[q].began \in Nat /\ b <= runs[q].began
    <3> SUFFICES ASSUME NEW q \in 1..n, j <= q PROVE runs[q].began \in Nat /\ b <= runs[q].began
      OBVIOUS
    <3>1. runs[q].began \in Nat /\ (j < q => b < runs[q].began)
      BY <1>5, <2>1, <2>2
    <3>2. j < q \/ j = q
      BY <2>2
    <3> QED
      BY <2>3, <3>1, <3>2
  <2>5. \A s \in 1..n : ~(j <= s) => runs[s].began \in Nat /\ runs[s].began <= a
    <3> SUFFICES ASSUME NEW s \in 1..n, ~(j <= s) PROVE runs[s].began \in Nat /\ runs[s].began <= a
      OBVIOUS
    <3>1. runs[s].began \in Nat /\ (s < j - 1 => runs[s].began < a)
      BY <1>5, <2>1, <2>2
    <3>2. s < j - 1 \/ s = j - 1
      BY <2>2
    <3> QED
      BY <2>3, <3>1, <3>2
  <2> HIDE DEF a, b
  <2>6. ASSUME NEW q \in 1..n, j <= q PROVE HasStart(q, W)
    <3>1. ~(j <= R) /\ R < q
      BY <2>2, <2>6
    <3> DEFINE d == runs[q].began  c == runs[R].began
    <3>2. d \in Nat /\ b <= d /\ c \in Nat /\ c <= a
      BY <2>2, <2>4, <2>5, <2>6, <3>1
    <3> HIDE DEF c, d
    <3>3. ~(d - c <= Limit)
      BY <2>3, <3>2
    <3>4. ~Overlap(runs[R], runs[q])
      BY <3>3 DEF Overlap, c, d
    <3> QED
      BY <1>7, <2>1, <3>1, <3>4
  <2>7. ASSUME NEW l \in DOMAIN p, j <= p[l].id PROVE p[l].began \in Int /\ b <= p[l].began
    <3>1. p[l].id \in 1..n /\ p[l].began \in Int
      BY <1>4, <2>1
    <3>2. p[l].began = runs[p[l].id].began
      BY <1>4, <2>6, <2>7, <3>1
    <3> QED
      BY <2>4, <2>7, <3>1, <3>2
  <2>8. ASSUME NEW l \in DOMAIN p, ~(j <= p[l].id) PROVE p[l].began \in Int /\ b - p[l].began > Gap
    <3>1. p[l].id \in 1..n /\ p[l].began \in Int
      BY <1>4, <2>1
    <3>2. CASE p[l].began = LongAgo
      <4>1. b - LongAgo > Gap
        BY <1>5, <2>1, <2>2 DEF b
      <4> QED
        BY <3>1, <3>2, <4>1
    <3>3. CASE p[l].began = runs[p[l].id].began
      <4>1. p[l].began \in Nat /\ p[l].began <= a
        BY <2>5, <2>8, <3>1, <3>3
      <4> QED
        BY <2>3, <4>1
    <3> QED
      BY <1>4, <3>2, <3>3
  <2>9. PICK l \in DOMAIN p : p[l].id = j
    BY <1>4, <2>1, <2>2, <2>6
  <2>10. i \in DOMAIN p /\ ~(j <= p[i].id)
    BY <2>2 DEF p
  <2> DEFINE Older == {m \in DOMAIN p : ~(j <= p[m].id)}
  <2>11. DOMAIN p \subseteq Nat /\ \A m \in DOMAIN p : m \in Nat /\ (m # 1 => m - 1 \in DOMAIN p)
    BY <1>4
  <2>12. PICK m \in Older : \A o \in Older : ~(o < m)
    <3>1. Older \subseteq Nat /\ Older # {}
      BY <2>10, <2>11
    <3> HIDE DEF Older
    <3> QED
      BY <3>1, Least
  <2>13. m \in DOMAIN p /\ m \in Nat /\ i \in Nat /\ l \in Nat /\ ~(i < m) /\ ~(j <= p[m].id)
    BY <2>10, <2>11, <2>12
  <2>14. p[l].began > p[m].began
    <3>1. p[m].began \in Int /\ b - p[m].began > Gap
      BY <2>8, <2>13
    <3>2. p[l].began \in Int /\ b <= p[l].began
      BY <2>2, <2>7, <2>9
    <3> QED
      BY <2>3, <3>1, <3>2
  <2>15. l < m
    BY <1>4, <2>13, <2>14
  <2>16. m # 1 /\ m - 1 \in DOMAIN p /\ m - 1 < m /\ m > 1
    <3>1. l # 0
      BY <1>4
    <3>2. m # 1 /\ m > 1 /\ m - 1 < m
      BY <2>13, <2>15, <3>1
    <3> QED
      BY <2>11, <2>13, <3>2
  <2>17. j <= p[m - 1].id
    BY <2>12, <2>16
  <2>18. p[m - 1].began - p[m].began > Gap
    <3>1. p[m].began \in Int /\ b - p[m].began > Gap
      BY <2>8, <2>13
    <3>2. p[m - 1].began \in Int /\ b <= p[m - 1].began
      BY <2>7, <2>16, <2>17
    <3> QED
      BY <2>3, <3>1, <3>2
  <2>19. EndsEpisode(p, m)
    BY <2>13, <2>16, <2>18 DEF EndsEpisode, FarApart
  <2> QED
    BY <1>6, <2>13, <2>19
<1>12. R \in Outage
  BY <1>1, <1>8, <1>10, <1>11 DEF Outage
<1> QED
  BY <1>1, <1>12 DEF p

\* And nothing of the outage is missing from it, if the window holds all of the journal.
LEMMA NothingMissing ==
  ASSUME IInv, RecordInv, AllRecorded, Len(Text) <= MaxLines,
         NEW r \in Outage, NEW k \in 1..runs[r].ended, runs[r].acted[k] = "done"
  PROVE  \E l \in DOMAIN LoadRuns :
           /\ LoadRuns[l].id = r /\ LoadRuns[l].ending # "aborted"
           /\ k \in Completed(LoadRuns[l])
           /\ \A j : EndsEpisode(LoadRuns, j) => l < j
<1> DEFINE p == LoadRuns
           W == ToSet(Window)
<1>1. /\ r \in DOMAIN runs /\ runs[r].ending # "aborted"
      /\ \A j \in r..Len(runs) : runs[j].job.verb \notin Undoers
      /\ \A j \in (r + 1)..Len(runs) : runs[j].began - runs[j - 1].began <= Gap
  BY DEF Outage
<1>2. W = ToSet(Text)
  BY WindowIsLast DEF IInv, RecordInv, LinesInTurn
<1>3. \A s \in DOMAIN runs : Present(runs[s], s, W)
  BY <1>2, AllKept
<1>4. \A s \in DOMAIN runs : HasStart(s, W)
  BY <1>3 DEF Present, HasStart
<1>5. /\ \E n \in Nat : DOMAIN p = 1..n
      /\ \A l \in DOMAIN p : /\ p[l].id \in DOMAIN runs /\ p[l].began \in Int
                             /\ \/ p[l].began = runs[p[l].id].began
                                \/ p[l].began = LongAgo
      /\ \A m, l \in DOMAIN p : p[m].began > p[l].began => m < l
      /\ \A s \in DOMAIN runs : HasStart(s, W) => \E l \in DOMAIN p : p[l].id = s
      /\ \A l \in DOMAIN p : HasStart(p[l].id, W) =>
           /\ p[l].began = runs[p[l].id].began /\ p[l].verb = runs[p[l].id].job.verb
  BY Places
<1>6. \A l \in DOMAIN p : Reads(p[l], W) /\ ToldOf(p[l], W, W)
  BY ReadsTrue, LoadReads DEF Newest
<1>7. \A x \in W : TrueOf(x, runs)
  BY <1>2 DEF RecordInv, LinesTrue
<1>8. PICK n \in Nat : n = Len(runs) /\ DOMAIN runs = 1..n
  BY Began
<1>9. /\ \A s \in 1..n : runs[s].began \in Nat
      /\ \A s, q \in 1..n : s < q => runs[s].began < runs[q].began
  BY <1>8, Began
<1>10. Gap \in Nat /\ k \in Nat
  <2>1. runs[r].ended \in Nat
    BY <1>1, RunTypes DEF IInv
  <2> QED
    BY <2>1, LimitType
<1> HIDE DEF p, W
<1>11. PICK l \in DOMAIN p : p[l].id = r
  BY <1>1, <1>4, <1>5
<1>12. p[l].ending # "aborted"
  BY <1>1, <1>6, <1>11 DEF Reads
<1>13. k \in Completed(p[l])
  <2>1. k \in 1..runs[r].announced
    <3>1. runs[r].ended <= runs[r].announced
      BY <1>1 DEF RecordInv, RunsSound, RunSound
    <3>2. runs[r].announced \in Nat /\ runs[r].ended \in Nat
      BY <1>1, RunTypes DEF IInv
    <3> QED
      BY <3>1, <3>2
  <2>2. (\E x \in W : StepStartOf(x, r, k)) /\ (\E x \in W : StepEndOf(x, r, k))
    BY <1>1, <1>3, <2>1 DEF Present
  <2>3. k \in DOMAIN p[l].steps /\ p[l].steps[k].action
    BY <1>6, <1>10, <1>11, <2>2 DEF ToldOf, StartsTold
  <2>4. PICK x \in W : StepEndOf(x, r, k) /\ p[l].steps[k].outcome = x.is
    BY <1>6, <1>10, <1>11, <2>2 DEF ToldOf, EndsTold
  <2>5. x.is = runs[r].acted[k]
    BY <1>7, <2>4 DEF TrueOf, Says, StepEndOf
  <2> QED
    BY <2>3, <2>4, <2>5 DEF Completed
<1>14. \A m \in DOMAIN p : /\ p[m].id \in 1..n
                           /\ p[m].began = runs[p[m].id].began /\ p[m].verb = runs[p[m].id].job.verb
  BY <1>4, <1>5, <1>8
<1>15. r \in 1..n /\ DOMAIN p \subseteq Nat
  BY <1>1, <1>5, <1>8
<1>16. ASSUME NEW j \in DOMAIN p, ~(l < j) PROVE r <= p[j].id
  <2> SUFFICES ASSUME p[j].id < r PROVE FALSE
    BY <1>14, <1>15
  <2>1. runs[p[j].id].began < runs[r].began
    BY <1>9, <1>14, <1>15
  <2>2. p[l].began > p[j].began
    BY <1>9, <1>11, <1>14, <1>15, <2>1
  <2>3. l < j
    BY <1>5, <2>2
  <2> QED
    BY <1>16, <2>3
<1>17. ASSUME NEW j \in DOMAIN p, ~(l < j), p[j].verb \in Undoers PROVE FALSE
  <2>1. p[j].id \in r..n
    BY <1>14, <1>15, <1>16, <1>17
  <2> QED
    BY <1>1, <1>8, <1>14, <1>17, <2>1
<1>18. ASSUME NEW j \in DOMAIN p, ~(l < j), FarApart(p, j) PROVE FALSE
  <2>1. j > 1 /\ p[j - 1].began - p[j].began > Gap /\ j - 1 \in DOMAIN p /\ j \in Nat
    BY <1>5, <1>18 DEF FarApart
  <2> PICK q \in 1..n : q = p[j - 1].id
    BY <1>14, <2>1
  <2> PICK s \in 1..n : s = p[j].id
    BY <1>14
  <2>2. /\ p[j - 1].began = runs[q].began /\ p[j].began = runs[s].began
        /\ runs[q].began \in Nat /\ runs[s].began \in Nat
    BY <1>9, <1>14, <2>1
  <2>3. runs[q].began - runs[s].began > Gap
    BY <2>1, <2>2
  <2>4. s < q
    <3>1. runs[s].began < runs[q].began
      BY <1>10, <2>2, <2>3
    <3>2. q # s /\ ~(q < s)
      BY <1>9, <2>2, <3>1
    <3> QED
      BY <3>2
  <2>5. s + 1 \in 1..n /\ s + 1 \in (r + 1)..n /\ s < s + 1 /\ s + 1 - 1 = s
    <3>1. r <= s /\ r \in 1..n
      BY <1>15, <1>16, <1>18
    <3> QED
      BY <2>4, <3>1
  <2> PICK t \in 1..n : t = s + 1
    BY <2>5
  <2>6. runs[t].began - runs[s].began <= Gap
    BY <1>1, <1>8, <2>5
  <2>7. runs[t].began \in Nat /\ runs[s].began < runs[t].began
    BY <1>9, <2>5
  <2>8. PICK m \in DOMAIN p : p[m].id = t
    BY <1>4, <1>5, <1>8
  <2>9. p[m].began = runs[t].began
    BY <1>14, <2>8
  <2>10. p[j - 1].began > p[m].began /\ p[m].began > p[j].began
    <3> DEFINE a == runs[s].began  b == runs[t].began  c == runs[q].began
    <3>1. a \in Nat /\ b \in Nat /\ c \in Nat /\ c - a > Gap /\ b - a <= Gap /\ a < b
      BY <2>2, <2>3, <2>6, <2>7
    <3> HIDE DEF a, b, c
    <3>2. c > b /\ b > a
      BY <1>10, <3>1
    <3> QED
      BY <2>2, <2>9, <3>2 DEF a, b, c
  <2>11. j - 1 < m /\ m < j
    BY <1>5, <2>1, <2>10
  <2>12. m \in Nat
    BY <1>15, <2>8
  <2> QED
    BY <2>1, <2>11, <2>12
<1>19. \A j : EndsEpisode(p, j) => l < j
  BY <1>17, <1>18 DEF EndsEpisode
<1> QED
  BY <1>11, <1>12, <1>13, <1>19 DEF p

\* The steps that the reading p undoes.
LEMMA UndoesOf ==
  ASSUME NEW p
  PROVE  \A u : u \in Undoes(p) <=>
           \E i \in DOMAIN p : /\ \A j : EndsEpisode(p, j) => i < j
                               /\ p[i].ending # "aborted"
                               /\ \E k \in Completed(p[i]) : u = <<p[i].id, k>>
<1> DEFINE E == Episode(p)
           Ends == {i \in DOMAIN p : p[i].verb \in Undoers \/ FarApart(p, i)}
<1>1. \A j : j \in Ends <=> EndsEpisode(p, j)
  BY DEF EndsEpisode
<1>2. E = {p[i] : i \in {i \in DOMAIN p : (\A j \in Ends : i < j) /\ p[i].ending # "aborted"}}
  BY DEF Episode
<1> HIDE DEF E, Ends
<1>3. \A run : run \in E <=>
        \E i \in DOMAIN p : /\ \A j : EndsEpisode(p, j) => i < j
                            /\ p[i].ending # "aborted" /\ run = p[i]
  BY <1>1, <1>2
<1>4. \A u : u \in Undoes(p) <=> \E run \in E : \E k \in Completed(run) : u = <<run.id, k>>
  BY DEF Undoes, E
<1> QED
  BY <1>3, <1>4

\* An undo reverses what the runs of the outage completed, all of it if the window holds
\* the journal, and nothing else.
THEOREM UndoFinds == Spec => []UndoFindsTheOutage
<1>1. IInv /\ RecordInv => UndoFindsTheOutage
  <2> SUFFICES ASSUME IInv, RecordInv, AllRecorded
               PROVE  /\ Undoes(LoadRuns) \subseteq TookDown
                      /\ Len(Text) <= MaxLines => TookDown \subseteq Undoes(LoadRuns)
    BY DEF UndoFindsTheOutage
  <2> DEFINE p == LoadRuns
  <2>1. \A u : u \in TookDown <=>
          \E r \in Outage : \E k \in 1..runs[r].ended : runs[r].acted[k] = "done" /\ u = <<r, k>>
    BY DEF TookDown
  <2>2. \A u : u \in Undoes(p) <=>
          \E i \in DOMAIN p : /\ \A j : EndsEpisode(p, j) => i < j
                              /\ p[i].ending # "aborted"
                              /\ \E k \in Completed(p[i]) : u = <<p[i].id, k>>
    BY UndoesOf
  <2>3. ASSUME NEW i \in DOMAIN p, \A j : EndsEpisode(p, j) => i < j, p[i].ending # "aborted",
               NEW k \in Completed(p[i])
        PROVE  p[i].id \in Outage /\ k \in 1..runs[p[i].id].ended
               /\ runs[p[i].id].acted[k] = "done"
    BY <2>3, NothingElse
  <2>4. ASSUME Len(Text) <= MaxLines, NEW r \in Outage, NEW k \in 1..runs[r].ended,
               runs[r].acted[k] = "done"
        PROVE  \E l \in DOMAIN p : /\ p[l].id = r /\ p[l].ending # "aborted"
                                   /\ k \in Completed(p[l])
                                   /\ \A j : EndsEpisode(p, j) => l < j
    BY <2>4, NothingMissing
  <2> HIDE DEF p
  <2>5. Undoes(p) \subseteq TookDown
    BY <2>1, <2>2, <2>3
  <2>6. Len(Text) <= MaxLines => TookDown \subseteq Undoes(p)
    BY <2>1, <2>2, <2>4
  <2> QED
    BY <2>5, <2>6 DEF p
<1> QED
  BY <1>1, RecordIsSound, PTL
=============================================================================
