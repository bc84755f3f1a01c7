------------------------------- MODULE NutProofs -------------------------------
(***************************************************************************)
(* Proofs about Nut, for any upsds, any upsmon.conf, any calls and any     *)
(* dial timeout.                                                           *)
(***************************************************************************)
EXTENDS Nut, SequenceTheorems, TLAPS

\* Once a reading has a status, that status came from the endpoint in use.
StatusComesFirst == call.op = "read" /\ question > 1 => reading[1] = at

\* A cut is dialled for its first line.
CutStartsOver == call.op = "cut" /\ pc \in {"try", "dial"} => question = 1

\* A command that a driver has or may yet carry out is the one being followed, or one
\* whose connection ended.
Followed ==
  \A u \in Upsd : driver[u] \in {"pending", "armed"} =>
    u \in lost \/ (u = Here /\ (Name = "GET TRACKING" \/ Done))

IInv ==
  /\ TypeOK /\ DeadlineHonoured /\ ReadingOfOneUpsd /\ StatusComesFirst
  /\ CutStartsOver /\ Followed /\ CutReportedIsTaken

-----------------------------------------------------------------------------
(***************************************************************************)
(* Types.                                                                  *)
(***************************************************************************)
\* The endpoint in use is a line of the file, and names a upsd.
LEMMA HereType ==
  ASSUME TypeOK
  PROVE  /\ Len(endpoints) \in Nat /\ DOMAIN endpoints = 1..Len(endpoints)
         /\ \A k \in DOMAIN endpoints : endpoints[k].upsd \in Upsd
         /\ call \in CallType /\ Here \in Upsd
<1>1. call \in CallType
  BY CallsAssumption DEF TypeOK
<1>2. endpoints \in Seq(LineType) /\ at \in DOMAIN endpoints
  BY DEF TypeOK
<1>3. Len(endpoints) \in Nat /\ DOMAIN endpoints = 1..Len(endpoints)
  BY <1>2, LenProperties
<1>4. \A k \in DOMAIN endpoints : endpoints[k] \in LineType
  BY <1>2, <1>3, ElementOfSeq
<1>5. \A line \in LineType : line.upsd \in Upsd
  BY DEF LineType
<1> QED
  BY <1>1, <1>2, <1>3, <1>4, <1>5 DEF Here

\* The lines of the conversation are asked by a cut alone, in their order.
LEMMA NameOf ==
  ASSUME TypeOK
  PROVE  /\ Name = "USERNAME" <=> call.op = "cut" /\ question = 1
         /\ Name = "PASSWORD" <=> call.op = "cut" /\ question = 2
         /\ Name = "SET TRACKING" <=> call.op = "cut" /\ question = 3
         /\ Name = "INSTCMD" <=> call.op = "cut" /\ question = 4
         /\ Name = "GET TRACKING" <=> call.op = "cut" /\ question = 5
<1>a. question \in 1..5 /\ (call.op # "cut" => question \in 1..4)
  BY DEF TypeOK
<1>b. question \in {1, 2, 3, 4, 5} /\ (question = 5 => call.op = "cut")
  BY <1>a
<1> USE DEF Name, Questions, Talk, Vars
<1>1. CASE question = 1
  BY <1>1
<1>2. CASE question = 2
  BY <1>2
<1>3. CASE question = 3
  BY <1>3
<1>4. CASE question = 4
  BY <1>4
<1>5. CASE question = 5 /\ call.op = "cut"
  BY <1>5
<1> QED
  BY <1>b, <1>1, <1>2, <1>3, <1>4, <1>5

\* A call begins with its first variable or line, at the first endpoint.
LEMMA InitTypeOK == Init => TypeOK
<1> SUFFICES ASSUME Init PROVE TypeOK
  OBVIOUS
<1>1. PICK conf \in Confs : Monitors(conf) # <<>> /\ endpoints = Monitors(conf)
  BY DEF Init
<1>2. endpoints \in Seq(LineType) /\ endpoints # <<>>
  BY <1>1, ConfsAssumption
<1>3. at \in DOMAIN endpoints
  <2>1. DOMAIN endpoints = 1..Len(endpoints) /\ Len(endpoints) \in Nat
    BY <1>2, LenProperties
  <2>2. Len(endpoints) # 0
    BY <1>2, EmptySeq
  <2> QED
    <3>1. at = 1
      BY DEF Init
    <3> QED
      BY <2>1, <2>2, <3>1
<1>4. question \in 1..4
  <2>1. question = First
    BY DEF Init
  <2> QED
    BY <2>1 DEF First
<1>5. reading \in [1..4 -> {0} \union DOMAIN endpoints]
  BY DEF Init, NoReading
<1>6. driver \in [Upsd -> {"idle", "pending", "armed", "refused"}]
  BY DEF Init
<1>7. /\ call \in Calls /\ health \in [Upsd -> Health]
      /\ pc = "try" /\ tracking = FALSE /\ result = "" /\ lost = {}
  BY DEF Init
<1>8. now \in Nat /\ since \in 0..now
  <2>1. now = 0 /\ since = 0
    BY DEF Init
  <2> QED
    BY <2>1
<1>9. question \in 1..5 /\ (call.op # "cut" => question \in 1..4)
  BY <1>4
<1> QED
  BY <1>2, <1>3, <1>5, <1>6, <1>7, <1>8, <1>9 DEF TypeOK

\* The client's part of the type, which a failure keeps.
ClientOK ==
  /\ pc \in {"try", "dial", "asked", "pause", "done"}
  /\ at \in DOMAIN endpoints /\ question \in 1..5
  /\ call.op # "cut" => question \in 1..4
  /\ tracking \in BOOLEAN
  /\ reading \in [1..4 -> {0} \union DOMAIN endpoints]
  /\ result \in {"", "ok", "error"}

\* Going to the next endpoint, or going on without the variable, keeps the type.
LEMMA FailedType ==
  ASSUME TypeOK, Failed, UNCHANGED <<call, endpoints>>
  PROVE  ClientOK' /\ since' = since
<1>1. NoReading \in [1..4 -> {0} \union DOMAIN endpoints]
  BY DEF NoReading
<1>2. /\ at \in 1..Len(endpoints) /\ Len(endpoints) \in Nat
  BY HereType DEF TypeOK
<1>d. DOMAIN endpoints = 1..Len(endpoints)
  BY HereType
<1>3. ClientOK
  BY DEF TypeOK, ClientOK
<1>4. CASE NextEndpoint /\ at = Len(endpoints)
  BY <1>1, <1>3, <1>4 DEF NextEndpoint, Finish, ClientOK
<1>5. CASE NextEndpoint /\ at # Len(endpoints)
  <2>1. First \in 1..4 /\ First \in 1..5
    BY DEF First
  <2>2. at # Len(endpoints)
    BY <1>5
  <2>3. at + 1 \in 1..Len(endpoints)
    BY <1>2, <2>2
  <2>4. at + 1 \in DOMAIN endpoints
    BY <1>d, <2>3
  <2> QED
    BY <1>1, <1>3, <1>5, <2>1, <2>4 DEF NextEndpoint, ClientOK
<1>6. CASE call.op = "read" /\ question > 1 /\ Missing /\ question = 4
  BY <1>3, <1>6 DEF Missing, Finish, ClientOK
<1>7. CASE call.op = "read" /\ question > 1 /\ Missing /\ question # 4
  <2>1. question \in 1..4
    BY <1>3, <1>7 DEF ClientOK
  <2>2. question + 1 \in 1..4 /\ question + 1 \in 1..5
    BY <1>7, <2>1
  <2> QED
    BY <1>3, <1>7, <2>2 DEF Missing, ClientOK
<1> QED
  BY <1>4, <1>5, <1>6, <1>7 DEF Failed

\* Type correctness is kept by every step.
LEMMA StepTypeOK == TypeOK /\ [Next]_vars => TypeOK'
<1> SUFFICES ASSUME TypeOK, [Next]_vars PROVE TypeOK'
  OBVIOUS
<1>0. /\ now \in Nat /\ since \in 0..now /\ call \in CallType /\ Here \in Upsd
      /\ driver \in [Upsd -> {"idle", "pending", "armed", "refused"}] /\ lost \subseteq Upsd
  BY HereType DEF TypeOK
<1>a. ASSUME ClientOK', UNCHANGED <<call, endpoints, health>>,
             now' \in {now, now + 1}, since' \in {since, now}, lost' \in {lost, lost \union {Here}},
             driver' = driver \/ driver' = [driver EXCEPT ![Here] = "pending"]
      PROVE  TypeOK'
  <2>1. now' \in Nat /\ since' \in 0..now'
    BY <1>0, <1>a
  <2>2. /\ driver' \in [Upsd -> {"idle", "pending", "armed", "refused"}]
        /\ lost' \subseteq Upsd
    BY <1>0, <1>a
  <2>3. /\ call' \in Calls /\ endpoints' \in Seq(LineType) /\ endpoints' # <<>>
        /\ health' \in [Upsd -> Health]
    BY <1>a DEF TypeOK
  <2> QED
    BY <1>a, <2>1, <2>2, <2>3 DEF TypeOK, ClientOK
<1>b. ASSUME Failed, UNCHANGED <<call, endpoints, health, now>>,
             lost' \in {lost, lost \union {Here}},
             driver' = driver \/ driver' = [driver EXCEPT ![Here] = "pending"]
      PROVE  TypeOK'
  BY <1>a, <1>b, FailedType
<1>c. ClientOK
  BY DEF TypeOK, ClientOK
<1>d. Name \in {"USERNAME", "PASSWORD", "SET TRACKING", "INSTCMD"} =>
        call.op = "cut" /\ question + 1 \in 1..5
  <2>1. Name \in {"USERNAME", "PASSWORD", "SET TRACKING", "INSTCMD"} =>
          call.op = "cut" /\ question \in {1, 2, 3, 4}
    BY NameOf
  <2>2. question \in {1, 2, 3, 4} => question + 1 \in 1..5
    OBVIOUS
  <2> QED
    BY <2>1, <2>2
<1>1. CASE Try
  <2>1. CASE Refused
    BY <1>1, <1>b, <2>1 DEF Try
  <2>2. CASE ~Refused
    BY <1>1, <1>a, <1>c, <2>2 DEF Try, ClientOK
  <2> QED
    BY <2>1, <2>2
<1>2. CASE Accepts
  BY <1>2, <1>a, <1>c DEF Accepts, ClientOK
<1>3. CASE Refuses \/ NoValue \/ Denied
  BY <1>3, <1>b DEF Refuses, NoValue, Denied
<1>4. CASE TimeUp
  BY <1>4, <1>b DEF TimeUp
<1>5. CASE Value
  <2>1. question \in 1..4 /\ at \in DOMAIN endpoints
    BY <1>5, <1>c DEF Value, ClientOK
  <2>2. question # 4 => question + 1 \in 1..4 /\ question + 1 \in 1..5
    BY <2>1
  <2>3. reading' \in [1..4 -> {0} \union DOMAIN endpoints]
    BY <1>5, <1>c, <2>1 DEF Value, ClientOK
  <2>4. ClientOK'
    BY <1>5, <1>c, <2>2, <2>3 DEF Value, Finish, ClientOK
  <2> QED
    BY <1>5, <1>a, <2>4 DEF Value, Finish
<1>6. CASE LoggedOn \/ TrackingSet
  <2>1. call.op = "cut" /\ question + 1 \in 1..5
    BY <1>6, <1>d DEF LoggedOn, TrackingSet, Asked
  <2> QED
    BY <1>6, <1>a, <1>c, <2>1 DEF LoggedOn, TrackingSet, NextLine, ClientOK
<1>7. CASE Queued
  <2>1. call.op = "cut" /\ question + 1 \in 1..5
    BY <1>7, <1>d DEF Queued, Asked
  <2> QED
    BY <1>7, <1>a, <1>c, <2>1 DEF Queued, NextLine, Finish, ClientOK
<1>8. CASE Verdict
  <2>1. CASE Failed
    BY <1>8, <1>b, <2>1 DEF Verdict
  <2>2. CASE ~Failed
    BY <1>8, <1>a, <1>c, <2>2 DEF Verdict, Finish, ClientOK
  <2> QED
    BY <2>1, <2>2
<1>9. CASE Pause
  <2>1. CASE Late
    BY <1>9, <1>b, <2>1 DEF Pause
  <2>2. CASE ~Late
    BY <1>9, <1>a, <1>c, <2>2 DEF Pause, ClientOK
  <2> QED
    BY <2>1, <2>2
<1>10. CASE Breaks
  BY <1>10, <1>b DEF Breaks
<1>11. CASE DriverActs
  BY <1>11 DEF DriverActs, client, TypeOK
<1>12. CASE Tick
  BY <1>12, <1>a, <1>c DEF Tick, client, ClientOK
<1>13. CASE UNCHANGED vars
  BY <1>13 DEF vars, client, TypeOK
<1> QED
  BY <1>1, <1>2, <1>3, <1>4, <1>5, <1>6, <1>7, <1>8, <1>9, <1>10, <1>11, <1>12, <1>13
  DEF Next, Client

-----------------------------------------------------------------------------
(***************************************************************************)
(* One lemma for each part of the invariant.                               *)
(***************************************************************************)
\* Time passes only short of the caller's deadline.
LEMMA StepDeadline == TypeOK /\ DeadlineHonoured /\ [Next]_vars => DeadlineHonoured'
<1> SUFFICES ASSUME TypeOK, DeadlineHonoured, [Next]_vars PROVE DeadlineHonoured'
  OBVIOUS
<1>1. now \in Nat /\ since \in 0..now /\ call \in CallType
  BY HereType DEF TypeOK
<1>2. call.within \in Nat /\ DialTimeout \in Nat /\ since \in Nat
  BY <1>1, CallsAssumption DEF CallType
<1>3. CASE Tick
  <2>1. call' = call /\ now' = now + 1 /\ now < Limit
    BY <1>3 DEF Tick
  <2>2. Limit <= call.within
    BY <1>2 DEF Limit
  <2> QED
    BY <1>1, <1>2, <2>1, <2>2 DEF DeadlineHonoured, Limit
<1>4. CASE Pause /\ ~Late
  <2>1. call' = call /\ now' = now + 1
    BY <1>4 DEF Pause
  <2> QED
    BY <1>1, <1>2, <1>4, <2>1 DEF DeadlineHonoured, Late
<1>5. CASE UNCHANGED <<call, now>>
  BY <1>5 DEF DeadlineHonoured
<1>6. Tick \/ (Pause /\ ~Late) \/ UNCHANGED <<call, now>>
  BY DEF Next, Client, Try, Accepts, Refuses, TimeUp, Value, NoValue, LoggedOn, TrackingSet,
         Queued, Denied, Verdict, Pause, Breaks, DriverActs, vars
<1> QED
  BY <1>3, <1>4, <1>5, <1>6

\* A failure either discards the reading, and with it the variable that was reached,
\* or goes on past a missing variable with the status it has.
LEMMA FailedReading ==
  ASSUME TypeOK, ReadingOfOneUpsd, StatusComesFirst, Failed, UNCHANGED <<call, endpoints>>
  PROVE  ReadingOfOneUpsd' /\ StatusComesFirst'
<1>1. CASE call.op = "read" /\ question > 1 /\ Missing
  <2>1. reading' = reading /\ at' = at /\ call' = call
    BY <1>1 DEF Missing, Finish
  <2>2. reading[1] = at
    BY <1>1 DEF StatusComesFirst
  <2> QED
    BY <2>1, <2>2 DEF ReadingOfOneUpsd, StatusComesFirst
<1>2. CASE ~(call.op = "read" /\ question > 1) /\ NextEndpoint
  <2>1. reading' = NoReading /\ call' = call
    BY <1>2 DEF NextEndpoint
  <2>2. \A v \in 1..4 : reading'[v] = 0
    BY <2>1 DEF NoReading
  <2>3. question' = question \/ question' = First
    BY <1>2 DEF NextEndpoint, Finish
  <2>4. call.op = "read" => ~(First > 1)
    BY DEF First
  <2>5. ~(call.op = "read" /\ question' > 1)
    BY <1>2, <2>3, <2>4
  <2> QED
    BY <2>1, <2>2, <2>5 DEF ReadingOfOneUpsd, StatusComesFirst
<1> QED
  BY <1>1, <1>2 DEF Failed

\* Every variable of a reading is of the endpoint that gave the status.
LEMMA StepReading ==
  TypeOK /\ ReadingOfOneUpsd /\ StatusComesFirst /\ [Next]_vars
    => ReadingOfOneUpsd' /\ StatusComesFirst'
<1> SUFFICES ASSUME TypeOK, ReadingOfOneUpsd, StatusComesFirst, [Next]_vars
             PROVE  ReadingOfOneUpsd' /\ StatusComesFirst'
  OBVIOUS
<1>1. CASE Failed /\ UNCHANGED <<call, endpoints>>
  BY <1>1, FailedReading
<1>2. CASE Value
  <2>1. call' = call /\ at' = at /\ reading' = [reading EXCEPT ![question] = at]
    BY <1>2 DEF Value, Finish
  <2>2. question \in 1..4
    BY <1>2 DEF Value, TypeOK
  <2>3. reading \in [1..4 -> {0} \union DOMAIN endpoints]
    BY DEF TypeOK
  <2>4. \A v \in 1..4 : reading'[v] = IF v = question THEN at ELSE reading[v]
    BY <2>1, <2>2, <2>3
  <2>5. call.op = "read" => reading'[1] = at
    <3>1. CASE question = 1
      BY <2>4, <3>1
    <3>2. CASE question # 1
      <4>1. question > 1
        BY <2>2, <3>2
      <4> QED
        BY <2>4, <3>2, <4>1 DEF StatusComesFirst
    <3> QED
      BY <3>1, <3>2
  <2> QED
    BY <2>1, <2>4, <2>5 DEF ReadingOfOneUpsd, StatusComesFirst
<1>3. CASE UNCHANGED <<call, at, reading>> /\ (question' = question \/ call.op = "cut")
  BY <1>3 DEF ReadingOfOneUpsd, StatusComesFirst
<1>4. Name \in {"USERNAME", "PASSWORD", "SET TRACKING", "INSTCMD"} => call.op = "cut"
  BY NameOf
<1>5. ASSUME Client
      PROVE  \/ Failed /\ UNCHANGED <<call, endpoints>>
             \/ Value
             \/ UNCHANGED <<call, at, reading>> /\ (question' = question \/ call.op = "cut")
  BY <1>4, <1>5 DEF Client, Try, Accepts, Refuses, TimeUp, NoValue, LoggedOn, TrackingSet,
         Queued, Denied, Verdict, Pause, Breaks, Asked, NextLine, Finish
<1>6. ASSUME DriverActs \/ Tick \/ UNCHANGED vars
      PROVE  UNCHANGED <<call, at, reading, question>>
  BY <1>6 DEF DriverActs, Tick, client, vars
<1> QED
  BY <1>1, <1>2, <1>3, <1>5, <1>6 DEF Next

\* A cut goes back to its first line with every endpoint.
LEMMA StepStartsOver == TypeOK /\ CutStartsOver /\ [Next]_vars => CutStartsOver'
<1> SUFFICES ASSUME TypeOK, CutStartsOver, [Next]_vars, call'.op = "cut", pc' \in {"try", "dial"}
             PROVE  question' = 1
  BY DEF CutStartsOver
<1>1. call' = call
  BY DEF Next, Client, Try, Accepts, Refuses, TimeUp, Value, NoValue, LoggedOn, TrackingSet,
         Queued, Denied, Verdict, Pause, Breaks, DriverActs, Tick, vars
<1>2. ASSUME Failed PROVE question' = 1
  BY <1>1, <1>2 DEF Failed, NextEndpoint, Finish, First
<1>3. ASSUME UNCHANGED question, pc \in {"try", "dial"} PROVE question' = 1
  BY <1>1, <1>3 DEF CutStartsOver
<1>4. Failed \/ (UNCHANGED question /\ pc \in {"try", "dial"})
  BY <1>1 DEF Next, Client, Try, Accepts, Refuses, TimeUp, Value, NoValue, LoggedOn,
         TrackingSet, Queued, Denied, Verdict, Pause, Breaks, DriverActs, Tick, vars, client,
         Asked, NextLine, Finish
<1> QED
  BY <1>2, <1>3, <1>4

\* Before the driver's verdict is asked for, nothing is left to an upsd that still has
\* a command and whose connection did not end.
LEMMA NothingLeft ==
  ASSUME TypeOK, Followed, pc # "done", Name # "GET TRACKING"
  PROVE  \A u \in Upsd : driver[u] \in {"pending", "armed"} => u \in lost
  BY DEF Followed, Done

\* An endpoint is left with its command refused, never given, or not heard out.
LEMMA StepFollowed == TypeOK /\ CutStartsOver /\ Followed /\ [Next]_vars => Followed'
<1> SUFFICES ASSUME TypeOK, CutStartsOver, Followed, [Next]_vars PROVE Followed'
  OBVIOUS
<1> DEFINE Left == \A u \in Upsd : driver'[u] \in {"pending", "armed"} => u \in lost'
<1>a. driver \in [Upsd -> {"idle", "pending", "armed", "refused"}] /\ Here \in Upsd
  BY HereType DEF TypeOK
<1>b. Left => Followed'
  BY DEF Followed
<1>c. ASSUME \A u \in Upsd : driver[u] \in {"pending", "armed"} => u \in lost,
             UNCHANGED driver, lost' \in {lost, lost \union {Here}}
      PROVE  Followed'
  BY <1>b, <1>c
<1>d. ASSUME pc # "done", Name # "GET TRACKING",
             UNCHANGED driver, lost' \in {lost, lost \union {Here}}
      PROVE  Followed'
  BY <1>c, <1>d, NothingLeft
<1>e. ASSUME UNCHANGED driver, lost' = lost \union {Here}
      PROVE  Followed'
  BY <1>b, <1>e DEF Followed
<1>1. CASE Try \/ Accepts \/ Refuses
  <2>1. pc \in {"try", "dial"} /\ UNCHANGED <<driver, lost>>
    BY <1>1 DEF Try, Accepts, Refuses
  <2>2. Name # "GET TRACKING"
    BY <2>1, NameOf DEF CutStartsOver
  <2> QED
    BY <1>d, <2>1, <2>2
<1>2. CASE TimeUp
  <2>1. CASE pc = "asked" /\ Name \in {"INSTCMD", "GET TRACKING"}
    BY <1>2, <1>e, <2>1 DEF TimeUp
  <2>2. CASE pc = "asked" /\ Name \notin {"INSTCMD", "GET TRACKING"}
    BY <1>2, <1>d, <2>2 DEF TimeUp
  <2>3. CASE pc = "dial"
    <3>1. Name # "GET TRACKING"
      BY <2>3, NameOf DEF CutStartsOver
    <3> QED
      BY <1>2, <1>d, <2>3, <3>1 DEF TimeUp
  <2> QED
    BY <1>2, <2>1, <2>2, <2>3 DEF TimeUp
<1>3. CASE Value \/ NoValue
  <2>1. pc = "asked" /\ call.op # "cut" /\ UNCHANGED <<driver, lost>>
    BY <1>3 DEF Value, NoValue
  <2> QED
    BY <1>d, <2>1, NameOf
<1>4. CASE LoggedOn \/ TrackingSet
  <2>1. pc = "asked" /\ Name \in {"USERNAME", "PASSWORD", "SET TRACKING"}
        /\ UNCHANGED <<driver, lost>>
    BY <1>4 DEF LoggedOn, TrackingSet, Asked
  <2> QED
    BY <1>d, <2>1
<1>5. CASE Queued
  <2>1. pc = "asked" /\ Name = "INSTCMD" /\ driver' = [driver EXCEPT ![Here] = "pending"]
        /\ UNCHANGED <<call, endpoints, lost>> /\ at' = at
    BY <1>5 DEF Queued, Asked, NextLine, Finish
  <2>2. \A u \in Upsd : driver[u] \in {"pending", "armed"} => u \in lost
    BY <2>1, NothingLeft
  <2>3. Here' = Here
    BY <2>1 DEF Here
  <2>4. Name' = "GET TRACKING" \/ Done'
    <3>1. CASE tracking
      <4>1. call.op = "cut" /\ question = 4
        BY <2>1, NameOf
      <4>2. question' = question + 1
        BY <1>5, <3>1 DEF Queued, NextLine
      <4>3. question' = 5
        BY <4>1, <4>2
      <4> QED
        BY <2>1, <4>1, <4>3 DEF Name, Questions, Talk
    <3>2. CASE ~tracking
      BY <1>5, <3>2 DEF Queued, Finish, Done
    <3> QED
      BY <3>1, <3>2
  <2>5. \A u \in Upsd : driver'[u] \in {"pending", "armed"} => u \in lost \/ u = Here
    BY <1>a, <2>1, <2>2
  <2> QED
    BY <2>1, <2>3, <2>4, <2>5 DEF Followed
<1>6. CASE Denied
  <2>1. pc = "asked" /\ Name # "GET TRACKING" /\ UNCHANGED <<driver, lost>>
    BY <1>6 DEF Denied
  <2> QED
    BY <1>d, <2>1
<1>7. CASE Verdict
  <2>1. Name = "GET TRACKING" /\ UNCHANGED <<call, endpoints, driver, lost>>
    BY <1>7 DEF Verdict, Asked
  <2>2. CASE driver[Here] \in Failure
    BY <1>c, <2>1, <2>2 DEF Failure, Followed
  <2>3. CASE driver[Here] \notin Failure
    <3>1. at' = at /\ question' = question
      BY <1>7, <2>3 DEF Verdict, Finish
    <3>2. Here' = Here /\ Name' = Name
      BY <2>1, <3>1 DEF Here, Name, Questions
    <3> QED
      BY <2>1, <3>2 DEF Followed
  <2> QED
    BY <2>2, <2>3
<1>8. CASE Pause
  <2>1. CASE Late
    BY <1>8, <1>e, <2>1 DEF Pause
  <2>2. CASE ~Late
    <3>1. UNCHANGED <<call, endpoints, at, question, driver, lost>> /\ pc # "done"
      BY <1>8, <2>2 DEF Pause
    <3>2. Here' = Here /\ Name' = Name
      BY <3>1 DEF Here, Name, Questions
    <3> QED
      BY <3>1, <3>2 DEF Followed, Done
  <2> QED
    BY <2>1, <2>2
<1>9. CASE Breaks
  <2>1. pc = "asked" /\ driver' \in {driver, [driver EXCEPT ![Here] = "pending"]}
    BY <1>9 DEF Breaks
  <2>2. CASE Name \in {"INSTCMD", "GET TRACKING"}
    <3>1. lost' = lost \union {Here}
      BY <1>9, <2>2 DEF Breaks
    <3>2. \A u \in Upsd : u # Here => driver'[u] = driver[u]
      BY <1>a, <2>1
    <3>3. \A u \in Upsd : u # Here /\ driver[u] \in {"pending", "armed"} => u \in lost
      BY DEF Followed
    <3> QED
      BY <1>b, <3>1, <3>2, <3>3
  <2>3. CASE Name \notin {"INSTCMD", "GET TRACKING"}
    BY <1>9, <1>d, <2>1, <2>3 DEF Breaks
  <2> QED
    BY <2>2, <2>3
<1>10. CASE DriverActs
  <2>1. Here' = Here /\ Name' = Name /\ Done' = Done /\ lost' = lost
    BY <1>10 DEF DriverActs, client, Here, Name, Questions, Done
  <2>2. \A u \in Upsd : driver'[u] \in {"pending", "armed"} => driver[u] \in {"pending", "armed"}
    BY <1>10, <1>a DEF DriverActs
  <2> QED
    BY <2>1, <2>2 DEF Followed
<1>11. CASE Tick \/ UNCHANGED vars
  <2>1. UNCHANGED <<call, endpoints, client, driver, lost>>
    BY <1>11 DEF Tick, vars
  <2>2. Here' = Here /\ Name' = Name /\ Done' = Done
    BY <2>1 DEF client, Here, Name, Questions, Done
  <2> QED
    BY <2>1, <2>2 DEF Followed
<1> QED
  BY <1>1, <1>2, <1>3, <1>4, <1>5, <1>6, <1>7, <1>8, <1>9, <1>10, <1>11 DEF Next, Client

\* A cut reported as sent was taken.
LEMMA StepReported == TypeOK /\ CutReportedIsTaken /\ [Next]_vars => CutReportedIsTaken'
<1> SUFFICES ASSUME TypeOK, CutReportedIsTaken, [Next]_vars,
                    pc' = "done", call'.op = "cut", result' = "ok"
             PROVE  driver'[Here'] # "idle" /\ (tracking' => driver'[Here'] = "armed")
  BY DEF CutReportedIsTaken, Done, Here
<1>a. driver \in [Upsd -> {"idle", "pending", "armed", "refused"}] /\ Here \in Upsd
  BY HereType DEF TypeOK
<1>b. UNCHANGED <<call, endpoints>>
  BY DEF Next, Client, Try, Accepts, Refuses, TimeUp, Value, NoValue, LoggedOn, TrackingSet,
         Queued, Denied, Verdict, Pause, Breaks, DriverActs, Tick, vars
<1>c. ~Failed
  BY <1>b DEF Failed, NextEndpoint, Finish
<1>1. CASE Queued
  <2>1. ~tracking /\ tracking' = tracking /\ at' = at
        /\ driver' = [driver EXCEPT ![Here] = "pending"]
    BY <1>1 DEF Queued, NextLine, Finish, Asked
  <2>2. Here' = Here
    BY <1>b, <2>1 DEF Here
  <2> QED
    BY <1>a, <2>1, <2>2
<1>2. CASE Verdict
  <2>1. driver[Here] = "armed" /\ driver' = driver /\ at' = at
    BY <1>2, <1>c DEF Verdict, Finish, Success
  <2>2. Here' = Here
    BY <1>b, <2>1 DEF Here
  <2> QED
    BY <2>1, <2>2
<1>3. CASE pc = "done" /\ UNCHANGED client
  <2>1. /\ driver[Here] # "idle" /\ (tracking => driver[Here] = "armed")
    BY <1>3, <1>b DEF CutReportedIsTaken, client, Done
  <2>2. Here' = Here /\ tracking' = tracking
    BY <1>3, <1>b DEF Here, client
  <2>3. driver' = driver \/ DriverActs
    BY <1>3 DEF Next, Client, Try, Accepts, Refuses, TimeUp, Value, NoValue, LoggedOn,
                TrackingSet, Queued, Denied, Verdict, Pause, Breaks, Asked, Tick, vars
  <2>4. driver[Here] # "idle" => driver'[Here] # "idle"
    BY <1>a, <2>3 DEF DriverActs
  <2>5. driver[Here] = "armed" => driver'[Here] = "armed"
    BY <1>a, <2>3 DEF DriverActs
  <2> QED
    BY <2>1, <2>2, <2>4, <2>5
<1>4. Queued \/ Verdict \/ (pc = "done" /\ UNCHANGED client)
  <2>1. ~(LoggedOn \/ TrackingSet)
    BY DEF LoggedOn, TrackingSet, Asked, NextLine
  <2>2. ~(Try \/ Accepts \/ Refuses \/ TimeUp \/ Value \/ NoValue \/ Denied \/ Pause \/ Breaks)
    BY <1>b, <1>c DEF Try, Accepts, Refuses, TimeUp, Value, NoValue, Denied, Pause, Breaks
  <2>3. ASSUME DriverActs \/ Tick \/ UNCHANGED vars PROVE pc = "done" /\ UNCHANGED client
    BY <2>3 DEF DriverActs, Tick, vars, client
  <2> QED
    BY <2>1, <2>2, <2>3 DEF Next, Client
<1> QED
  BY <1>1, <1>2, <1>3, <1>4

-----------------------------------------------------------------------------
(***************************************************************************)
(* The invariant, and the theorems it gives.                               *)
(***************************************************************************)
\* A call that has yet to begin satisfies the invariant.
LEMMA InitIInv == Init => IInv
<1> SUFFICES ASSUME Init PROVE IInv
  OBVIOUS
<1>1. TypeOK
  BY InitTypeOK
<1>2. pc = "try" /\ reading = NoReading
  BY DEF Init
<1>3. DeadlineHonoured
  <2>1. call \in CallType
    BY <1>1, HereType
  <2>2. call.within \in Nat
    BY <2>1 DEF CallType
  <2>3. now = 0
    BY DEF Init
  <2> QED
    BY <2>2, <2>3 DEF DeadlineHonoured
<1>4. \A v \in 1..4 : reading[v] = 0
  BY <1>2 DEF NoReading
<1>5. ~(call.op = "read" /\ question > 1) /\ (call.op = "cut" => question = 1)
  <2>1. question = First
    BY DEF Init
  <2> QED
    BY <2>1 DEF First
<1>6. \A u \in Upsd : driver[u] = "idle"
  BY DEF Init
<1> QED
  BY <1>1, <1>2, <1>3, <1>4, <1>5, <1>6
  DEF IInv, ReadingOfOneUpsd, StatusComesFirst, CutStartsOver, Followed, CutReportedIsTaken, Done

\* Every step keeps the invariant.
LEMMA StepIInv == IInv /\ [Next]_vars => IInv'
  BY StepTypeOK, StepDeadline, StepReading, StepStartsOver, StepFollowed, StepReported DEF IInv

\* A call on the UPS keeps its type, however the upsds answer.
THEOREM TypeCorrect == Spec => []TypeOK
<1>1. IInv => TypeOK
  BY DEF IInv
<1> QED
  BY <1>1, InitIInv, StepIInv, PTL DEF Spec

\* A cut that is reported sent was taken by an upsd, and by the driver where the upsd
\* tracks commands, for any number of upsds and any file.
THEOREM ReportedIsTaken == Spec => []CutReportedIsTaken
<1>1. IInv => CutReportedIsTaken
  BY DEF IInv
<1> QED
  BY <1>1, InitIInv, StepIInv, PTL DEF Spec

\* A second cut goes out only after one that was refused or not heard out.
THEOREM RepeatedOnlyUnheard == Spec => []CutRepeatedOnlyUnheard
<1>1. IInv => CutRepeatedOnlyUnheard
  <2> SUFFICES ASSUME IInv, NEW k \in 1..(at - 1)
               PROVE  LET u == endpoints[k].upsd
                      IN  driver[u] \in {"idle", "refused"} \/ u \in lost \/ u = Here
    BY DEF CutRepeatedOnlyUnheard
  <2>1. /\ at \in DOMAIN endpoints /\ DOMAIN endpoints = 1..Len(endpoints)
        /\ Len(endpoints) \in Nat
        /\ \A j \in DOMAIN endpoints : endpoints[j].upsd \in Upsd
    BY HereType DEF IInv, TypeOK
  <2>2. k \in 1..Len(endpoints)
    BY <2>1
  <2>3. endpoints[k].upsd \in Upsd
    BY <2>1, <2>2
  <2>4. driver[endpoints[k].upsd] \in {"idle", "pending", "armed", "refused"}
    BY <2>3 DEF IInv, TypeOK
  <2> QED
    BY <2>3, <2>4 DEF IInv, Followed
<1> QED
  BY <1>1, InitIInv, StepIInv, PTL DEF Spec

\* A reading mixes no two upsds, for any number of them.
THEOREM OneUpsd == Spec => []ReadingOfOneUpsd
<1>1. IInv => ReadingOfOneUpsd
  BY DEF IInv
<1> QED
  BY <1>1, InitIInv, StepIInv, PTL DEF Spec

\* No call is at work after its caller's deadline, for any deadlines and timeouts.
THEOREM Deadline == Spec => []DeadlineHonoured
<1>1. IInv => DeadlineHonoured
  BY DEF IInv
<1> QED
  BY <1>1, InitIInv, StepIInv, PTL DEF Spec

-----------------------------------------------------------------------------
(***************************************************************************)
(* A second invariant: what a reading that failed says of the endpoints.   *)
(* It follows the time: none passes before an endpoint that can keep the   *)
(* client waiting, and until some has, one in good health is heard.        *)
(***************************************************************************)
\* The endpoint can let time pass.
Slow(k) == health[endpoints[k].upsd] \in {"drops", "mute", "flaky"}
SlowBefore(k) == \E j \in 1..(k - 1) : Slow(j)

Sound(k) == health[endpoints[k].upsd] = "answers"

TimeGoesOnTheSlow == call.op = "read" /\ now # 0 => \E j \in 1..at : Slow(j)

\* No sound endpoint was given up while there was time.
PassedForCause == call.op = "read" => \A k \in 1..(at - 1) : Sound(k) => SlowBefore(k)

FailedForCause ==
  call.op = "read" /\ Done /\ result = "error" =>
    /\ at = Len(endpoints)
    /\ Sound(at) => SlowBefore(at)

PauseIsOfACut == pc = "pause" => call.op = "cut"

TimeInv == TimeGoesOnTheSlow /\ PassedForCause /\ FailedForCause /\ PauseIsOfACut

\* A reading is begun with some time to make it in.
ReadsHaveTime == \A c \in Calls : c.op = "read" => c.within # 0

\* An endpoint that fails for cause is passed, or is the last, for cause.
LEMMA FailedCause ==
  ASSUME TypeOK, TimeInv, Failed, UNCHANGED <<call, endpoints, health, now>>,
         call.op = "read" /\ question = 1 /\ Sound(at) => SlowBefore(at)
  PROVE  TimeInv'
<1> DEFINE n == Len(endpoints)
<1>0. n \in Nat /\ at \in 1..n /\ question \in 1..5
  BY HereType DEF TypeOK
<1> HIDE DEF n
<1>1. CASE call.op # "read"
  <2>1. pc' = "try" \/ pc' = "done"
    BY <1>1 DEF Failed, NextEndpoint, Finish
  <2> QED
    BY <1>1, <2>1 DEF TimeInv, TimeGoesOnTheSlow, PassedForCause, FailedForCause, PauseIsOfACut
<1>2. CASE call.op = "read" /\ question > 1
  <2>1. Missing
    BY <1>2 DEF Failed
  <2>2. at' = at /\ (pc' = "done" => result' = "ok") /\ pc' \in {"done", "try"}
    BY <2>1 DEF Missing, Finish
  <2>3. TimeGoesOnTheSlow'
    BY <2>2 DEF TimeInv, TimeGoesOnTheSlow, Slow
  <2>4. PassedForCause'
    BY <2>2 DEF TimeInv, PassedForCause, Sound, SlowBefore, Slow
  <2> QED
    BY <2>2, <2>3, <2>4 DEF TimeInv, FailedForCause, PauseIsOfACut, Done
<1>3. CASE call.op = "read" /\ ~(question > 1)
  <2>1. question = 1 /\ NextEndpoint
    BY <1>0, <1>3 DEF Failed
  <2>2. Sound(at) => SlowBefore(at)
    BY <1>3, <2>1
  <2>3. \A k : (Sound(k)' <=> Sound(k)) /\ (Slow(k)' <=> Slow(k)) /\ (SlowBefore(k)' <=> SlowBefore(k))
    BY DEF Sound, Slow, SlowBefore
  <2>4. CASE at = n
    <3>1. at' = at /\ pc' = "done" /\ result' = "error"
      BY <2>1, <2>4 DEF NextEndpoint, Finish, n
    <3>2. TimeGoesOnTheSlow'
      BY <3>1 DEF TimeInv, TimeGoesOnTheSlow, Slow
    <3>3. PassedForCause'
      BY <3>1 DEF TimeInv, PassedForCause, Sound, SlowBefore, Slow
    <3>4. FailedForCause'
      BY <2>2, <2>4, <3>1 DEF FailedForCause, Sound, SlowBefore, Slow, n
    <3> QED
      BY <3>1, <3>2, <3>3, <3>4 DEF TimeInv, PauseIsOfACut
  <2>5. CASE at # n
    <3>1. at' = at + 1 /\ pc' = "try"
      BY <2>1, <2>5 DEF NextEndpoint, n
    <3>2. TimeGoesOnTheSlow'
      <4>1. \A j \in 1..at : j \in 1..(at + 1)
        BY <1>0
      <4>2. now # 0 => \E j \in 1..at : Slow(j)
        BY <1>3 DEF TimeInv, TimeGoesOnTheSlow
      <4>3. now # 0 => \E j \in 1..(at + 1) : Slow(j)
        BY <4>1, <4>2
      <4>4. now' # 0 => \E j \in 1..at' : Slow(j)'
        BY <3>1, <4>3 DEF Slow
      <4> QED
        BY <4>4 DEF TimeGoesOnTheSlow
    <3>3. PassedForCause'
      <4>1. \A k \in 1..((at + 1) - 1) : k \in 1..(at - 1) \/ k = at
        BY <1>0
      <4>2. \A k \in 1..((at + 1) - 1) : Sound(k) => SlowBefore(k)
        BY <1>3, <2>2, <4>1 DEF TimeInv, PassedForCause
      <4> QED
        BY <3>1, <4>2 DEF PassedForCause, Sound, SlowBefore, Slow
    <3>4. FailedForCause' /\ PauseIsOfACut'
      BY <3>1 DEF FailedForCause, PauseIsOfACut, Done
    <3> QED
      BY <3>2, <3>3, <3>4 DEF TimeInv
  <2> QED
    BY <2>4, <2>5
<1> QED
  BY <1>1, <1>2, <1>3

\* A client that neither moves on nor fails, and for which no time passes.
LEMMA StaysCause ==
  ASSUME TimeInv, UNCHANGED <<call, endpoints, health, now, at>>,
         pc' = "done" => result' = "ok" \/ (pc = "done" /\ result' = result),
         pc' = "pause" => call.op = "cut"
  PROVE  TimeInv'
<1>1. TimeGoesOnTheSlow'
  BY DEF TimeInv, TimeGoesOnTheSlow, Slow
<1>2. PassedForCause'
  BY DEF TimeInv, PassedForCause, Sound, SlowBefore, Slow
<1>3. FailedForCause'
  BY DEF TimeInv, FailedForCause, Done, Sound, SlowBefore, Slow
<1> QED
  BY <1>1, <1>2, <1>3 DEF TimeInv, PauseIsOfACut

\* A wait that is cut off before any time has passed was not for a reading.
LEMMA TimeUpCause ==
  ASSUME ReadsHaveTime, TypeOK, TimeInv, TimeUp, call.op = "read", Sound(at)
  PROVE  SlowBefore(at)
<1> SUFFICES ASSUME ~SlowBefore(at) PROVE FALSE
  OBVIOUS
<1>0. at \in 1..Len(endpoints) /\ Len(endpoints) \in Nat
  BY HereType DEF TypeOK
<1>1. \A j \in 1..at : ~Slow(j)
  <2>1. \A j \in 1..at : j \in 1..(at - 1) \/ j = at
    BY <1>0
  <2>2. ~Slow(at)
    BY DEF Sound, Slow
  <2> QED
    BY <2>1, <2>2 DEF SlowBefore
<1>2. now = 0
  BY <1>1 DEF TimeInv, TimeGoesOnTheSlow
<1>3. since = 0
  <2>1. since \in 0..now
    BY DEF TypeOK
  <2> QED
    BY <1>2, <2>1
<1>4. call.within \in Nat \ {0} /\ DialTimeout \in Nat \ {0}
  <2>1. call \in Calls /\ call \in CallType
    BY HereType DEF TypeOK
  <2> QED
    BY <2>1, CallsAssumption DEF ReadsHaveTime, CallType
<1>5. Limit > 0
  BY <1>3, <1>4 DEF Limit
<1>6. now >= Limit
  BY DEF TimeUp
<1>7. Limit \in Nat
  BY <1>3, <1>4 DEF Limit
<1> QED
  BY <1>2, <1>5, <1>6, <1>7

\* Every step keeps the second invariant.
LEMMA StepTimeInv == ReadsHaveTime /\ TypeOK /\ TimeInv /\ [Next]_vars => TimeInv'
<1> SUFFICES ASSUME ReadsHaveTime, TypeOK, TimeInv, [Next]_vars PROVE TimeInv'
  OBVIOUS
<1>0. UNCHANGED <<call, endpoints, health>>
  BY DEF Next, Client, Try, Accepts, Refuses, TimeUp, Value, NoValue, LoggedOn, TrackingSet,
         Queued, Denied, Verdict, Pause, Breaks, DriverActs, Tick, vars
<1>1. CASE Try
  <2>1. CASE Refused
    BY <1>1, <2>1, FailedCause DEF Try, Refused
  <2>2. CASE ~Refused
    BY <1>1, <2>2, StaysCause DEF Try
  <2> QED
    BY <2>1, <2>2
<1>2. CASE Accepts
  BY <1>2, StaysCause DEF Accepts
<1>3. CASE Refuses
  <2>1. ~Sound(at)
    BY <1>3 DEF Refuses, Behaves, Sound, Here
  <2> QED
    BY <1>3, <2>1, FailedCause DEF Refuses
<1>4. CASE TimeUp
  BY <1>4, TimeUpCause, FailedCause DEF TimeUp
<1>5. CASE Value
  <2>1. /\ UNCHANGED <<call, endpoints, health, now, at>>
        /\ pc' \in {"done", "try"} /\ (pc' = "done" => result' = "ok")
    BY <1>5 DEF Value, Finish
  <2> QED
    BY <2>1, StaysCause
<1>6. CASE NoValue
  <2>1. call.op = "read" /\ question = 1 => ~Sound(at)
    BY <1>6 DEF NoValue, Sound, Here
  <2> QED
    BY <1>6, <2>1, FailedCause DEF NoValue
<1>7. CASE LoggedOn \/ TrackingSet
  <2>1. UNCHANGED <<call, endpoints, health, now, at, pc, result>>
    BY <1>7 DEF LoggedOn, TrackingSet, NextLine
  <2> QED
    BY <2>1, StaysCause DEF TimeInv, PauseIsOfACut
<1>8. CASE Queued
  <2>1. /\ UNCHANGED <<call, endpoints, health, now, at>>
        /\ (pc' = "done" /\ result' = "ok") \/ (pc' = pc /\ result' = result)
    BY <1>8 DEF Queued, NextLine, Finish
  <2> QED
    BY <2>1, StaysCause DEF TimeInv, PauseIsOfACut
<1>9. CASE Denied
  BY <1>9, FailedCause DEF Denied
<1>10. CASE Verdict
  <2>1. call.op = "cut" /\ UNCHANGED <<call, endpoints, health, now>>
    BY <1>10, NameOf DEF Verdict, Asked
  <2>2. CASE Failed
    BY <2>1, <2>2, FailedCause
  <2>3. CASE ~Failed
    <3>1. /\ at' = at
          /\ pc' = "done" => result' = "ok"
      BY <1>10, <2>3 DEF Verdict, Finish
    <3> QED
      BY <2>1, <3>1, StaysCause
  <2> QED
    BY <2>2, <2>3
<1>11. CASE Pause
  <2>1. call.op = "cut"
    BY <1>11 DEF Pause, TimeInv, PauseIsOfACut
  <2>2. CASE Late
    BY <1>11, <2>1, <2>2, FailedCause DEF Pause
  <2>3. CASE ~Late
    <3>1. pc' = "asked" /\ call' = call
      BY <1>11, <2>3 DEF Pause
    <3> QED
      BY <2>1, <3>1 DEF TimeInv, TimeGoesOnTheSlow, PassedForCause, FailedForCause, PauseIsOfACut
  <2> QED
    BY <2>2, <2>3
<1>12. CASE Breaks
  <2>1. ~Sound(at)
    BY <1>12 DEF Breaks, Sound, Here
  <2> QED
    BY <1>12, <2>1, FailedCause DEF Breaks
<1>13. CASE DriverActs \/ UNCHANGED vars
  <2>1. UNCHANGED <<call, endpoints, health, now, at, pc, result>>
    BY <1>13 DEF DriverActs, client, vars
  <2> QED
    BY <2>1, StaysCause DEF TimeInv, PauseIsOfACut
<1>14. CASE Tick
  <2>1. UNCHANGED <<at, pc, result>> /\ pc \in {"dial", "asked"}
    BY <1>14 DEF Tick, client
  <2>2. Slow(at)
    BY <1>14 DEF Tick, KeepsWaiting, Slow, Here
  <2>3. at \in 1..at
    <3>1. at \in 1..Len(endpoints) /\ Len(endpoints) \in Nat
      BY HereType DEF TypeOK
    <3> QED
      BY <3>1
  <2>4. TimeGoesOnTheSlow'
    <3>1. \E j \in 1..at' : Slow(j)'
      BY <1>0, <2>1, <2>2, <2>3 DEF Slow
    <3> QED
      BY <3>1 DEF TimeGoesOnTheSlow
  <2>5. PassedForCause'
    BY <1>0, <2>1 DEF TimeInv, PassedForCause, Sound, SlowBefore, Slow
  <2>6. FailedForCause' /\ PauseIsOfACut'
    BY <2>1 DEF FailedForCause, PauseIsOfACut, Done
  <2> QED
    BY <2>4, <2>5, <2>6 DEF TimeInv
<1> QED
  BY <1>1, <1>2, <1>3, <1>4, <1>5, <1>6, <1>7, <1>8, <1>9, <1>10, <1>11, <1>12, <1>13, <1>14
  DEF Next, Client

\* Every reading that has any time to be made in fails only for want of a sound endpoint,
\* or of time that an endpoint before it took: the ones that fail at once cost nothing,
\* however many there are and however the timeouts compare.
THEOREM QuickFailures == ReadsHaveTime => (Spec => []QuickFailuresCostNothing)
<1> SUFFICES ASSUME ReadsHaveTime PROVE Spec => []QuickFailuresCostNothing
  OBVIOUS
<1>1. Init => IInv /\ TimeInv
  <2> SUFFICES ASSUME Init PROVE TimeInv
    BY InitIInv
  <2>1. now = 0 /\ at = 1 /\ pc = "try"
    BY DEF Init
  <2>2. \A k \in 1..(1 - 1) : FALSE
    OBVIOUS
  <2> QED
    BY <2>1, <2>2 DEF TimeInv, TimeGoesOnTheSlow, PassedForCause, FailedForCause, PauseIsOfACut, Done
<1>2. IInv /\ TimeInv /\ [Next]_vars => IInv' /\ TimeInv'
  BY StepIInv, StepTimeInv DEF IInv
<1>3. IInv /\ TimeInv => QuickFailuresCostNothing
  <2> SUFFICES ASSUME TypeOK, TimeInv, Done, call.op = "read", result = "error",
                      NEW k \in DOMAIN endpoints, Sound(k)
               PROVE  SlowBefore(k)
    BY DEF QuickFailuresCostNothing, IInv, Sound, Slow, SlowBefore
  <2> DEFINE n == Len(endpoints)
  <2>1. n \in Nat /\ DOMAIN endpoints = 1..n
    BY HereType
  <2>2. at = n /\ (Sound(at) => SlowBefore(at))
    BY DEF TimeInv, FailedForCause
  <2> HIDE DEF n
  <2>3. k \in 1..(at - 1) \/ k = at
    BY <2>1, <2>2
  <2> QED
    BY <2>2, <2>3 DEF TimeInv, PassedForCause
<1> QED
  BY <1>1, <1>2, <1>3, PTL DEF Spec
=============================================================================
