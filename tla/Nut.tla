---------------------------------- MODULE Nut ----------------------------------
(***************************************************************************)
(* One call on the UPS through the upsd endpoints that upsmon.conf names:  *)
(* src/src/adapters/nut/nut.go and upsmon.go.                              *)
(*                                                                         *)
(* A call is a reading (the gate), the runtime alone, or the cut. The      *)
(* endpoints are tried in order under one deadline. A variable takes a     *)
(* connection of its own; the cut is a conversation on one connection that *)
(* ends with the driver's verdict. Each upsd answers, refuses, drops the   *)
(* packets, accepts and stays silent, or does any of these by turns.       *)
(* One tick of now is one pause between two GET TRACKING.                  *)
(***************************************************************************)
EXTENDS Integers, Sequences

CONSTANTS
  Upsd,         \* the upsd instances
  Confs,        \* upsmon.conf: the lines that may be found in it
  Calls,        \* the calls that may be made: see CallType
  DialTimeout   \* Client.Timeout

Health == {"answers", "refuses", "drops", "mute", "flaky"}

Vars == <<"ups.status", "battery.charge", "battery.runtime", "input.voltage">>
Talk == <<"USERNAME", "PASSWORD", "SET TRACKING", "INSTCMD", "GET TRACKING">>

\* directive: the line's first word is MONITOR; addr: its system has an address.
LineType == [directive : BOOLEAN, fields : Nat, addr : BOOLEAN, upsd : Upsd]

\* within is the deadline of the caller's context, after the delay of a cut.
CallType == [op : {"read", "runtime", "cut"}, within : Nat, after : Nat]

(***************************************************************************)
(* Every MONITOR line with an address is a way to reach the UPS, in the    *)
(* order of the file; only a complete one carries credentials.             *)
(***************************************************************************)
Monitors(conf) ==
  LET usable(line) == line.directive /\ line.fields >= 2 /\ line.addr
  IN  SelectSeq(conf, usable)

HasCredentials(line) == line.fields >= 5

\* A timeout that is not positive is replaced (nut.go:121).
ASSUME CallsAssumption == Calls \subseteq CallType /\ DialTimeout \in Nat \ {0}
\* With no endpoint there is no UPS to call.
ASSUME ConfsAssumption == \A c \in Confs : c \in Seq(LineType) /\ Monitors(c) \in Seq(LineType)

VARIABLES
  call, endpoints, health,   \* chosen at the start
  now,
  pc,        \* try, dial, asked, pause, done
  at,        \* the endpoint in use
  question,  \* which variable, or which line of the conversation
  since,     \* when it was dialled
  tracking,  \* the conversation has tracking on
  reading,   \* per variable, the endpoint it came from; 0 is Unknown
  result,    \* "", ok, error
  driver,    \* per upsd, what became of the command: idle, pending, armed, refused
  lost       \* history: upsds whose connection ended after the command went out

client == <<pc, at, question, since, tracking, reading, result>>
vars == <<call, endpoints, health, now, client, driver, lost>>

Questions == IF call.op = "cut" THEN Talk ELSE Vars
Here == endpoints[at].upsd
Name == Questions[question]

TypeOK ==
  /\ call \in Calls /\ endpoints \in Seq(LineType) /\ endpoints # <<>>
  /\ health \in [Upsd -> Health]
  /\ now \in Nat /\ since \in 0..now
  /\ pc \in {"try", "dial", "asked", "pause", "done"}
  /\ at \in DOMAIN endpoints /\ question \in 1..5
  /\ call.op # "cut" => question \in 1..4
  /\ tracking \in BOOLEAN
  /\ reading \in [1..4 -> {0} \union DOMAIN endpoints]
  /\ result \in {"", "ok", "error"}
  /\ driver \in [Upsd -> {"idle", "pending", "armed", "refused"}]
  /\ lost \subseteq Upsd

NoReading == [v \in 1..4 |-> 0]

\* The variable a call starts with: battery.runtime alone, or ups.status.
First == IF call.op = "runtime" THEN 3 ELSE 1

Init ==
  /\ call \in Calls
  /\ \E conf \in Confs : Monitors(conf) # <<>> /\ endpoints = Monitors(conf)
  /\ health \in [Upsd -> Health]
  /\ now = 0 /\ since = 0
  /\ pc = "try" /\ at = 1 /\ question = First /\ tracking = FALSE
  /\ reading = NoReading /\ result = ""
  /\ driver = [u \in Upsd |-> "idle"] /\ lost = {}

-----------------------------------------------------------------------------
Finish(how) ==
  /\ pc' = "done" /\ result' = how
  /\ UNCHANGED <<at, question, since, tracking>>

\* Mutant: the first error is the answer.
GiveUp == reading' = NoReading /\ Finish("error")

\* An endpoint that failed is left for the next one.
NextEndpoint ==
  IF at = Len(endpoints) THEN reading' = NoReading /\ Finish("error")
  ELSE /\ at' = at + 1 /\ pc' = "try" /\ question' = First
       /\ reading' = NoReading
       /\ UNCHANGED <<since, tracking, result>>

\* Mutant: a missing variable is asked of the next endpoint.
MissingElsewhere ==
  IF question = 4 THEN Finish("ok") /\ UNCHANGED reading
  ELSE /\ at' = IF at < Len(endpoints) THEN at + 1 ELSE at
       /\ question' = question + 1 /\ pc' = "try"
       /\ UNCHANGED <<since, tracking, reading, result>>

\* A variable other than the first that cannot be had is Unknown, not a failure.
Missing ==
  IF question = 4 THEN Finish("ok") /\ UNCHANGED reading
  ELSE /\ question' = question + 1 /\ pc' = "try"
       /\ UNCHANGED <<at, since, tracking, reading, result>>

Failed == IF call.op = "read" /\ question > 1 THEN Missing ELSE NextEndpoint

(***************************************************************************)
(* Connecting. A cut without credentials, or with no delay, is refused     *)
(* before the endpoint is dialled.                                         *)
(***************************************************************************)
Refused == call.op = "cut" /\ (call.after = 0 \/ ~HasCredentials(endpoints[at]))

Try ==
  /\ pc = "try"
  /\ IF Refused THEN Failed
     ELSE /\ pc' = "dial" /\ since' = now
          /\ UNCHANGED <<at, question, tracking, reading, result>>
  /\ UNCHANGED <<call, endpoints, health, now, driver, lost>>

Behaves(how) == health[Here] \in how \union {"flaky"}

Late == now >= call.within

Accepts ==
  /\ pc = "dial" /\ ~Late /\ Behaves({"answers", "mute"})
  /\ pc' = "asked" /\ tracking' = FALSE
  /\ UNCHANGED <<at, question, since, reading, result>>
  /\ UNCHANGED <<call, endpoints, health, now, driver, lost>>

Refuses ==
  /\ pc = "dial" /\ Behaves({"refuses"})
  /\ Failed
  /\ UNCHANGED <<call, endpoints, health, now, driver, lost>>

\* Mutant: each exchange is given a time of its own.
OwnLimit == since + 2 * DialTimeout

\* When the wait under way is cut off: the dial by its own timeout or the caller's
\* deadline, an exchange by the caller's deadline alone.
Limit == IF pc = "dial" /\ since + DialTimeout < call.within
         THEN since + DialTimeout ELSE call.within

TimeUp ==
  /\ pc \in {"dial", "asked"} /\ now >= Limit
  /\ lost' = IF pc = "asked" /\ Name \in {"INSTCMD", "GET TRACKING"}
             THEN lost \union {Here} ELSE lost
  /\ Failed
  /\ UNCHANGED <<call, endpoints, health, now, driver>>

-----------------------------------------------------------------------------
(***************************************************************************)
(* Reading.                                                                *)
(***************************************************************************)
Asked(name) == pc = "asked" /\ ~Late /\ Name = name

Value ==
  /\ pc = "asked" /\ ~Late /\ call.op # "cut" /\ Behaves({"answers"})
  /\ reading' = [reading EXCEPT ![question] = at]
  /\ IF call.op = "runtime" \/ question = 4 THEN Finish("ok")
     ELSE /\ question' = question + 1 /\ pc' = "try"
          /\ UNCHANGED <<at, since, tracking, result>>
  /\ UNCHANGED <<call, endpoints, health, now, driver, lost>>

\* An ERR reply, or a value that cannot be parsed. Every driver has a status.
NoValue ==
  /\ pc = "asked" /\ ~Late /\ call.op # "cut" /\ Behaves({"answers"})
  /\ question = 1 => health[Here] = "flaky"
  /\ Failed
  /\ UNCHANGED <<call, endpoints, health, now, driver, lost>>

-----------------------------------------------------------------------------
(***************************************************************************)
(* The cut. OK is needed to each line but SET TRACKING ON, whose refusal   *)
(* only means that the OK to INSTCMD is all there will be.                 *)
(***************************************************************************)
NextLine(track) ==
  /\ question' = question + 1 /\ tracking' = track
  /\ UNCHANGED <<pc, at, since, reading, result>>

LoggedOn ==
  /\ Asked("USERNAME") \/ Asked("PASSWORD")
  /\ call.op = "cut" /\ Behaves({"answers"})
  /\ NextLine(FALSE)
  /\ UNCHANGED <<call, endpoints, health, now, driver, lost>>

TrackingSet ==
  /\ Asked("SET TRACKING") /\ Behaves({"answers"})
  /\ \E on \in BOOLEAN : NextLine(on)
  /\ UNCHANGED <<call, endpoints, health, now, driver, lost>>

\* upsd queues the command for the driver and answers OK, with an id when tracking
\* is on.
Queued ==
  /\ Asked("INSTCMD") /\ Behaves({"answers"})
  /\ driver' = [driver EXCEPT ![Here] = "pending"]
  /\ IF tracking THEN NextLine(TRUE) ELSE Finish("ok") /\ UNCHANGED reading
  /\ UNCHANGED <<call, endpoints, health, now, lost>>

\* An answer other than OK: access denied, an unknown command.
Denied ==
  /\ pc = "asked" /\ ~Late /\ call.op = "cut" /\ Name \notin {"SET TRACKING", "GET TRACKING"}
  /\ Behaves({"answers"})
  /\ Failed
  /\ UNCHANGED <<call, endpoints, health, now, driver, lost>>

\* Mutant: a command still pending is taken for done.
PendingIsSuccess == {"armed", "pending"}

Success == {"armed"}

\* Mutant: a command still pending is taken for refused.
PendingIsFailure == {"refused", "pending"}

Failure == {"refused"}

Verdict ==
  /\ Asked("GET TRACKING") /\ Behaves({"answers"})
  /\ \/ driver[Here] \in Success /\ Finish("ok") /\ UNCHANGED reading
     \/ driver[Here] \in Failure /\ Failed
     \/ /\ driver[Here] = "pending"
        /\ pc' = "pause"
        /\ UNCHANGED <<at, question, since, tracking, reading, result>>
  /\ UNCHANGED <<call, endpoints, health, now, driver, lost>>

Pause ==
  /\ pc = "pause"
  /\ IF Late THEN /\ Failed /\ lost' = lost \union {Here} /\ UNCHANGED now
     ELSE /\ pc' = "asked" /\ now' = now + 1
          /\ UNCHANGED <<at, question, since, tracking, reading, result, lost>>
  /\ UNCHANGED <<call, endpoints, health, driver>>

\* A connection that breaks may do so with the command already queued.
Breaks ==
  /\ pc = "asked" /\ ~Late /\ health[Here] = "flaky"
  /\ \/ /\ Name = "INSTCMD"
        /\ driver' = [driver EXCEPT ![Here] = "pending"]
     \/ UNCHANGED driver
  /\ lost' = IF Name \in {"INSTCMD", "GET TRACKING"} THEN lost \union {Here} ELSE lost
  /\ Failed
  /\ UNCHANGED <<call, endpoints, health, now>>

DriverActs ==
  /\ \E u \in Upsd, verdict \in {"armed", "refused"} :
       /\ driver[u] = "pending"
       /\ driver' = [driver EXCEPT ![u] = verdict]
  /\ UNCHANGED <<call, endpoints, health, now, client, lost>>

\* Time passes only while the endpoint keeps the client waiting, and a timer that is
\* due goes off first.
KeepsWaiting == IF pc = "dial" THEN {"drops", "flaky"} ELSE {"mute", "flaky"}

Tick ==
  /\ pc \in {"dial", "asked"} /\ now < Limit
  /\ health[Here] \in KeepsWaiting
  /\ now' = now + 1
  /\ UNCHANGED <<call, endpoints, health, client, driver, lost>>

-----------------------------------------------------------------------------
Client ==
  \/ Try \/ Accepts \/ Refuses \/ TimeUp \/ Value \/ NoValue
  \/ LoggedOn \/ TrackingSet \/ Queued \/ Denied \/ Verdict \/ Pause \/ Breaks

Next == Client \/ DriverActs \/ Tick

\* The process runs and time passes. No endpoint has to answer and no driver to act.
Fairness == WF_vars(Client) /\ WF_vars(Tick)

Spec == Init /\ [][Next]_vars /\ Fairness

-----------------------------------------------------------------------------
(***************************************************************************)
(* Properties.                                                             *)
(***************************************************************************)
Done == pc = "done"

\* A cut that is reported sent was taken by an upsd, and with tracking on by its
\* driver: the executor then halts the host, relying on the cut to start it again.
CutReportedIsTaken ==
  Done /\ call.op = "cut" /\ result = "ok"
    => /\ driver[Here] # "idle"
       /\ tracking => driver[Here] = "armed"

\* The cut goes to another upsd only if the one before refused it or was not heard
\* out: two cuts never run because one was taken and known to be.
CutRepeatedOnlyUnheard ==
  \A k \in 1..(at - 1) :
    LET u == endpoints[k].upsd IN driver[u] \in {"idle", "refused"} \/ u \in lost \/ u = Here

\* A reading is of one moment and one upsd: what the first endpoint that gave a
\* status did not report stays unknown, and is never filled in from another.
ReadingOfOneUpsd ==
  \A v \in 1..4 : reading[v] # 0 => reading[v] = at /\ (call.op = "read" => reading[1] = at)

\* A reading fails only if no endpoint is in good health, or one that swallowed the
\* time came before it: an endpoint that fails at once costs nothing.
QuickFailuresCostNothing ==
  Done /\ call.op = "read" /\ result = "error" =>
    \A k \in DOMAIN endpoints : health[endpoints[k].upsd] = "answers" =>
      \E j \in 1..(k - 1) : health[endpoints[j].upsd] \in {"drops", "mute", "flaky"}

\* "The first answer wins, so one dead endpoint does not blind the gate" (nut.go:37).
OneDeadDoesNotBlind ==
  Done /\ call.op = "read" /\ result = "error" =>
    \/ \A k \in DOMAIN endpoints : health[endpoints[k].upsd] # "answers"
    \/ \E u, v \in Upsd : u # v /\ health[u] # "answers" /\ health[v] # "answers"

\* "It must have a deadline it actually honours" (nut.go:7): however the endpoints
\* misbehave, no call is at work after its caller's deadline, and every one returns.
DeadlineHonoured == now <= call.within

CallReturns == <>(Done /\ DeadlineHonoured)
=============================================================================
