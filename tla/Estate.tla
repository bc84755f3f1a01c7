-------------------------------- MODULE Estate --------------------------------
(***************************************************************************)
(* Several hosts on one UPS, each walking its own sequence without talking *)
(* to the others: the composition of src/src/execute/execute.go with       *)
(* itself. A sequence is seen here by what the others and the UPS can see  *)
(* of it: its guests stop, it holds at the barrier, it sends the cut, it   *)
(* halts, or it reads that mains are back and gives its guests back.       *)
(*                                                                         *)
(* The hosts share the readings of the UPS, which any of them may miss,    *)
(* the listing of the guests that run anywhere, which may be late, and the *)
(* output of the UPS, which goes off a delay after a cut was sent and      *)
(* comes back with the mains. One tick of clock is one poll of a hold.     *)
(***************************************************************************)
EXTENDS Integers

CONSTANTS
  Hosts,
  Skew,       \* the last host to begin does so this long after the outage
  StopTime,   \* what a host's guests take to stop or be forced off
  HoldUntil,  \* the ceiling of the barrier, from a host's own beginning
  Delay,      \* the delay sent with the cut
  MaxClock,   \* bound on the time a run of the model covers
  MaxTurns    \* bound on the changes of utility power

None == -1

ASSUME TimesAssumption ==
  Skew \in Nat /\ StopTime \in Nat /\ HoldUntil \in Nat /\ Delay \in Nat \ {0}
ASSUME BoundsAssumption == MaxClock \in Nat /\ MaxTurns \in Nat
\* The settings leave room: the slowest host to begin has stopped its guests before
\* the earliest cut can take effect.
ASSUME RoomAssumption == Skew + StopTime < HoldUntil + Delay

VARIABLES
  clock,
  mains, turns,
  pc,       \* idle, stopping, hold, send, halt, off, back, revived
  began,    \* when the host's sequence began
  guests,   \* hosts whose guests run
  view,     \* what the listing says of guests
  due,      \* when the output goes off, or None
  output,   \* the UPS feeds the hosts
  sent,     \* history: hosts whose cut the UPS took
  stopped,  \* history: hosts whose guests have all been down at some time
  struck    \* history: hosts in a sequence whose guests ran when the output went off

power == <<mains, turns, due, output>>
history == <<sent, stopped, struck>>
vars == <<clock, power, pc, began, guests, view, history>>

TypeOK ==
  /\ clock \in 0..MaxClock
  /\ mains \in BOOLEAN /\ turns \in 0..MaxTurns
  /\ pc \in [Hosts -> {"idle", "stopping", "hold", "send", "halt", "off", "back", "revived"}]
  /\ began \in [Hosts -> 0..Skew]
  /\ guests \subseteq Hosts /\ view \subseteq Hosts
  /\ due \in {None} \union Nat /\ output \in BOOLEAN
  /\ sent \subseteq Hosts /\ stopped \subseteq Hosts /\ struck \subseteq Hosts

Init ==
  /\ clock = 0 /\ mains = FALSE /\ turns = 0
  /\ pc = [h \in Hosts |-> "idle"] /\ began = [h \in Hosts |-> 0]
  /\ guests = Hosts /\ view = Hosts
  /\ due = None /\ output = TRUE
  /\ sent = {} /\ stopped = {} /\ struck = {}

-----------------------------------------------------------------------------
Go(h, where) == pc' = [pc EXCEPT ![h] = where]

\* The commit timer or the runtime floor. A host that reads mains present has nothing
\* to do; one that cannot read the UPS goes by what started it.
Begin(h) ==
  /\ pc[h] = "idle" /\ output /\ clock <= Skew
  /\ Go(h, "stopping") /\ began' = [began EXCEPT ![h] = clock]
  /\ UNCHANGED <<clock, power, guests, view, history>>

\* Mutant: a host whose guests are down has no barrier to hold at.
StraightToTheCut == "send"

AfterGuests == "hold"

GuestsStop(h) ==
  /\ pc[h] = "stopping"
  /\ Go(h, AfterGuests)
  /\ guests' = guests \ {h} /\ stopped' = stopped \union {h}
  /\ UNCHANGED <<clock, power, began, view, sent, struck>>

\* A gate or a poll of the hold that reads mains: the guests are started again.
\* A reading that is missed abandons nothing.
Abandon(h) ==
  /\ pc[h] \in {"stopping", "hold"} /\ mains
  /\ Go(h, "back")
  /\ guests' = guests \union {h}
  /\ UNCHANGED <<clock, power, began, view, history>>

\* Mutant: the listing of this host's own guests is enough.
OwnClear(h) == h \notin view

\* No guest is listed as running on any host.
EstateClear(h) == view = {}

\* Mutant: the hold has no ceiling.
NoCeiling(h) == FALSE

Ceiling(h) == clock >= began[h] + HoldUntil

\* Nothing is read again between the end of the hold and the cut.
Release(h) ==
  /\ pc[h] = "hold" /\ (Ceiling(h) \/ EstateClear(h))
  /\ Go(h, "send")
  /\ UNCHANGED <<clock, power, began, guests, view, history>>

\* The UPS that already counts down to a cut keeps the first command or takes the
\* last.
Command == {clock + Delay} \union ({due} \ {None})

\* Mutant: a cut the UPS did not take passes for sent.
SendUnheard(h) ==
  /\ pc[h] = "send"
  /\ Go(h, "halt")
  /\ sent' = sent \union {h}
  /\ UNCHANGED <<clock, mains, turns, due, output, began, guests, view, stopped, struck>>

\* A cut that fails does not stop the halt.
Send(h) ==
  /\ pc[h] = "send"
  /\ Go(h, "halt")
  /\ \/ due' \in Command /\ sent' = sent \union {h}
     \/ UNCHANGED <<due, sent>>
  /\ UNCHANGED <<clock, mains, turns, output, began, guests, view, stopped, struck>>

Halt(h) ==
  /\ pc[h] = "halt"
  /\ Go(h, "off")
  /\ UNCHANGED <<clock, power, began, guests, view, history>>

-----------------------------------------------------------------------------
(***************************************************************************)
(* What the hosts share.                                                   *)
(***************************************************************************)
Refresh ==
  /\ view' = guests
  /\ UNCHANGED <<clock, power, pc, began, guests, history>>

MainsChange ==
  /\ turns < MaxTurns
  /\ mains' = ~mains /\ turns' = turns + 1
  /\ UNCHANGED <<clock, due, output, pc, began, guests, view, history>>

InSequence(h) == pc[h] \in {"stopping", "hold", "send", "halt"}

\* Every host and guest loses its power, whether the mains are back or not.
OutputDrops ==
  /\ due # None /\ clock >= due
  /\ output' = FALSE /\ due' = None
  /\ struck' = struck \union {h \in guests : InSequence(h)}
  /\ guests' = {} /\ pc' = [h \in Hosts |-> "off"]
  /\ UNCHANGED <<clock, mains, turns, began, view, sent, stopped>>

\* The output returns with the mains, the hosts boot, and wake starts the guests.
OutputReturns ==
  /\ ~output /\ mains
  /\ output' = TRUE
  /\ pc' = [h \in Hosts |-> "revived"] /\ guests' = Hosts
  /\ UNCHANGED <<clock, mains, turns, due, began, view, history>>

\* Time does not pass a guest's budget, the end of a hold or a cut that is due, and a
\* host that commits sends and halts within the tick.
Tick ==
  /\ clock < MaxClock
  /\ due # None => clock < due
  /\ \A h \in Hosts :
       /\ pc[h] = "stopping" => clock < began[h] + StopTime
       /\ pc[h] = "hold" => clock < began[h] + HoldUntil
       /\ pc[h] \notin {"send", "halt"}
  /\ clock' = clock + 1
  /\ UNCHANGED <<power, pc, began, guests, view, history>>

Host(h) == Begin(h) \/ GuestsStop(h) \/ Abandon(h) \/ Release(h) \/ Send(h) \/ Halt(h)

Next == Refresh \/ MainsChange \/ OutputDrops \/ OutputReturns \/ Tick \/ \E h \in Hosts : Host(h)

\* Time passes, a host that is past its hold goes on to halt, and the UPS does as it
\* was told. Nothing makes a host begin, a reading succeed or the listing be renewed.
Fairness ==
  /\ WF_vars(Tick) /\ WF_vars(OutputDrops) /\ WF_vars(OutputReturns)
  /\ \A h \in Hosts : /\ WF_vars(GuestsStop(h)) /\ WF_vars(Release(h))
                      /\ WF_vars(Send(h)) /\ WF_vars(Halt(h))

Spec == Init /\ [][Next]_vars /\ Fairness

-----------------------------------------------------------------------------
(***************************************************************************)
(* Properties.                                                             *)
(***************************************************************************)
\* No host's guests lose their power while its sequence is still stopping them: the
\* cut lands after every host that goes through with it has its guests down, however
\* the others' beginnings, readings, listings and cuts fall, and whichever command
\* the UPS keeps (the barrier, execute.go:171, and the delay of the cut).
SequencesAreSpared == struck = {}

\* A host that passes the barrier before its ceiling does so only after the guests of
\* every host, those yet to begin included, have stopped: the slowest and the blind
\* hold the others back (estateClear, execute.go:274).
EarlyMeansEveryone ==
  [][\A h \in Hosts : pc[h] = "hold" /\ pc'[h] = "send" /\ clock < began[h] + HoldUntil
       => stopped = Hosts]_vars

\* Every sequence that begins ends, with the host off or its guests given back.
SequencesEnd == \A h \in Hosts : InSequence(h) ~> ~InSequence(h)

\* Once a cut was taken, whichever host sent it, every host that halted comes back
\* when the mains are back to stay, even if they returned before the cut fell: "it is
\* also what brings the hosts back" (deploy/README.md:102).
HaltedComesBack ==
  <>[]mains => \A h \in Hosts : (pc[h] = "off" /\ sent # {}) ~> pc[h] = "revived"

\* "so the cut lands after the estate is down whichever command the UPS keeps"
\* (deploy/README.md:101): no guest that took part in the event loses its power.
CutLandsOnAStoppedEstate ==
  [][output /\ ~output' => \A h \in guests : pc[h] = "idle"]_vars
=============================================================================
