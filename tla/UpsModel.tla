------------------------------ MODULE UpsModel ------------------------------
(***************************************************************************)
(* What the last two UPS readings mean. Source: src/src/ups/model.go.      *)
(*                                                                         *)
(* A sample is [online, onBattery, lowBattery : BOOLEAN,                   *)
(*              inputV, charge, runtime, at : Int]; Unknown stands for a   *)
(* number the driver did not report. Only signs and comparisons of the     *)
(* numbers are ever used, so small integers stand for volts, percent and   *)
(* seconds.                                                                *)
(***************************************************************************)
EXTENDS Integers

Unknown == -1

\* No sample yet: the zero value of a Sample, which counts as not seen.
NoSample == [online |-> FALSE, onBattery |-> FALSE, lowBattery |-> FALSE,
             inputV |-> 0, charge |-> 0, runtime |-> 0, at |-> 0]

EmptyModel == [last |-> NoSample, prev |-> NoSample, seen |-> 0]

\* seen is only compared with 1 and 2, so it saturates at 2.
Observe(m, s) ==
  [last |-> s, prev |-> m.last, seen |-> IF m.seen = 2 THEN 2 ELSE m.seen + 1]

Known(a, b) == a # Unknown /\ b # Unknown

SaysOnline(s) == s.online /\ ~s.onBattery

Charging(m) == Known(m.last.charge, m.prev.charge) /\ m.last.charge > m.prev.charge

NotDraining(m) == Known(m.last.runtime, m.prev.runtime) /\ m.last.runtime >= m.prev.runtime

\* Mutant: a battery that stops draining is enough, whatever is at the input.
SteadyIsBack(m) ==
  m.seen > 0 /\ (SaysOnline(m.last) \/ (m.seen >= 2 /\ (Charging(m) \/ NotDraining(m))))

\* Utility power has positively returned: the status says so, or input power is
\* present and two readings show the battery no longer draining.
MainsBack(m) ==
  /\ m.seen > 0
  /\ \/ SaysOnline(m.last)
     \/ /\ m.last.inputV > 0
        /\ m.seen >= 2
        /\ Charging(m) \/ NotDraining(m)
=============================================================================
