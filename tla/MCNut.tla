--------------------------------- MODULE MCNut ---------------------------------
(***************************************************************************)
(* Instances of one call on the UPS. With the dial timeout the code gives  *)
(* every client, the gate's deadline is as long as one dial, and the cut's *)
(* and the whole run's are longer.                                         *)
(***************************************************************************)
EXTENDS Nut

CONSTANTS First2, Second2

Line(upsd, fields) == [directive |-> TRUE, fields |-> fields, addr |-> TRUE, upsd |-> upsd]

\* Both upsds with credentials; the first without any; other lines around them,
\* and the same upsd twice.
TwoEndpoints == {
  <<Line(First2, 6), Line(Second2, 5)>>,
  <<Line(First2, 2), Line(Second2, 6)>>,
  <<[Line(First2, 6) EXCEPT !.directive = FALSE], [Line(First2, 6) EXCEPT !.addr = FALSE],
    Line(Second2, 6), Line(Second2, 6)>> }

GateReads == {[op |-> "read", within |-> 3, after |-> 0]}

EveryCall == GateReads \union {
  [op |-> "read", within |-> 7, after |-> 0],
  [op |-> "runtime", within |-> 5, after |-> 0],
  [op |-> "cut", within |-> 5, after |-> 2],
  [op |-> "cut", within |-> 5, after |-> 0] }
=============================================================================
