------------------------------- MODULE MCJournal -------------------------------
(***************************************************************************)
(* Instances of the record of one host: conserves, a sleep that gathers    *)
(* evidence, and an undo started by hand.                                  *)
(***************************************************************************)
EXTENDS Journal

Plain == [verb |-> "cancel", waves |-> <<>>,
          note |-> FALSE, hand |-> FALSE, fails |-> FALSE, busy |-> FALSE]

Shed == [Plain EXCEPT !.verb = "conserve", !.waves = <<2>>]
TwoWaves == [Plain EXCEPT !.verb = "conserve", !.waves = <<1, 1>>]
Sleep == [Plain EXCEPT !.verb = "sleep", !.waves = <<1>>, !.note = TRUE, !.fails = TRUE]
HandUndo == [Plain EXCEPT !.hand = TRUE, !.busy = TRUE]

Record == {Shed, TwoWaves, Sleep, HandUndo}
OneConserve == [verb \in {"conserve", "sleep", "cancel", "wake"} |->
                  IF verb \in {"conserve", "cancel"} THEN 1 ELSE 2]
Half == <<1, 2>>
=============================================================================
