-------------------------------- MODULE MCHost --------------------------------
(***************************************************************************)
(* Instances of the verbs of one host. The guest that is tagged shed is in *)
(* the sequence's one wave too, so conserve and a sleep can be stopping it *)
(* at the same time.                                                       *)
(***************************************************************************)
EXTENDS Host

BothAtOnce == << <<"app", "web">> >>
OnlyApp == << <<"app">> >>
=============================================================================
