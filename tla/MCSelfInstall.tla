----------------------------- MODULE MCSelfInstall -----------------------------
(***************************************************************************)
(* A machine over a few releases: two stable ones, a prerelease and a main *)
(* build. The stasis unit differs between the two stable releases, the     *)
(* wake unit between the stable ones and the main build.                   *)
(***************************************************************************)
EXTENDS SelfInstall

CONSTANTS v1, v2, rc, dev

KindOf == [b \in {v1, v2, rc, dev} |->
             IF b = dev THEN "dev" ELSE IF b = rc THEN "prerelease" ELSE "stable"]

Units == <<"stasis", "wake">>

Embedded == [b \in {v1, v2, rc, dev} |->
  [u \in {"stasis", "wake"} |->
     IF u = "stasis" THEN (IF b = v1 THEN "old" ELSE "new")
     ELSE IF b = dev THEN "new" ELSE "old"]]
=============================================================================
