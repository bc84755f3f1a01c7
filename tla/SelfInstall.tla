------------------------------ MODULE SelfInstall ------------------------------
(***************************************************************************)
(* Installing, updating and removing CryoSheep on one machine:             *)
(* src/src/selfinstall and src/cmd/cryosheep/install.go.                   *)
(*                                                                         *)
(* A command looks up the newest release of a channel, downloads and       *)
(* verifies it, then goes through a list of writes and systemctl calls,    *)
(* any of which may fail and between any two of which the command may be   *)
(* killed or the machine may go down. A file is replaced by a rename, so   *)
(* it holds its old content or its new one and a write is one step.        *)
(* The units a command writes are those embedded in the binary it runs.    *)
(***************************************************************************)
EXTENDS Integers, SequencesExt

CONSTANTS
  Builds,      \* the builds there are
  Kind,        \* what the tag of each says: stable, dev, or a prerelease
  UnitNames,   \* the unit files, in the order they are written
  Armed,       \* those an install enables; NUT starts the others
  UnitOf,      \* the content of each unit in each build
  Garbage      \* a download that is not what the release published

None == "none"
UnitSet == {UnitNames[k] : k \in DOMAIN UnitNames}
Contents == {UnitOf[b][u] : b \in Builds, u \in UnitSet}
Channels == {"stable", "dev"}

ASSUME BuildsAssumption ==
  /\ Garbage \notin Builds /\ None \notin Builds \union {Garbage}
  /\ Kind \in [Builds -> {"stable", "dev", "prerelease"}]
ASSUME UnitsAssumption ==
  /\ UnitNames \in Seq(STRING) /\ Armed \subseteq UnitSet
  /\ UnitSet \intersect {"binary", "channel", "reload", "enable", "disable"} = {}
  /\ UnitOf \in [Builds -> [UnitSet -> Contents]] /\ None \notin Contents

VARIABLES
  releases,   \* published builds, newest first
  binary,     \* /usr/local/bin/cryosheep
  channel,    \* /etc/cryosheep/channel
  units,      \* the unit files on disk
  loaded,     \* the units as systemd last read them
  enabled,    \* the armed units are enabled
  proc,       \* the command at work
  ended       \* history: the last command that ran to its end, and how

files == <<binary, channel, units>>
systemd == <<loaded, enabled>>
vars == <<releases, files, systemd, proc, ended>>

\* running: the build whose code, and units, the command is; goal: the build it
\* found; seen: how many releases there were; step: the line of the list it is at.
ProcType ==
  [verb : {None, "install", "update", "remove"}, pc : {"idle", "latest", "fetch", "write"},
   running : Builds \union {None}, channel : Channels \union {None},
   goal : Builds \union {Garbage, None}, seen : Nat, changed : BOOLEAN, step : Nat]

Idle == [verb |-> None, pc |-> "idle", running |-> None, channel |-> None,
         goal |-> None, seen |-> 0, changed |-> FALSE, step |-> 0]

Nothing == [verb |-> None, ok |-> FALSE, seen |-> 0]

NoUnits == [u \in UnitSet |-> None]

TypeOK ==
  /\ releases \in Seq(Builds)
  /\ binary \in Builds \union {Garbage, None}
  /\ channel \in Channels \union {None}
  /\ units \in [UnitSet -> Contents \union {None}]
  /\ loaded \in [UnitSet -> Contents \union {None}]
  /\ enabled \in BOOLEAN
  /\ proc \in ProcType
  /\ proc.verb \in {"install", "update"} => proc.channel \in Channels
  /\ ended \in [verb : {None, "install", "update", "remove"}, ok : BOOLEAN, seen : Nat]

\* A machine CryoSheep was never installed on.
Init ==
  /\ releases = <<>>
  /\ binary = None /\ channel = None /\ units = NoUnits
  /\ loaded = NoUnits /\ enabled = FALSE
  /\ proc = Idle /\ ended = Nothing

-----------------------------------------------------------------------------
\* Mutant: any tag that starts with v is a release.
EligiblePrerelease(b, ch) == Kind[b] = ch \/ (ch = "stable" /\ Kind[b] = "prerelease")

Eligible(b, ch) == Kind[b] = ch

\* The first eligible of a list that is newest first.
Latest(ch) ==
  CHOOSE i \in DOMAIN releases : /\ Eligible(releases[i], ch)
                                 /\ \A j \in 1..(i - 1) : ~Eligible(releases[j], ch)

Offered(ch) == \E i \in DOMAIN releases : Eligible(releases[i], ch)

InstalledChannel == IF channel = "dev" THEN "dev" ELSE "stable"

(***************************************************************************)
(* What each command goes through, in order.                               *)
(***************************************************************************)
\* Mutant: armed before there is anything to run.
ArmFirst(enable) ==
  UnitNames \o (IF enable THEN <<"enable">> ELSE <<>>) \o <<"binary", "channel", "reload">>

\* Mutant: never armed.
Unarmed(enable) == <<"binary">> \o UnitNames \o <<"channel", "reload">>

InstallList(enable) ==
  <<"binary">> \o UnitNames \o <<"channel", "reload">>
    \o (IF enable THEN <<"enable">> ELSE <<>>)

\* Mutant: the record of the channel stays.
KeepChannel == <<"disable">> \o UnitNames \o <<"binary", "reload">>

RemoveList == <<"disable">> \o UnitNames \o <<"binary", "channel", "reload">>

-----------------------------------------------------------------------------
(***************************************************************************)
(* Starting. Any published binary will do to install; update and remove    *)
(* are run from the one installed, and update only if there is one.        *)
(***************************************************************************)
Free == proc.pc = "idle"

StartInstall ==
  /\ Free
  /\ \E b \in ToSet(releases), ch \in Channels :
       proc' = [Idle EXCEPT !.verb = "install", !.pc = "latest", !.running = b, !.channel = ch]
  /\ ended' = Nothing
  /\ UNCHANGED <<releases, files, systemd>>

StartUpdate ==
  /\ Free /\ binary # None
  /\ proc' = [Idle EXCEPT !.verb = "update", !.pc = "latest", !.running = binary,
                          !.channel = InstalledChannel]
  /\ ended' = Nothing
  /\ UNCHANGED <<releases, files, systemd>>

StartRemove ==
  /\ Free /\ binary # None
  /\ proc' = [Idle EXCEPT !.verb = "remove", !.pc = "write", !.running = binary,
                          !.step = 1]
  /\ ended' = Nothing
  /\ UNCHANGED <<releases, files, systemd>>

End(ok) ==
  /\ proc' = Idle
  /\ ended' = [verb |-> proc.verb, ok |-> ok, seen |-> proc.seen]

\* No release, a forge that does not answer, an unverifiable download, a file that
\* cannot be written, a systemctl that fails: the command ends there.
Fails ==
  /\ ~Free
  /\ End(FALSE)
  /\ UNCHANGED <<releases, files, systemd>>

\* update is over at once when the newest build is the one running.
LookUp ==
  /\ proc.pc = "latest" /\ Offered(proc.channel)
  /\ LET newest == releases[Latest(proc.channel)] IN
       IF proc.verb = "update" /\ newest = proc.running
       THEN /\ proc' = Idle
            /\ ended' = [verb |-> "update", ok |-> TRUE, seen |-> Len(releases)]
       ELSE /\ proc' = [proc EXCEPT !.pc = "fetch", !.goal = newest, !.seen = Len(releases)]
            /\ UNCHANGED ended
  /\ UNCHANGED <<releases, files, systemd>>

Downloads == {proc.goal, Garbage}

\* Its digest is the one SHA256SUMS lists.
Verified(b) == b = proc.goal

Fetch ==
  /\ proc.pc = "fetch"
  /\ \E b \in Downloads :
       /\ Verified(b)
       /\ proc' = [proc EXCEPT !.pc = "write", !.goal = b,
                               !.step = 1]
  /\ UNCHANGED <<releases, files, systemd, ended>>

-----------------------------------------------------------------------------
(***************************************************************************)
(* Writing. What is already as it should be is left alone, and only a unit *)
(* that was written calls for a reload.                                    *)
(***************************************************************************)
Removing == proc.verb = "remove"
List == IF Removing THEN RemoveList ELSE InstallList(proc.verb = "install")

Doing(what) == proc.pc = "write" /\ proc.step \in DOMAIN List /\ List[proc.step] = what

Go(changed) == proc' = [proc EXCEPT !.step = @ + 1, !.changed = changed]

WriteBinary ==
  /\ Doing("binary")
  /\ binary' = IF Removing THEN None ELSE proc.goal
  /\ Go(proc.changed)
  /\ UNCHANGED <<releases, channel, units, systemd, ended>>

WriteChannel ==
  /\ Doing("channel")
  /\ channel' = IF Removing THEN None ELSE proc.channel
  /\ Go(proc.changed)
  /\ UNCHANGED <<releases, binary, units, systemd, ended>>

WriteUnit ==
  /\ \E u \in UnitSet :
       /\ Doing(u)
       /\ LET content == IF Removing THEN None ELSE UnitOf[proc.running][u] IN
            /\ units' = [units EXCEPT ![u] = content]
            /\ Go(proc.changed \/ units[u] # content)
  /\ UNCHANGED <<releases, binary, channel, systemd, ended>>

Reload ==
  /\ Doing("reload")
  /\ loaded' = IF proc.changed \/ Removing THEN units ELSE loaded
  /\ Go(proc.changed)
  /\ UNCHANGED <<releases, files, enabled, ended>>

\* systemctl enable wants the unit files, and has the manager read them again.
Enable ==
  /\ Doing("enable")
  /\ \A u \in Armed : units[u] # None
  /\ enabled' = TRUE /\ loaded' = units
  /\ Go(proc.changed)
  /\ UNCHANGED <<releases, files, ended>>

\* systemctl disable wants them too.
Disable ==
  /\ Doing("disable")
  /\ \A u \in Armed : units[u] # None
  /\ enabled' = FALSE /\ loaded' = units
  /\ Go(proc.changed)
  /\ UNCHANGED <<releases, files, ended>>

Finish ==
  /\ proc.pc = "write" /\ proc.step \notin DOMAIN List
  /\ End(TRUE)
  /\ UNCHANGED <<releases, files, systemd>>

-----------------------------------------------------------------------------
Publish ==
  /\ \E b \in Builds \ ToSet(releases) : releases' = <<b>> \o releases
  /\ UNCHANGED <<files, systemd, proc, ended>>

\* A kill or a power cut between two steps leaves what was written.
Killed ==
  /\ ~Free
  /\ proc' = Idle /\ ended' = Nothing
  /\ UNCHANGED <<releases, files, systemd>>

\* A boot reads the units from the disk.
Boot ==
  /\ proc' = Idle /\ ended' = Nothing
  /\ loaded' = units
  /\ UNCHANGED <<releases, files, enabled>>

Next ==
  \/ StartInstall \/ StartUpdate \/ StartRemove
  \/ Fails \/ LookUp \/ Fetch
  \/ WriteBinary \/ WriteChannel \/ WriteUnit \/ Reload \/ Enable \/ Disable \/ Finish
  \/ Publish \/ Killed \/ Boot

Spec == Init /\ [][Next]_vars

-----------------------------------------------------------------------------
(***************************************************************************)
(* Properties.                                                             *)
(***************************************************************************)
Ended(verb) == Free /\ ended.verb = verb /\ ended.ok

\* A machine that is armed has what it will run: whichever command was cut off, and
\* wherever, enabled units have their files and a binary to start, which was published
\* and verified (Install arms last, Remove disarms first, Fetch verifies).
ArmedCanRun ==
  enabled => /\ binary \in ToSet(releases)
             /\ \A u \in Armed : units[u] # None

\* An update that says it succeeded leaves the newest build, of those there were when
\* it asked, of the channel recorded at install: "newest build on the same channel"
\* (deploy/README.md:9).
UpdateReachesNewest ==
  Ended("update") =>
    LET known == SubSeq(releases, Len(releases) - ended.seen + 1, Len(releases)) IN
      /\ channel = "dev" => Kind[binary] = "dev"
      /\ channel # "dev" => Kind[binary] = "stable"
      /\ \E i \in DOMAIN known :
           /\ known[i] = binary
           /\ \A j \in 1..(i - 1) : Kind[known[j]] # Kind[binary]

\* An install that says it succeeded leaves systemd running what is on the disk, even
\* after others were cut off between writing the units and reloading them.
InstallIsLoaded == Ended("install") => enabled /\ loaded = units

\* A removal that says it succeeded leaves no file, and systemd knowing of none.
RemoveLeavesNothing ==
  Ended("remove") => /\ binary = None /\ channel = None /\ units = NoUnits
                     /\ loaded = NoUnits /\ ~enabled
=============================================================================
