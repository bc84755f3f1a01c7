--------------------------- MODULE SelfInstallProofs ---------------------------
(***************************************************************************)
(* Proofs about SelfInstall, for any builds, any unit files and any order  *)
(* of writing them.                                                        *)
(***************************************************************************)
EXTENDS SelfInstall, SequenceLemmas

Writing(verbs) == proc.pc = "write" /\ proc.verb \in verbs

\* What was downloaded and passed verification had been published.
GoalIsPublished ==
  proc.pc \in {"fetch", "write"} /\ proc.verb # "remove" => proc.goal \in ToSet(releases)

\* An install or an update is past its first line only with a published binary.
BinaryIsFirst ==
  Writing({"install", "update"}) /\ proc.step # 1 => binary \in ToSet(releases)

\* A removal is past its first line only once nothing is enabled.
DisarmedFirst == Writing({"remove"}) /\ proc.step # 1 => ~enabled

\* A download that was not published never becomes the binary.
BinaryIsABuild == binary \in Builds \union {None}

\* What a command at work is.
CommandOK ==
  /\ proc.pc = "idle" <=> proc.verb = None
  /\ proc.verb = "remove" => proc.pc = "write"
  /\ proc.pc # "idle" => proc.running \in Builds

IInv ==
  /\ TypeOK /\ CommandOK /\ BinaryIsABuild /\ GoalIsPublished
  /\ BinaryIsFirst /\ DisarmedFirst /\ ArmedCanRun

-----------------------------------------------------------------------------
(***************************************************************************)
(* The lists of lines.                                                     *)
(***************************************************************************)
\* What follows does not change how a sequence begins.
LEMMA BeginsAs ==
  ASSUME NEW S, NEW s \in Seq(S), NEW t \in Seq(S), Len(s) >= 1
  PROVE  s \o t \in Seq(S) /\ (s \o t)[1] = s[1] /\ Len(s \o t) >= 1
<1>1. /\ s \o t \in Seq(S) /\ Len(s \o t) = Len(s) + Len(t)
      /\ \A i \in 1 .. Len(s) + Len(t) : (s \o t)[i] = IF i <= Len(s) THEN s[i] ELSE t[i - Len(s)]
  BY ConcatProperties
<1>2. Len(s) \in Nat /\ Len(t) \in Nat
  BY LenProperties
<1> QED
  BY <1>1, <1>2

\* The lines of the lists.
Lines == UnitSet \union {"disable", "binary", "channel", "reload", "enable"}

\* The unit files are lines.
LEMMA UnitLines == UnitNames \in Seq(Lines)
  BY UnitsAssumption, LenProperties DEF Lines, UnitSet

\* An install and an update begin with the binary.
LEMMA InstallBegins ==
  ASSUME NEW enable \in BOOLEAN
  PROVE  InstallList(enable)[1] = "binary"
<1> DEFINE last == IF enable THEN <<"enable">> ELSE <<>>
           bin == <<"binary">>
           end == <<"channel", "reload">>
<1>1. bin \in Seq(Lines) /\ Len(bin) >= 1 /\ bin[1] = "binary" /\ end \in Seq(Lines)
  BY DEF Lines
<1>2. last \in Seq(Lines)
  <2>1. <<"enable">> \in Seq(Lines) /\ <<>> \in Seq(Lines)
    BY DEF Lines
  <2> QED
    BY <2>1
<1>3. InstallList(enable) = ((bin \o UnitNames) \o end) \o last
  BY DEF InstallList
<1> HIDE DEF bin, end, last
<1>4. bin \o UnitNames \in Seq(Lines) /\ (bin \o UnitNames)[1] = "binary"
      /\ Len(bin \o UnitNames) >= 1
  BY <1>1, UnitLines, BeginsAs
<1>5. /\ (bin \o UnitNames) \o end \in Seq(Lines)
      /\ ((bin \o UnitNames) \o end)[1] = "binary"
      /\ Len((bin \o UnitNames) \o end) >= 1
  BY <1>1, <1>4, BeginsAs
<1>6. (((bin \o UnitNames) \o end) \o last)[1] = "binary"
  BY <1>2, <1>5, BeginsAs
<1> QED
  BY <1>3, <1>6

\* A removal begins by disarming, and has no line that arms.
LEMMA RemoveBegins ==
  /\ RemoveList[1] = "disable"
  /\ \A i \in DOMAIN RemoveList : RemoveList[i] # "enable"
<1> DEFINE A == {"disable"} \union UnitSet \union {"binary", "channel", "reload"}
<1>1. UnitNames \in Seq(A)
  BY UnitsAssumption, LenProperties DEF UnitSet
<1>2. <<"disable">> \o UnitNames \in Seq(A) /\ (<<"disable">> \o UnitNames)[1] = "disable"
      /\ Len(<<"disable">> \o UnitNames) >= 1
  BY <1>1
<1>3. RemoveList \in Seq(A) /\ RemoveList[1] = "disable"
  BY <1>2 DEF RemoveList
<1>4. "enable" \notin A
  BY UnitsAssumption
<1> QED
  BY <1>3, <1>4, ElementOfSeq, LenProperties

-----------------------------------------------------------------------------
(***************************************************************************)
(* The newest release.                                                     *)
(***************************************************************************)
\* What a channel offers has a newest build, which was published.
LEMMA LatestIsPublished ==
  ASSUME releases \in Seq(Builds), NEW ch, Offered(ch)
  PROVE  /\ releases[Latest(ch)] \in Builds /\ releases[Latest(ch)] \in ToSet(releases)
         /\ Latest(ch) \in 1..Len(releases) /\ Kind[releases[Latest(ch)]] = ch
         /\ \A j \in 1..(Latest(ch) - 1) : Kind[releases[j]] # ch
<1>1. DOMAIN releases = 1..Len(releases) /\ Len(releases) \in Nat
  BY LenProperties
<1> DEFINE T == {i \in DOMAIN releases : Eligible(releases[i], ch)}
<1>2. T \subseteq Nat /\ T # {}
  BY <1>1 DEF Offered
<1>3. PICK x \in T : \A y \in T : ~(y < x)
  <2> HIDE DEF T
  <2> QED
    BY <1>2, Least
<1>4. /\ x \in DOMAIN releases /\ Eligible(releases[x], ch)
      /\ \A j \in 1..(x - 1) : ~Eligible(releases[j], ch)
  <2>1. x \in DOMAIN releases /\ Eligible(releases[x], ch)
    OBVIOUS
  <2>2. \A j \in 1..(x - 1) : j \in DOMAIN releases /\ j < x
    BY <1>1, <2>1
  <2> QED
    BY <1>3, <2>1, <2>2
<1>5. /\ Latest(ch) \in DOMAIN releases /\ Eligible(releases[Latest(ch)], ch)
      /\ \A j \in 1..(Latest(ch) - 1) : ~Eligible(releases[j], ch)
  BY <1>4 DEF Latest
<1> QED
  BY <1>1, <1>5, ElementOfSeq DEF ToSet, Eligible

\* A build that was published stays so.
LEMMA PublishedStays ==
  ASSUME releases \in Seq(Builds), NEW b \in Builds, releases' = <<b>> \o releases
  PROVE  releases' \in Seq(Builds) /\ ToSet(releases) \subseteq ToSet(releases')
<1>1. <<b>> \in Seq(Builds) /\ Len(<<b>>) = 1
  OBVIOUS
<1>2. Len(releases) \in Nat /\ DOMAIN releases = 1..Len(releases)
  BY LenProperties
<1>3. /\ releases' \in Seq(Builds)
      /\ Len(releases') = 1 + Len(releases)
      /\ \A i \in 1..(1 + Len(releases)) :
           releases'[i] = IF i <= 1 THEN <<b>>[i] ELSE releases[i - 1]
  <2> DEFINE new == <<b>>
  <2> HIDE DEF new
  <2>1. new \in Seq(Builds) /\ Len(new) = 1 /\ releases' = new \o releases
    BY <1>1 DEF new
  <2>2. /\ releases' \in Seq(Builds)
        /\ Len(releases') = Len(new) + Len(releases)
        /\ \A i \in 1 .. Len(new) + Len(releases) :
             releases'[i] = IF i <= Len(new) THEN new[i] ELSE releases[i - Len(new)]
    BY <2>1, ConcatProperties
  <2> QED
    BY <2>1, <2>2 DEF new
<1>4. DOMAIN releases' = 1..Len(releases')
  BY <1>3, LenProperties
<1>5. \A i \in DOMAIN releases : i + 1 \in DOMAIN releases' /\ releases'[i + 1] = releases[i]
  BY <1>2, <1>3, <1>4
<1>6. ASSUME NEW x \in ToSet(releases) PROVE x \in ToSet(releases')
  <2>1. PICK i \in DOMAIN releases : x = releases[i]
    BY <1>6 DEF ToSet
  <2>2. i + 1 \in DOMAIN releases' /\ releases'[i + 1] = x
    BY <2>1, <1>5
  <2> QED
    BY <2>2 DEF ToSet
<1> QED
  BY <1>3, <1>6

-----------------------------------------------------------------------------
(***************************************************************************)
(* One lemma for each part of the invariant.                               *)
(***************************************************************************)
\* What a step may do to the command at work: begin one, go on with it, or end it.
LEMMA StepProc ==
  ASSUME IInv, [Next]_vars
  PROVE  proc' \in ProcType /\ CommandOK'
         /\ (proc'.verb \in {"install", "update"} => proc'.channel \in Channels)
<1> USE DEF IInv
<1>0. /\ proc \in ProcType /\ proc.step \in Nat /\ releases \in Seq(Builds)
      /\ (proc.verb \in {"install", "update"} => proc.channel \in Channels)
  BY DEF TypeOK, ProcType
<1>a. proc' = proc => proc' \in ProcType /\ CommandOK'
                      /\ (proc'.verb \in {"install", "update"} => proc'.channel \in Channels)
  BY <1>0 DEF CommandOK
<1>b. proc' = Idle => proc' \in ProcType /\ CommandOK'
                      /\ (proc'.verb \in {"install", "update"} => proc'.channel \in Channels)
  BY DEF Idle, ProcType, CommandOK, None
<1>c. ASSUME proc.pc = "write", NEW changed \in BOOLEAN, Go(changed)
      PROVE  proc' \in ProcType /\ CommandOK'
             /\ (proc'.verb \in {"install", "update"} => proc'.channel \in Channels)
  <2> DEFINE n == proc.step + 1
  <2>1. n \in Nat
    BY <1>0
  <2>2. proc' = [proc EXCEPT !.step = n, !.changed = changed]
    BY <1>c DEF Go
  <2> HIDE DEF n
  <2>3. proc' \in ProcType
    BY <1>0, <1>c, <2>1, <2>2 DEF ProcType
  <2>4. /\ proc'.pc = proc.pc /\ proc'.verb = proc.verb /\ proc'.running = proc.running
        /\ proc'.channel = proc.channel
    BY <1>0, <2>2 DEF ProcType
  <2> QED
    BY <1>0, <2>3, <2>4 DEF CommandOK
<1>1. CASE StartInstall
  <2>1. PICK b \in ToSet(releases), ch \in Channels :
          proc' = [Idle EXCEPT !.verb = "install", !.pc = "latest", !.running = b, !.channel = ch]
    BY <1>1 DEF StartInstall
  <2>2. b \in Builds
    BY <1>0, <2>1, ElementOfSeq, LenProperties DEF ToSet
  <2> QED
    BY <2>1, <2>2 DEF Idle, ProcType, CommandOK, None
<1>2. CASE StartUpdate
  <2>1. binary \in Builds
    BY <1>2 DEF StartUpdate, BinaryIsABuild
  <2>2. InstalledChannel \in Channels
    BY DEF InstalledChannel, Channels
  <2> QED
    BY <1>2, <2>1, <2>2 DEF StartUpdate, Idle, ProcType, CommandOK, None
<1>3. CASE StartRemove
  <2>1. binary \in Builds
    BY <1>3 DEF StartRemove, BinaryIsABuild
  <2> QED
    BY <1>3, <2>1 DEF StartRemove, Idle, ProcType, CommandOK, None
<1>4. CASE Fails \/ Finish \/ Killed \/ Boot
  BY <1>4, <1>b DEF Fails, Finish, Killed, Boot, End
<1>5. CASE LookUp
  <2>1. releases[Latest(proc.channel)] \in Builds /\ Len(releases) \in Nat
    BY <1>0, <1>5, LatestIsPublished, LenProperties DEF LookUp
  <2> DEFINE newest == releases[Latest(proc.channel)]
  <2>2. proc' = Idle \/ proc' = [proc EXCEPT !.pc = "fetch", !.goal = newest, !.seen = Len(releases)]
    BY <1>5 DEF LookUp
  <2>3. proc.pc = "latest"
    BY <1>5 DEF LookUp
  <2> HIDE DEF newest
  <2>4. newest \in Builds
    BY <2>1 DEF newest
  <2>5. CASE proc' = [proc EXCEPT !.pc = "fetch", !.goal = newest, !.seen = Len(releases)]
    BY <1>0, <2>1, <2>3, <2>4, <2>5 DEF ProcType, CommandOK
  <2> QED
    BY <1>b, <2>2, <2>5
<1>6. CASE Fetch
  <2>1. proc.pc = "fetch" /\ proc' = [proc EXCEPT !.pc = "write", !.goal = proc.goal, !.step = 1]
    BY <1>6 DEF Fetch, Verified
  <2> QED
    BY <1>0, <2>1 DEF ProcType, CommandOK
<1>7. CASE WriteBinary \/ WriteChannel \/ Reload \/ Enable \/ Disable
  <2>1. proc.changed \in BOOLEAN
    BY <1>0 DEF ProcType
  <2> QED
    BY <1>7, <1>c, <2>1 DEF WriteBinary, WriteChannel, Reload, Enable, Disable, Doing
<1>8. CASE WriteUnit
  <2>1. PICK u \in UnitSet :
          /\ Doing(u)
          /\ LET content == IF Removing THEN None ELSE UnitOf[proc.running][u] IN
               Go(proc.changed \/ units[u] # content)
    BY <1>8 DEF WriteUnit
  <2> QED
    BY <1>c, <2>1 DEF Doing
<1>9. CASE Publish \/ UNCHANGED vars
  BY <1>9, <1>a DEF Publish, vars
<1> QED
  BY <1>1, <1>2, <1>3, <1>4, <1>5, <1>6, <1>7, <1>8, <1>9 DEF Next

\* The files, the units systemd has read and the record of the end keep their types.
LEMMA StepTypeOK == IInv /\ [Next]_vars => TypeOK'
<1> SUFFICES ASSUME IInv, [Next]_vars PROVE TypeOK'
  OBVIOUS
<1> USE DEF IInv
<1>0. /\ binary \in Builds \union {Garbage, None} /\ channel \in Channels \union {None}
      /\ units \in [UnitSet -> Contents \union {None}]
      /\ loaded \in [UnitSet -> Contents \union {None}]
      /\ enabled \in BOOLEAN /\ proc \in ProcType /\ releases \in Seq(Builds)
  BY DEF TypeOK
<1>1. releases' \in Seq(Builds)
  <2>1. CASE Publish
    BY <1>0, <2>1, PublishedStays DEF Publish
  <2>2. CASE ~Publish
    BY <1>0, <2>2 DEF Next, StartInstall, StartUpdate, StartRemove, Fails, LookUp, Fetch,
       WriteBinary, WriteChannel, WriteUnit, Reload, Enable, Disable, Finish, Killed, Boot, vars
  <2> QED
    BY <2>1, <2>2
<1>2. binary' \in Builds \union {Garbage, None}
  <2>1. CASE WriteBinary
    BY <1>0, <2>1 DEF WriteBinary, ProcType
  <2>2. CASE ~WriteBinary
    BY <1>0, <2>2 DEF Next, StartInstall, StartUpdate, StartRemove, Fails, LookUp, Fetch,
       WriteChannel, WriteUnit, Reload, Enable, Disable, Finish, Publish, Killed, Boot, files, vars
  <2> QED
    BY <2>1, <2>2
<1>3. channel' \in Channels \union {None}
  <2>1. CASE WriteChannel
    BY <1>0, <2>1 DEF WriteChannel, ProcType
  <2>2. CASE ~WriteChannel
    BY <1>0, <2>2 DEF Next, StartInstall, StartUpdate, StartRemove, Fails, LookUp, Fetch,
       WriteBinary, WriteUnit, Reload, Enable, Disable, Finish, Publish, Killed, Boot, files, vars
  <2> QED
    BY <2>1, <2>2
<1>4. units' \in [UnitSet -> Contents \union {None}]
  <2>1. CASE WriteUnit
    <3>1. PICK u \in UnitSet :
            /\ Doing(u)
            /\ units' = [units EXCEPT ![u] = IF Removing THEN None ELSE UnitOf[proc.running][u]]
      BY <2>1 DEF WriteUnit
    <3>2. UnitOf[proc.running][u] \in Contents
      BY <3>1, UnitsAssumption DEF Doing, CommandOK
    <3> QED
      BY <1>0, <3>1, <3>2
  <2>2. CASE ~WriteUnit
    BY <1>0, <2>2 DEF Next, StartInstall, StartUpdate, StartRemove, Fails, LookUp, Fetch,
       WriteBinary, WriteChannel, Reload, Enable, Disable, Finish, Publish, Killed, Boot, files, vars
  <2> QED
    BY <2>1, <2>2
<1>5. loaded' \in {loaded, units} /\ enabled' \in BOOLEAN
  BY <1>0 DEF Next, StartInstall, StartUpdate, StartRemove, Fails, LookUp, Fetch,
     WriteBinary, WriteChannel, WriteUnit, Reload, Enable, Disable, Finish, Publish, Killed,
     Boot, systemd, vars
<1>6. ended' \in [verb : {None, "install", "update", "remove"}, ok : BOOLEAN, seen : Nat]
  <2>1. ended \in [verb : {None, "install", "update", "remove"}, ok : BOOLEAN, seen : Nat]
        /\ proc.verb \in {None, "install", "update", "remove"} /\ proc.seen \in Nat
        /\ Len(releases) \in Nat
    BY <1>0, LenProperties DEF TypeOK, ProcType
  <2>2. \/ ended' = ended \/ ended' = Nothing
        \/ \E ok \in BOOLEAN : ended' = [verb |-> proc.verb, ok |-> ok, seen |-> proc.seen]
        \/ ended' = [verb |-> "update", ok |-> TRUE, seen |-> Len(releases)]
    BY DEF Next, StartInstall, StartUpdate, StartRemove, Fails, LookUp, Fetch,
       WriteBinary, WriteChannel, WriteUnit, Reload, Enable, Disable, Finish, Publish, Killed,
       Boot, End, vars
  <2>3. Nothing \in [verb : {None, "install", "update", "remove"}, ok : BOOLEAN, seen : Nat]
    BY DEF Nothing
  <2>4. \A ok \in BOOLEAN : [verb |-> proc.verb, ok |-> ok, seen |-> proc.seen]
           \in [verb : {None, "install", "update", "remove"}, ok : BOOLEAN, seen : Nat]
    BY <2>1
  <2>5. [verb |-> "update", ok |-> TRUE, seen |-> Len(releases)]
           \in [verb : {None, "install", "update", "remove"}, ok : BOOLEAN, seen : Nat]
    BY <2>1
  <2> QED
    BY <2>1, <2>2, <2>3, <2>4, <2>5
<1> QED
  BY <1>0, <1>1, <1>2, <1>3, <1>4, <1>5, <1>6, StepProc DEF TypeOK

\* What a command has found, or brought, was published.
LEMMA StepPublished ==
  ASSUME IInv, [Next]_vars
  PROVE  /\ GoalIsPublished' /\ BinaryIsABuild' /\ ToSet(releases) \subseteq ToSet(releases')
<1> USE DEF IInv
<1>0. releases \in Seq(Builds) /\ proc \in ProcType
  BY DEF TypeOK
<1>1. ToSet(releases) \subseteq ToSet(releases')
  <2>1. CASE Publish
    BY <1>0, <2>1, PublishedStays DEF Publish
  <2>2. CASE ~Publish
    BY <2>2 DEF Next, StartInstall, StartUpdate, StartRemove, Fails, LookUp, Fetch,
       WriteBinary, WriteChannel, WriteUnit, Reload, Enable, Disable, Finish, Killed, Boot, vars
  <2> QED
    BY <2>1, <2>2
<1>2. ToSet(releases) \subseteq Builds
  BY <1>0, ElementOfSeq, LenProperties DEF ToSet
<1>3. BinaryIsABuild'
  <2>1. CASE WriteBinary
    BY <1>2, <2>1 DEF WriteBinary, Removing, Doing, GoalIsPublished, BinaryIsABuild
  <2>2. CASE ~WriteBinary
    BY <2>2 DEF BinaryIsABuild, Next, StartInstall, StartUpdate, StartRemove, Fails, LookUp,
       Fetch, WriteChannel, WriteUnit, Reload, Enable, Disable, Finish, Publish, Killed, Boot,
       files, vars
  <2> QED
    BY <2>1, <2>2
<1>4. GoalIsPublished'
  <2>1. CASE StartInstall \/ StartUpdate \/ StartRemove
    BY <2>1 DEF StartInstall, StartUpdate, StartRemove, Idle, GoalIsPublished
  <2>2. CASE Fails \/ Finish \/ Killed \/ Boot
    BY <2>2 DEF Fails, Finish, Killed, Boot, End, Idle, GoalIsPublished
  <2>3. CASE LookUp
    <3> DEFINE newest == releases[Latest(proc.channel)]
    <3>1. newest \in ToSet(releases)
      BY <1>0, <2>3, LatestIsPublished DEF LookUp
    <3>2. proc' = Idle \/ proc' = [proc EXCEPT !.pc = "fetch", !.goal = newest, !.seen = Len(releases)]
      BY <2>3 DEF LookUp
    <3> HIDE DEF newest
    <3>3. CASE proc' = Idle
      BY <3>3 DEF Idle, GoalIsPublished
    <3>4. CASE proc' = [proc EXCEPT !.pc = "fetch", !.goal = newest, !.seen = Len(releases)]
      <4>1. proc'.goal = newest
        BY <1>0, <3>4 DEF ProcType
      <4> QED
        BY <1>1, <3>1, <4>1 DEF GoalIsPublished
    <3> QED
      BY <3>2, <3>3, <3>4
  <2>4. CASE Fetch
    <3>1. proc.pc = "fetch" /\ proc' = [proc EXCEPT !.pc = "write", !.goal = proc.goal, !.step = 1]
      BY <2>4 DEF Fetch, Verified
    <3>2. proc'.goal = proc.goal /\ proc'.verb = proc.verb
      BY <1>0, <3>1 DEF ProcType
    <3> QED
      BY <1>1, <3>1, <3>2 DEF GoalIsPublished
  <2>5. ASSUME NEW changed, proc' = [proc EXCEPT !.step = @ + 1, !.changed = changed], proc.pc = "write"
        PROVE  GoalIsPublished'
    <3>1. proc'.goal = proc.goal /\ proc'.verb = proc.verb
      BY <1>0, <2>5 DEF ProcType
    <3> QED
      BY <1>1, <2>5, <3>1 DEF GoalIsPublished
  <2>6. CASE WriteBinary \/ WriteChannel \/ WriteUnit \/ Reload \/ Enable \/ Disable
    BY <2>5, <2>6 DEF WriteBinary, WriteChannel, WriteUnit, Reload, Enable, Disable, Doing, Go
  <2>7. CASE Publish \/ UNCHANGED vars
    BY <1>1, <2>7 DEF Publish, vars, GoalIsPublished
  <2> QED
    BY <2>1, <2>2, <2>3, <2>4, <2>6, <2>7 DEF Next
<1> QED
  BY <1>1, <1>3, <1>4

\* The first line of a list is the one that makes what follows safe: the binary of an
\* install, the disarming of a removal.
LEMMA FirstLine ==
  ASSUME IInv, proc.pc = "write", proc.step = 1, NEW what, Doing(what)
  PROVE  what = IF Removing THEN "disable" ELSE "binary"
  BY InstallBegins, RemoveBegins DEF Doing, List

\* Past it, an install has its binary and a removal has disarmed.
LEMMA StepFirst == IInv /\ [Next]_vars => BinaryIsFirst' /\ DisarmedFirst'
<1> SUFFICES ASSUME IInv, [Next]_vars PROVE BinaryIsFirst' /\ DisarmedFirst'
  OBVIOUS
<1> USE DEF IInv
<1>0. proc \in ProcType /\ ToSet(releases) \subseteq ToSet(releases')
  BY StepPublished DEF TypeOK
<1>1. CASE proc'.pc # "write" \/ proc'.step = 1
  BY <1>1 DEF BinaryIsFirst, DisarmedFirst, Writing
<1>2. CASE Publish \/ UNCHANGED vars
  BY <1>0, <1>2 DEF Publish, files, systemd, vars, BinaryIsFirst, DisarmedFirst, Writing
<1>3. ASSUME NEW changed, proc' = [proc EXCEPT !.step = @ + 1, !.changed = changed]
      PROVE  proc'.verb = proc.verb
  BY <1>0, <1>3 DEF ProcType
<1>4. ASSUME proc.pc = "write", proc.step # 1,
             UNCHANGED <<binary, enabled>>, proc'.verb = proc.verb
      PROVE  BinaryIsFirst' /\ DisarmedFirst'
  BY <1>0, <1>4 DEF BinaryIsFirst, DisarmedFirst, Writing
<1>5. CASE WriteBinary
  <2>1. proc'.verb = proc.verb /\ enabled' = enabled /\ proc.pc = "write" /\ Doing("binary")
    BY <1>3, <1>5 DEF WriteBinary, Doing, Go, systemd
  <2>2. CASE Removing
    <3>1. proc.step # 1
      BY <2>1, <2>2, FirstLine
    <3> QED
      BY <2>1, <2>2, <3>1 DEF BinaryIsFirst, DisarmedFirst, Writing, Removing
  <2>3. CASE ~Removing
    <3>1. binary' \in ToSet(releases)
      BY <1>5, <2>1, <2>3 DEF WriteBinary, GoalIsPublished, Removing
    <3> QED
      BY <1>0, <2>1, <2>3, <3>1 DEF BinaryIsFirst, DisarmedFirst, Writing, Removing
  <2> QED
    BY <2>2, <2>3
<1>6. CASE Disable
  <2>1. proc'.verb = proc.verb /\ enabled' = FALSE /\ binary' = binary /\ Doing("disable")
        /\ proc.pc = "write"
    BY <1>3, <1>6 DEF Disable, Doing, Go, files
  <2>2. proc.step # 1 \/ Removing
    BY <2>1, FirstLine
  <2> QED
    BY <1>0, <2>1, <2>2 DEF BinaryIsFirst, DisarmedFirst, Writing, Removing
<1>7. CASE Enable
  <2>1. proc'.verb = proc.verb /\ binary' = binary /\ Doing("enable") /\ proc.pc = "write"
    BY <1>3, <1>7 DEF Enable, Doing, Go, files
  <2>2. ~Removing
    BY <2>1, RemoveBegins DEF Doing, List
  <2>3. proc.step # 1
    BY <2>1, FirstLine
  <2> QED
    BY <1>0, <2>1, <2>2, <2>3 DEF BinaryIsFirst, DisarmedFirst, Writing, Removing
<1>8. CASE WriteChannel \/ WriteUnit \/ Reload
  <2>1. PICK what : Doing(what) /\ what \in UnitSet \union {"channel", "reload"}
    BY <1>8 DEF WriteChannel, WriteUnit, Reload
  <2>2. what \notin {"binary", "disable"}
    BY <2>1, UnitsAssumption
  <2>3. proc.pc = "write" /\ proc.step # 1
    BY <2>1, <2>2, FirstLine DEF Doing
  <2>4. UNCHANGED <<binary, enabled>> /\ proc'.verb = proc.verb
    BY <1>3, <1>8 DEF WriteChannel, WriteUnit, Reload, Go, files, systemd
  <2> QED
    BY <1>4, <2>3, <2>4
<1>9. CASE StartInstall \/ StartUpdate \/ StartRemove \/ Fails \/ LookUp \/ Fetch \/ Finish
           \/ Killed \/ Boot
  <2>1. proc'.pc # "write" \/ proc'.step = 1
    <3>1. CASE StartInstall \/ StartUpdate
      BY <3>1 DEF StartInstall, StartUpdate, Idle
    <3>2. CASE StartRemove
      BY <3>2 DEF StartRemove, Idle
    <3>3. CASE Fails \/ Finish \/ Killed \/ Boot
      BY <3>3 DEF Fails, Finish, Killed, Boot, End, Idle
    <3>4. CASE LookUp
      <4> DEFINE newest == releases[Latest(proc.channel)]
      <4>1. proc' = Idle \/ proc' = [proc EXCEPT !.pc = "fetch", !.goal = newest, !.seen = Len(releases)]
        BY <3>4 DEF LookUp
      <4> HIDE DEF newest
      <4>2. CASE proc' = Idle
        BY <4>2 DEF Idle
      <4>3. CASE proc' = [proc EXCEPT !.pc = "fetch", !.goal = newest, !.seen = Len(releases)]
        BY <1>0, <4>3 DEF ProcType
      <4> QED
        BY <4>1, <4>2, <4>3
    <3>5. CASE Fetch
      BY <1>0, <3>5 DEF Fetch, ProcType
    <3> QED
      BY <1>9, <3>1, <3>2, <3>3, <3>4, <3>5
  <2> QED
    BY <1>1, <2>1
<1> QED
  BY <1>2, <1>5, <1>6, <1>7, <1>8, <1>9 DEF Next

\* Arming comes last and disarming first.
LEMMA StepArmed == IInv /\ [Next]_vars => ArmedCanRun'
<1> SUFFICES ASSUME IInv, [Next]_vars, enabled' PROVE ArmedCanRun'
  BY DEF ArmedCanRun
<1> USE DEF IInv
<1>0. ToSet(releases) \subseteq ToSet(releases') /\ proc \in ProcType
      /\ units \in [UnitSet -> Contents \union {None}]
  BY StepPublished DEF TypeOK
<1>1. CASE WriteBinary
  <2>1. enabled /\ units' = units /\ Doing("binary") /\ proc.pc = "write"
    BY <1>1 DEF WriteBinary, systemd, Doing
  <2>2. CASE Removing
    <3>1. proc.step # 1
      BY <2>1, <2>2, FirstLine
    <3> QED
      BY <2>1, <2>2, <3>1 DEF DisarmedFirst, Writing, Removing
  <2>3. CASE ~Removing
    BY <1>0, <1>1, <2>1, <2>3 DEF WriteBinary, GoalIsPublished, Removing, ArmedCanRun
  <2> QED
    BY <2>2, <2>3
<1>2. CASE WriteUnit
  <2>1. PICK u \in UnitSet :
          /\ Doing(u)
          /\ units' = [units EXCEPT ![u] = IF Removing THEN None ELSE UnitOf[proc.running][u]]
    BY <1>2 DEF WriteUnit
  <2>2. enabled /\ binary' = binary /\ proc.pc = "write"
    BY <1>2, <2>1 DEF WriteUnit, systemd, Doing
  <2>3. CASE Removing
    <3>1. proc.step # 1
      BY <2>1, <2>2, <2>3, FirstLine, UnitsAssumption
    <3> QED
      BY <2>2, <2>3, <3>1 DEF DisarmedFirst, Writing, Removing
  <2>4. CASE ~Removing
    <3>1. UnitOf[proc.running][u] \in Contents /\ None \notin Contents
      BY <2>2, UnitsAssumption DEF CommandOK
    <3>2. \A v \in UnitSet : units[v] # None => units'[v] # None
      BY <1>0, <2>1, <2>4, <3>1
    <3>3. Armed \subseteq UnitSet
      BY UnitsAssumption
    <3> QED
      BY <1>0, <2>2, <3>2, <3>3 DEF ArmedCanRun
  <2> QED
    BY <2>3, <2>4
<1>3. CASE Enable
  <2>1. Doing("enable") /\ proc.pc = "write" /\ UNCHANGED <<binary, units>>
        /\ \A u \in Armed : units[u] # None
    BY <1>3 DEF Enable, Doing, files
  <2>2. ~Removing
    BY <2>1, RemoveBegins DEF Doing, List
  <2>3. proc.step # 1
    BY <2>1, FirstLine
  <2>4. proc.verb \in {"install", "update"}
    BY <1>0, <2>1, <2>2 DEF ProcType, CommandOK, Removing
  <2>5. binary \in ToSet(releases)
    BY <2>1, <2>3, <2>4 DEF BinaryIsFirst, Writing
  <2> QED
    BY <1>0, <2>1, <2>5 DEF ArmedCanRun
<1>4. CASE ~(WriteBinary \/ WriteUnit \/ Enable)
  <2>1. enabled /\ UNCHANGED <<binary, units>>
    BY <1>4 DEF Next, StartInstall, StartUpdate, StartRemove, Fails, LookUp, Fetch, WriteChannel,
       Reload, Disable, Finish, Publish, Killed, Boot, files, systemd, vars
  <2> QED
    BY <1>0, <2>1 DEF ArmedCanRun
<1> QED
  BY <1>1, <1>2, <1>3, <1>4

-----------------------------------------------------------------------------
(***************************************************************************)
(* The invariant, and the theorems it gives.                               *)
(***************************************************************************)
\* A machine without CryoSheep satisfies the invariant.
LEMMA InitIInv == Init => IInv
<1> SUFFICES ASSUME Init PROVE IInv
  OBVIOUS
<1>1. /\ releases = <<>> /\ binary = None /\ channel = None /\ units = NoUnits
      /\ loaded = NoUnits /\ enabled = FALSE /\ proc = Idle /\ ended = Nothing
  BY DEF Init
<1>2. proc \in ProcType /\ proc.verb = None /\ proc.pc = "idle"
  BY <1>1 DEF Idle, ProcType
<1>3. NoUnits \in [UnitSet -> Contents \union {None}]
  BY DEF NoUnits
<1>4. releases \in Seq(Builds)
  BY <1>1
<1>5. ended \in [verb : {None, "install", "update", "remove"}, ok : BOOLEAN, seen : Nat]
  BY <1>1 DEF Nothing
<1>6. TypeOK
  BY <1>1, <1>2, <1>3, <1>4, <1>5 DEF TypeOK, None
<1> QED
  BY <1>1, <1>2, <1>6 DEF IInv, CommandOK, BinaryIsABuild, GoalIsPublished, BinaryIsFirst,
     DisarmedFirst, ArmedCanRun, Writing, None

\* Every step keeps the invariant.
LEMMA StepIInv == IInv /\ [Next]_vars => IInv'
  BY StepTypeOK, StepProc, StepPublished, StepFirst, StepArmed DEF IInv

\* The machine keeps its type, wherever a command is cut off.
THEOREM TypeCorrect == Spec => []TypeOK
<1>1. IInv => TypeOK
  BY DEF IInv
<1> QED
  BY <1>1, InitIInv, StepIInv, PTL DEF Spec

\* For any units in any order, an armed machine has a published binary and its units,
\* whichever command was cut off and wherever.
THEOREM Armable == Spec => []ArmedCanRun
<1>1. IInv => ArmedCanRun
  BY DEF IInv
<1> QED
  BY <1>1, InitIInv, StepIInv, PTL DEF Spec

-----------------------------------------------------------------------------
(***************************************************************************)
(* What a command that ran to its end leaves. A second invariant, on top   *)
(* of the first, follows each list line by line: what an update found when *)
(* it asked is still there at the end, counted from the oldest release;    *)
(* what a removal has passed is gone and stays gone; and the last line of  *)
(* each list is the one that has systemd read the files.                   *)
(***************************************************************************)
\* b was the newest of its channel when there were so many releases.
NewestOf(rels, seen, b, ch) ==
  /\ seen <= Len(rels)
  /\ \E i \in 1..seen : /\ rels[Len(rels) - seen + i] = b /\ Kind[b] = ch
                        /\ \A j \in 1..(i - 1) : Kind[rels[Len(rels) - seen + j]] # ch

\* The releases there were when there were so many.
Known(rels, seen) == SubSeq(rels, Len(rels) - seen + 1, Len(rels))

\* What a command found was the newest of its channel.
Found ==
  proc.pc \in {"fetch", "write"} /\ proc.verb # "remove"
    => NewestOf(releases, proc.seen, proc.goal, proc.channel)

\* Past its first line an install or an update has brought what it found.
Brought == Writing({"install", "update"}) /\ proc.step # 1 => binary = proc.goal

\* An update is of the channel recorded, and compares with the build installed.
OnItsChannel ==
  proc.verb = "update" => /\ proc.channel = InstalledChannel
                          /\ proc.pc = "latest" => proc.running = binary

\* An update that ended well left the newest build.
Updated ==
  Ended("update") => NewestOf(releases, ended.seen, binary, InstalledChannel)

\* A command at its list is at a line of it, or past the last.
LinesInOrder == proc.pc = "write" => proc.step \in 1..(Len(List) + 1)

\* An install past its last line has armed.
ArmedLast ==
  Writing({"install"}) /\ proc.step = Len(List) + 1 => enabled /\ loaded = units

\* What a line of a removal leaves behind it.
Gone(line) ==
  /\ line = "disable" => ~enabled
  /\ line = "binary" => binary = None
  /\ line = "channel" => channel = None
  /\ line \in UnitSet => units[line] = None

\* Every line a removal has passed is still done.
Cleared ==
  Writing({"remove"}) => \A k \in 1..(proc.step - 1) : Gone(RemoveList[k])

\* A removal past its last line has had systemd read the files.
ReloadedLast == Writing({"remove"}) /\ proc.step = Len(List) + 1 => loaded = units

-----------------------------------------------------------------------------
(***************************************************************************)
(* The ends of the lists.                                                  *)
(***************************************************************************)

\* A sequence put after another ends as it does.
LEMMA EndsAs ==
  ASSUME NEW S, NEW s \in Seq(S), NEW t \in Seq(S), Len(t) \in Nat \ {0}
  PROVE  /\ s \o t \in Seq(S) /\ Len(s \o t) \in Nat \ {0}
         /\ (s \o t)[Len(s \o t)] = t[Len(t)]
<1>1. /\ s \o t \in Seq(S) /\ Len(s \o t) = Len(s) + Len(t)
      /\ \A i \in 1 .. Len(s) + Len(t) : (s \o t)[i] = IF i <= Len(s) THEN s[i] ELSE t[i - Len(s)]
  BY ConcatProperties
<1> DEFINE n == Len(s)
           m == Len(t)
<1>2. n \in Nat /\ m \in Nat \ {0}
  BY LenProperties
<1>3. /\ s \o t \in Seq(S) /\ Len(s \o t) = n + m
      /\ \A i \in 1 .. n + m : (s \o t)[i] = IF i <= n THEN s[i] ELSE t[i - n]
  BY <1>1
<1> HIDE DEF n, m
<1>4. n + m \in Nat \ {0} /\ n + m \in 1 .. n + m /\ ~(n + m <= n) /\ (n + m) - n = m
  BY <1>2
<1>5. (s \o t)[n + m] = t[m]
  BY <1>3, <1>4
<1> QED
  BY <1>3, <1>4, <1>5 DEF n, m

\* The lines after the units of an install, an update and a removal.
LEMMA Tails ==
  /\ <<"channel", "reload">> \in Seq(Lines) /\ Len(<<"channel", "reload">>) \in Nat \ {0}
  /\ <<"enable">> \in Seq(Lines) /\ Len(<<"enable">>) \in Nat \ {0}
  /\ <<"enable">>[Len(<<"enable">>)] = "enable"
  /\ <<"binary", "channel", "reload">> \in Seq(Lines)
  /\ Len(<<"binary", "channel", "reload">>) \in Nat \ {0}
  /\ <<"binary", "channel", "reload">>[Len(<<"binary", "channel", "reload">>)] = "reload"
  /\ {"binary", "channel"} \subseteq ToSet(<<"binary", "channel", "reload">>)
BY DEF Lines, ToSet

\* An install and an update have a line, and what arms is the last of an install.
LEMMA InstallEnds ==
  ASSUME NEW enable \in BOOLEAN
  PROVE  /\ InstallList(enable) \in Seq(Lines)
         /\ Len(InstallList(enable)) \in Nat \ {0}
         /\ DOMAIN InstallList(enable) = 1..Len(InstallList(enable))
         /\ enable => InstallList(enable)[Len(InstallList(enable))] = "enable"
<1> DEFINE bin == <<"binary">>
           end == <<"channel", "reload">>
           arm == <<"enable">>
           s == (bin \o UnitNames) \o end
<1>1. /\ bin \in Seq(Lines) /\ end \in Seq(Lines) /\ Len(end) \in Nat \ {0}
      /\ arm \in Seq(Lines) /\ Len(arm) \in Nat \ {0} /\ arm[Len(arm)] = "enable"
  BY Tails DEF Lines
<1>2. /\ InstallList(TRUE) = s \o arm /\ InstallList(FALSE) = s \o <<>>
  BY DEF InstallList
<1> HIDE DEF bin, end, arm
<1>3. bin \o UnitNames \in Seq(Lines)
  BY <1>1, UnitLines, ConcatProperties
<1>4. s \in Seq(Lines) /\ Len(s) \in Nat \ {0}
  BY <1>1, <1>3, EndsAs
<1> HIDE DEF s
<1>5. s \o <<>> = s
  BY <1>4, ConcatEmptySeq
<1>6. /\ s \o arm \in Seq(Lines) /\ Len(s \o arm) \in Nat \ {0}
      /\ (s \o arm)[Len(s \o arm)] = arm[Len(arm)]
  BY <1>1, <1>4, EndsAs
<1>7. \A l \in Seq(Lines) : DOMAIN l = 1..Len(l)
  BY LenProperties
<1>8. CASE enable
  BY <1>1, <1>2, <1>6, <1>7, <1>8
<1>9. CASE ~enable
  BY <1>2, <1>4, <1>5, <1>7, <1>9
<1> QED
  BY <1>8, <1>9

\* A removal has a line for everything there is to remove, and the reload is its last.
LEMMA RemoveEnds ==
  /\ RemoveList \in Seq(Lines) /\ Len(RemoveList) \in Nat \ {0}
  /\ DOMAIN RemoveList = 1..Len(RemoveList)
  /\ RemoveList[Len(RemoveList)] = "reload"
  /\ {"disable", "binary", "channel"} \union UnitSet \subseteq ToSet(RemoveList)
<1> DEFINE dis == <<"disable">>
           end == <<"binary", "channel", "reload">>
           s == dis \o UnitNames
<1>1. /\ end \in Seq(Lines) /\ Len(end) \in Nat \ {0} /\ end[Len(end)] = "reload"
      /\ {"binary", "channel"} \subseteq ToSet(end)
  BY Tails
<1>2. dis \in Seq(Lines) /\ "disable" \in ToSet(dis)
  BY DEF Lines, ToSet
<1>3. RemoveList = s \o end
  BY DEF RemoveList
<1> HIDE DEF dis, end
<1>4. s \in Seq(Lines) /\ ToSet(s) = ToSet(dis) \union ToSet(UnitNames)
  BY <1>2, UnitLines, ConcatElements, ConcatProperties
<1>5. ToSet(UnitNames) = UnitSet
  BY DEF ToSet, UnitSet
<1> HIDE DEF s
<1>6. ToSet(s \o end) = ToSet(s) \union ToSet(end)
  BY <1>1, <1>4, ConcatElements
<1>7. /\ s \o end \in Seq(Lines) /\ Len(s \o end) \in Nat \ {0}
      /\ (s \o end)[Len(s \o end)] = end[Len(end)]
  BY <1>1, <1>4, EndsAs
<1>8. DOMAIN (s \o end) = 1..Len(s \o end)
  BY <1>7, LenProperties
<1> QED
  BY <1>1, <1>2, <1>3, <1>4, <1>5, <1>6, <1>7, <1>8

-----------------------------------------------------------------------------
(***************************************************************************)
(* The newest of so many releases.                                         *)
(***************************************************************************)
\* What is looked up is the newest of all there are.
LEMMA NewestAtOnce ==
  ASSUME releases \in Seq(Builds), NEW ch, Offered(ch)
  PROVE  NewestOf(releases, Len(releases), releases[Latest(ch)], ch)
<1> DEFINE n == Len(releases)
           i == Latest(ch)
<1>1. /\ n \in Nat /\ i \in 1..n /\ Kind[releases[i]] = ch
      /\ \A j \in 1..(i - 1) : Kind[releases[j]] # ch
  BY LatestIsPublished, LenProperties
<1> HIDE DEF n, i
<1>2. \A k \in 1..n : n - n + k = k
  BY <1>1
<1>3. releases[n - n + i] = releases[i]
  BY <1>1, <1>2
<1>4. \A j \in 1..(i - 1) : Kind[releases[n - n + j]] # ch
  <2>1. \A j \in 1..(i - 1) : j \in 1..n
    BY <1>1
  <2> QED
    BY <1>1, <1>2, <2>1
<1>5. n <= n
  BY <1>1
<1> QED
  BY <1>1, <1>3, <1>4, <1>5 DEF NewestOf, n, i

\* A release that is published later changes nothing of it.
LEMMA NewestStays ==
  ASSUME NEW rels \in Seq(Builds), NEW b \in Builds, NEW seen \in Nat, NEW x, NEW ch,
         NewestOf(rels, seen, x, ch)
  PROVE  NewestOf(<<b>> \o rels, seen, x, ch)
<1> DEFINE new == <<b>>
           all == new \o rels
           n == Len(rels)
<1>1. new \in Seq(Builds) /\ Len(new) = 1
  OBVIOUS
<1> HIDE DEF new
<1>2. /\ Len(all) = Len(new) + Len(rels)
      /\ \A i \in 1 .. Len(new) + Len(rels) :
           all[i] = IF i <= Len(new) THEN new[i] ELSE rels[i - Len(new)]
  BY <1>1, ConcatProperties
<1> HIDE DEF all
<1>3. n \in Nat /\ Len(all) = 1 + n
      /\ \A i \in 1 .. 1 + n : all[i] = IF i <= 1 THEN new[i] ELSE rels[i - 1]
  BY <1>1, <1>2, LenProperties
<1>4. PICK i \in 1..seen : /\ rels[n - seen + i] = x /\ Kind[x] = ch
                           /\ \A j \in 1..(i - 1) : Kind[rels[n - seen + j]] # ch
  BY DEF NewestOf
<1>5. seen <= n
  BY DEF NewestOf
<1> HIDE DEF n
<1>6. ASSUME NEW k \in 1..seen
      PROVE  all[(1 + n) - seen + k] = rels[n - seen + k]
  <2>1. /\ (1 + n) - seen + k \in 1 .. 1 + n /\ ~((1 + n) - seen + k <= 1)
        /\ ((1 + n) - seen + k) - 1 = n - seen + k
    BY <1>3, <1>5
  <2> QED
    BY <1>3, <2>1
<1>7. \A j \in 1..(i - 1) : j \in 1..seen
  BY <1>4
<1>8. seen <= 1 + n
  BY <1>3, <1>5
<1>9. /\ all[(1 + n) - seen + i] = x
      /\ \A j \in 1..(i - 1) : Kind[all[(1 + n) - seen + j]] # ch
  BY <1>4, <1>6, <1>7
<1>10. NewestOf(all, seen, x, ch)
  BY <1>3, <1>4, <1>8, <1>9 DEF NewestOf
<1> QED
  BY <1>10 DEF all, new

\* It is the first of its channel among those there were.
LEMMA NewestOfThoseKnown ==
  ASSUME NEW rels \in Seq(Builds), NEW seen \in Nat, NEW x, NEW ch,
         NewestOf(rels, seen, x, ch)
  PROVE  \E i \in DOMAIN Known(rels, seen) :
           /\ Known(rels, seen)[i] = x
           /\ \A j \in 1..(i - 1) : Kind[Known(rels, seen)[j]] # ch
<1> DEFINE n == Len(rels)
           m == n - seen + 1
           known == SubSeq(rels, m, n)
<1>1. n \in Nat /\ \A k \in 1..n : rels[k] \in Builds
  BY LenProperties, ElementOfSeq
<1>2. PICK i \in 1..seen : /\ rels[n - seen + i] = x
                           /\ \A j \in 1..(i - 1) : Kind[rels[n - seen + j]] # ch
  BY DEF NewestOf
<1>3. seen <= n
  BY DEF NewestOf
<1> HIDE DEF n
<1>4. m \in Int /\ n \in Int /\ m <= n /\ n - m + 1 = seen /\ \A k \in m..n : k \in 1..n
  BY <1>1, <1>2, <1>3
<1>5. \A k \in 1..seen : m + k - 1 = n - seen + k
  BY <1>1, <1>3
<1> HIDE DEF m
<1>6. /\ known \in Seq(Builds) /\ Len(known) = IF m <= n THEN n - m + 1 ELSE 0
      /\ \A k \in 1 .. n - m + 1 : known[k] = rels[m + k - 1]
  <2>1. \A k \in m..n : rels[k] \in Builds
    BY <1>1, <1>4
  <2> QED
    BY <1>4, <2>1, SubSeqProperties
<1> HIDE DEF known
<1>7. Len(known) = seen /\ DOMAIN known = 1..Len(known)
  BY <1>4, <1>6, LenProperties
<1>8. \A k \in 1..seen : known[k] = rels[n - seen + k]
  BY <1>4, <1>5, <1>6
<1>9. \A j \in 1..(i - 1) : j \in 1..seen
  BY <1>2
<1>10. i \in DOMAIN known /\ known[i] = x /\ \A j \in 1..(i - 1) : Kind[known[j]] # ch
  BY <1>2, <1>7, <1>8, <1>9
<1> QED
  BY <1>10 DEF Known, known, m, n

-----------------------------------------------------------------------------
(***************************************************************************)
(* One lemma for each kind of step.                                        *)
(***************************************************************************)
AtEnd ==
  /\ Found /\ Brought /\ OnItsChannel /\ Updated
  /\ LinesInOrder /\ ArmedLast /\ Cleared /\ ReloadedLast
  /\ InstallIsLoaded /\ RemoveLeavesNothing

\* The types the steps need.
LEMMA CommandTypes ==
  ASSUME IInv
  PROVE  /\ proc \in ProcType /\ proc.step \in Nat /\ proc.seen \in Nat
         /\ releases \in Seq(Builds) /\ Len(releases) \in Nat
         /\ proc.verb \in {"install", "update"} => proc.channel \in Channels
         /\ proc.verb \in {None, "install", "update", "remove"}
         /\ units \in [UnitSet -> Contents \union {None}]
         /\ ended.seen \in Nat
  BY LenProperties DEF IInv, TypeOK, ProcType

\* The list a command goes through has lines.
LEMMA ListLines ==
  /\ Len(List) \in Nat \ {0} /\ DOMAIN List = 1..Len(List)
  /\ Removing => List = RemoveList
  /\ proc.verb = "install" => List[Len(List)] = "enable"
<1>1. CASE Removing
  BY <1>1, RemoveEnds DEF List, Removing
<1>2. CASE ~Removing
  <2> DEFINE e == proc.verb = "install"
  <2>1. e \in BOOLEAN /\ List = InstallList(e)
    BY <1>2 DEF List
  <2> HIDE DEF e
  <2>2. /\ Len(List) \in Nat \ {0} /\ DOMAIN List = 1..Len(List)
        /\ e => List[Len(List)] = "enable"
    BY <2>1, InstallEnds
  <2> QED
    BY <1>2, <2>2 DEF e
<1> QED
  BY <1>1, <1>2

\* A command that ends, with no success to answer for, leaves nothing to show.
LEMMA StopAtEnd ==
  ASSUME proc' = Idle, ended' = Nothing \/ ended'.ok = FALSE
  PROVE  AtEnd'
<1>1. Idle.pc = "idle" /\ Idle.verb = None /\ Nothing.ok = FALSE
  BY DEF Idle, Nothing
<1>2. proc'.pc = "idle" /\ proc'.verb = None /\ ended'.ok = FALSE
  BY <1>1
<1>3. Found' /\ Brought' /\ LinesInOrder' /\ ArmedLast' /\ Cleared' /\ ReloadedLast'
  BY <1>2 DEF Found, Brought, LinesInOrder, ArmedLast, Cleared, ReloadedLast, Writing
<1>4. OnItsChannel'
  BY <1>2 DEF OnItsChannel, None
<1>5. Updated' /\ InstallIsLoaded' /\ RemoveLeavesNothing'
  BY <1>2 DEF Updated, InstallIsLoaded, RemoveLeavesNothing, Ended
<1> QED
  BY <1>3, <1>4, <1>5 DEF AtEnd

\* While a command is at work nothing has ended.
LEMMA BusyAtEnd ==
  ASSUME proc'.pc # "idle"
  PROVE  Updated' /\ InstallIsLoaded' /\ RemoveLeavesNothing'
  BY DEF Updated, InstallIsLoaded, RemoveLeavesNothing, Ended, Free

\* Starting.
LEMMA StartAtEnd ==
  ASSUME IInv, StartInstall \/ StartUpdate \/ StartRemove
  PROVE  AtEnd'
<1>0. Idle.seen = 0
  BY DEF Idle
<1>1. CASE StartInstall \/ StartUpdate
  <2>1. proc'.pc = "latest" /\ proc'.verb # "remove"
    BY <1>1 DEF StartInstall, StartUpdate, Idle
  <2>2. proc'.verb = "update" => StartUpdate
    BY <1>1 DEF StartInstall, Idle
  <2>3. Found' /\ Brought' /\ LinesInOrder' /\ ArmedLast' /\ Cleared' /\ ReloadedLast'
    BY <2>1 DEF Found, Brought, LinesInOrder, ArmedLast, Cleared, ReloadedLast, Writing
  <2>4. ASSUME StartUpdate PROVE OnItsChannel'
    <3>1. proc'.channel = InstalledChannel /\ proc'.running = binary
      BY <2>4 DEF StartUpdate, Idle
    <3>2. UNCHANGED <<binary, channel>>
      BY <2>4 DEF StartUpdate, files
    <3> QED
      BY <3>1, <3>2 DEF OnItsChannel, InstalledChannel
  <2>5. OnItsChannel'
    BY <2>2, <2>4 DEF OnItsChannel
  <2> QED
    BY <2>1, <2>3, <2>5, BusyAtEnd DEF AtEnd
<1>2. CASE StartRemove
  <2>1. proc'.pc = "write" /\ proc'.verb = "remove" /\ proc'.step = 1
    BY <1>2 DEF StartRemove, Idle
  <2>2. List' = RemoveList
    BY <2>1 DEF List, Removing
  <2>3. Len(RemoveList) \in Nat \ {0}
    BY RemoveEnds
  <2>4. 1 \in 1..(Len(RemoveList) + 1) /\ 1 # Len(RemoveList) + 1
    BY <2>3
  <2>5. LinesInOrder' /\ ReloadedLast'
    BY <2>1, <2>2, <2>4 DEF LinesInOrder, ReloadedLast
  <2>6. Found' /\ Brought' /\ OnItsChannel' /\ ArmedLast'
    BY <2>1 DEF Found, Brought, OnItsChannel, ArmedLast, Writing
  <2>7. Cleared'
    <3>1. \A k \in 1..(1 - 1) : FALSE
      OBVIOUS
    <3> QED
      BY <2>1, <3>1 DEF Cleared
  <2> QED
    BY <2>1, <2>5, <2>6, <2>7, BusyAtEnd DEF AtEnd
<1> QED
  BY <1>1, <1>2

\* Looking up: what is found is the newest, and an update whose build is that one ends.
LEMMA LookUpAtEnd ==
  ASSUME IInv, AtEnd, LookUp
  PROVE  AtEnd'
<1> DEFINE newest == releases[Latest(proc.channel)]
<1>1. proc.pc = "latest" /\ Offered(proc.channel) /\ UNCHANGED <<releases, binary, channel>>
  BY DEF LookUp, files
<1>2. NewestOf(releases, Len(releases), newest, proc.channel)
  BY <1>1, CommandTypes, NewestAtOnce
<1> HIDE DEF newest
<1>3. proc.verb # "remove"
  BY <1>1 DEF IInv, CommandOK
<1>4. CASE proc.verb = "update" /\ newest = proc.running
  <2>1. proc' = Idle /\ ended' = [verb |-> "update", ok |-> TRUE, seen |-> Len(releases)]
    BY <1>4 DEF LookUp, newest
  <2>2. ended'.verb = "update" /\ ended'.seen = Len(releases)
    BY <2>1
  <2>3. Idle.pc = "idle" /\ Idle.verb = None
    BY DEF Idle
  <2>4. proc'.pc = "idle" /\ proc'.verb = None
    BY <2>1, <2>3
  <2>5. Found' /\ Brought' /\ LinesInOrder' /\ ArmedLast' /\ Cleared' /\ ReloadedLast'
    BY <2>4 DEF Found, Brought, LinesInOrder, ArmedLast, Cleared, ReloadedLast, Writing
  <2>6. OnItsChannel'
    BY <2>4 DEF OnItsChannel, None
  <2>7. InstallIsLoaded' /\ RemoveLeavesNothing'
    BY <2>2 DEF InstallIsLoaded, RemoveLeavesNothing, Ended
  <2>8. proc.channel = InstalledChannel /\ proc.running = binary
    BY <1>1, <1>4 DEF AtEnd, OnItsChannel
  <2>9. InstalledChannel' = InstalledChannel
    BY <1>1 DEF InstalledChannel
  <2>10. NewestOf(releases', ended'.seen, binary', InstalledChannel')
    BY <1>1, <1>2, <1>4, <2>2, <2>8, <2>9
  <2>11. Updated'
    BY <2>10 DEF Updated
  <2> QED
    BY <2>5, <2>6, <2>7, <2>11 DEF AtEnd
<1>5. CASE ~(proc.verb = "update" /\ newest = proc.running)
  <2>1. proc' = [proc EXCEPT !.pc = "fetch", !.goal = newest, !.seen = Len(releases)]
    BY <1>5 DEF LookUp, newest
  <2>2. /\ proc'.pc = "fetch" /\ proc'.goal = newest /\ proc'.seen = Len(releases)
        /\ proc'.verb = proc.verb /\ proc'.channel = proc.channel
    BY <2>1, CommandTypes DEF ProcType
  <2>3. NewestOf(releases', proc'.seen, proc'.goal, proc'.channel)
    BY <1>1, <1>2, <2>2
  <2>4. Found'
    BY <2>3 DEF Found
  <2>5. Brought' /\ LinesInOrder' /\ ArmedLast' /\ Cleared' /\ ReloadedLast'
    BY <2>2 DEF Brought, LinesInOrder, ArmedLast, Cleared, ReloadedLast, Writing
  <2>6. OnItsChannel'
    BY <1>1, <2>2 DEF AtEnd, OnItsChannel, InstalledChannel
  <2> QED
    BY <2>2, <2>4, <2>5, <2>6, BusyAtEnd DEF AtEnd
<1> QED
  BY <1>4, <1>5

\* Fetching puts the command at its first line.
LEMMA FetchAtEnd ==
  ASSUME IInv, AtEnd, Fetch
  PROVE  AtEnd'
<1>1. /\ proc.pc = "fetch" /\ proc' = [proc EXCEPT !.pc = "write", !.goal = proc.goal, !.step = 1]
      /\ UNCHANGED <<releases, binary, channel>>
  BY DEF Fetch, Verified, files
<1>2. /\ proc'.pc = "write" /\ proc'.step = 1 /\ proc'.goal = proc.goal /\ proc'.seen = proc.seen
      /\ proc'.verb = proc.verb /\ proc'.channel = proc.channel
  BY <1>1, CommandTypes DEF ProcType
<1>3. proc.verb # "remove"
  BY <1>1 DEF IInv, CommandOK
<1>4. Found'
  BY <1>1, <1>2, <1>3 DEF AtEnd, Found
<1>5. Brought' /\ Cleared' /\ ReloadedLast'
  BY <1>2, <1>3 DEF Brought, Cleared, ReloadedLast, Writing
<1>6. OnItsChannel'
  BY <1>1, <1>2 DEF AtEnd, OnItsChannel, InstalledChannel
<1>7. List' = List
  BY <1>2 DEF List, Removing
<1>8. 1 \in 1..(Len(List) + 1) /\ 1 # Len(List) + 1
  BY ListLines
<1>9. LinesInOrder' /\ ArmedLast'
  BY <1>2, <1>7, <1>8 DEF LinesInOrder, ArmedLast
<1> QED
  BY <1>2, <1>4, <1>5, <1>6, <1>9, BusyAtEnd DEF AtEnd

\* The line a command is at decides which step it takes.
Line == WriteBinary \/ WriteChannel \/ WriteUnit \/ Reload \/ Enable \/ Disable

LEMMA WhichLine ==
  ASSUME Line
  PROVE  /\ proc.pc = "write" /\ proc.step \in DOMAIN List
         /\ List[proc.step] = "binary" => WriteBinary
         /\ List[proc.step] = "channel" => WriteChannel
         /\ List[proc.step] = "reload" => Reload
         /\ List[proc.step] = "enable" => Enable
         /\ List[proc.step] = "disable" => Disable
         /\ List[proc.step] \in UnitSet => WriteUnit
<1>1. UnitSet \intersect {"binary", "channel", "reload", "enable", "disable"} = {}
  BY UnitsAssumption
<1>2. WriteUnit => \E u \in UnitSet : Doing(u)
  BY DEF WriteUnit
<1>3. /\ (WriteBinary => Doing("binary"))
      /\ (WriteChannel => Doing("channel"))
      /\ (Reload => Doing("reload"))
      /\ (Enable => Doing("enable"))
      /\ (Disable => Doing("disable"))
  BY DEF WriteBinary, WriteChannel, Reload, Enable, Disable
<1>4. \E what : Doing(what)
  BY <1>2, <1>3 DEF Line
<1>5. \A what : Doing(what) => proc.pc = "write" /\ proc.step \in DOMAIN List
                                /\ List[proc.step] = what
  BY DEF Doing
<1> DEFINE line == List[proc.step]
<1> HIDE DEF line
<1>6. proc.pc = "write" /\ proc.step \in DOMAIN List
  BY <1>4, <1>5
<1>7. /\ (WriteBinary => line = "binary")
      /\ (WriteChannel => line = "channel")
      /\ (Reload => line = "reload")
      /\ (Enable => line = "enable")
      /\ (Disable => line = "disable")
      /\ (WriteUnit => line \in UnitSet)
  BY <1>2, <1>3, <1>5 DEF line
<1>8. /\ (line = "binary" => WriteBinary)
      /\ (line = "channel" => WriteChannel)
      /\ (line = "reload" => Reload)
      /\ (line = "enable" => Enable)
      /\ (line = "disable" => Disable)
      /\ (line \in UnitSet => WriteUnit)
  BY <1>1, <1>7 DEF Line
<1> QED
  BY <1>6, <1>8 DEF line

\* A line done leaves everything of the command but where it is.
LEMMA LineGoesOn ==
  ASSUME IInv, Line
  PROVE  /\ proc'.pc = "write" /\ proc'.step = proc.step + 1
         /\ proc'.verb = proc.verb /\ proc'.channel = proc.channel
         /\ proc'.goal = proc.goal /\ proc'.seen = proc.seen
         /\ UNCHANGED <<releases, ended>> /\ List' = List
<1>0. proc \in ProcType /\ proc.pc = "write"
  BY CommandTypes, WhichLine
<1>1. UNCHANGED <<releases, ended>>
  BY DEF Line, WriteBinary, WriteChannel, WriteUnit, Reload, Enable, Disable
<1>2. \E changed : Go(changed)
  BY DEF Line, WriteBinary, WriteChannel, WriteUnit, Reload, Enable, Disable
<1>3. /\ proc'.pc = proc.pc /\ proc'.step = proc.step + 1 /\ proc'.verb = proc.verb
      /\ proc'.channel = proc.channel /\ proc'.goal = proc.goal /\ proc'.seen = proc.seen
  BY <1>0, <1>2 DEF Go, ProcType
<1>4. List' = List
  BY <1>3 DEF List, Removing
<1> QED
  BY <1>0, <1>1, <1>3, <1>4

\* What an install or an update brings, and for which channel.
LEMMA LineBrings ==
  ASSUME IInv, AtEnd, Line
  PROVE  Found' /\ Brought' /\ OnItsChannel'
<1>1. Found'
  BY LineGoesOn, WhichLine DEF AtEnd, Found
<1>2. Brought'
  <2> SUFFICES ASSUME proc.verb \in {"install", "update"} PROVE binary' = proc.goal
    BY LineGoesOn DEF Brought, Writing
  <2>1. CASE WriteBinary
    BY <2>1 DEF WriteBinary, Removing
  <2>2. CASE ~WriteBinary
    <3>1. binary' = binary
      BY <2>2 DEF Line, WriteChannel, WriteUnit, Reload, Enable, Disable, files
    <3>2. proc.step # 1
      <4> SUFFICES ASSUME proc.step = 1 PROVE FALSE
        OBVIOUS
      <4>1. Doing(List[1]) /\ proc.pc = "write"
        BY WhichLine DEF Doing
      <4>2. List[1] = "binary"
        BY <4>1, FirstLine DEF Removing
      <4> QED
        BY <2>2, <4>2, WhichLine
    <3> QED
      BY <3>1, <3>2, WhichLine DEF AtEnd, Brought, Writing
  <2> QED
    BY <2>1, <2>2
<1>3. OnItsChannel'
  <2> SUFFICES ASSUME proc.verb = "update" PROVE proc.channel = InstalledChannel'
    BY LineGoesOn DEF OnItsChannel
  <2>1. proc.channel = InstalledChannel /\ proc.channel \in Channels
    BY CommandTypes DEF AtEnd, OnItsChannel
  <2>2. channel' = channel \/ channel' = proc.channel
    BY DEF Line, WriteBinary, WriteChannel, WriteUnit, Reload, Enable, Disable, files, Removing
  <2> QED
    BY <2>1, <2>2 DEF InstalledChannel, Channels
<1> QED
  BY <1>1, <1>2, <1>3

\* The lists are gone through in order, and the last line does its work.
LEMMA LineInOrder ==
  ASSUME IInv, AtEnd, Line
  PROVE  LinesInOrder' /\ ArmedLast' /\ ReloadedLast'
<1> DEFINE n == Len(List)
<1>1. n \in Nat \ {0} /\ DOMAIN List = 1..n /\ proc.step \in 1..n
  BY ListLines, WhichLine
<1>2. Len(List') = n /\ proc'.step = proc.step + 1 /\ proc'.verb = proc.verb
  BY LineGoesOn
<1> HIDE DEF n
<1>3. proc.step + 1 \in 1..(n + 1) /\ (proc.step + 1 = n + 1 => proc.step = n)
  BY <1>1
<1>4. LinesInOrder'
  <2>1. proc'.step \in 1..(Len(List') + 1)
    BY <1>2, <1>3
  <2> QED
    BY <2>1 DEF LinesInOrder
<1>5. ArmedLast'
  <2> SUFFICES ASSUME proc.verb = "install", proc.step = n PROVE enabled' /\ loaded' = units'
    BY <1>2, <1>3, LineGoesOn DEF ArmedLast, Writing
  <2>1. List[proc.step] = "enable"
    BY ListLines DEF n
  <2>2. Enable
    BY <2>1, WhichLine
  <2> QED
    BY <2>2 DEF Enable, files
<1>6. ReloadedLast'
  <2> SUFFICES ASSUME proc.verb = "remove", proc.step = n PROVE loaded' = units'
    BY <1>2, <1>3, LineGoesOn DEF ReloadedLast, Writing
  <2>1. List = RemoveList /\ Removing
    BY ListLines DEF Removing
  <2>2. List[proc.step] = "reload"
    BY <2>1, RemoveEnds DEF n
  <2>3. Reload
    BY <2>2, WhichLine
  <2> QED
    BY <2>1, <2>3 DEF Reload, files
<1> QED
  BY <1>4, <1>5, <1>6

\* What a removal has removed it does not bring back.
LEMMA LineClears ==
  ASSUME IInv, AtEnd, Line
  PROVE  Cleared'
<1> SUFFICES ASSUME proc.verb = "remove", NEW k \in 1..(proc'.step - 1)
             PROVE  Gone(RemoveList[k])'
  BY LineGoesOn DEF Cleared, Writing
<1>1. Removing /\ List = RemoveList /\ proc.step \in Nat /\ proc'.step = proc.step + 1
  BY ListLines, LineGoesOn, CommandTypes DEF Removing
<1>2. proc.step \in DOMAIN RemoveList /\ proc.pc = "write"
  BY <1>1, WhichLine
<1>3. ~Enable
  BY <1>1, RemoveBegins DEF Enable, Doing
<1>4. units \in [UnitSet -> Contents \union {None}]
      /\ UnitSet \intersect {"binary", "channel", "reload", "enable", "disable"} = {}
  BY CommandTypes, UnitsAssumption
<1>5. ASSUME WriteUnit
      PROVE  \E u \in UnitSet : RemoveList[proc.step] = u /\ units' = [units EXCEPT ![u] = None]
  BY <1>1, <1>5 DEF WriteUnit, Doing
<1>6. CASE k = proc.step
  <2> DEFINE line == RemoveList[k]
  <2>1. line = "disable" => ~enabled'
    BY <1>1, <1>6, WhichLine DEF Disable
  <2>2. line = "binary" => binary' = None
    BY <1>1, <1>6, WhichLine DEF WriteBinary
  <2>3. line = "channel" => channel' = None
    BY <1>1, <1>6, WhichLine DEF WriteChannel
  <2>4. line \in UnitSet => units'[line] = None
    BY <1>1, <1>4, <1>5, <1>6, WhichLine
  <2> QED
    BY <2>1, <2>2, <2>3, <2>4 DEF Gone
<1>7. CASE k # proc.step
  <2>1. k \in 1..(proc.step - 1)
    BY <1>1, <1>7
  <2>2. Gone(RemoveList[k])
    BY <1>2, <2>1 DEF AtEnd, Cleared, Writing
  <2>3. enabled' = enabled \/ enabled' = FALSE
    BY <1>3 DEF Line, WriteBinary, WriteChannel, WriteUnit, Reload, Disable, systemd
  <2>4. binary' = binary \/ binary' = None
    BY <1>1 DEF Line, WriteBinary, WriteChannel, WriteUnit, Reload, Enable, Disable, files
  <2>5. channel' = channel \/ channel' = None
    BY <1>1 DEF Line, WriteBinary, WriteChannel, WriteUnit, Reload, Enable, Disable, files
  <2>6. \A u \in UnitSet : units'[u] = units[u] \/ units'[u] = None
    <3>1. CASE WriteUnit
      BY <1>4, <1>5, <3>1
    <3>2. CASE ~WriteUnit
      BY <3>2 DEF Line, WriteBinary, WriteChannel, Reload, Enable, Disable, files
    <3> QED
      BY <3>1, <3>2
  <2> QED
    BY <2>2, <2>3, <2>4, <2>5, <2>6 DEF Gone
<1> QED
  BY <1>6, <1>7

\* A line of a list, written.
LEMMA LineAtEnd ==
  ASSUME IInv, AtEnd, Line
  PROVE  AtEnd'
<1>1. proc'.pc # "idle"
  BY LineGoesOn
<1> QED
  BY <1>1, BusyAtEnd, LineBrings, LineInOrder, LineClears DEF AtEnd

\* The end of a list: the command has done what it says.
LEMMA FinishAtEnd ==
  ASSUME IInv, AtEnd, Finish
  PROVE  AtEnd'
<1> DEFINE n == Len(List)
<1>1. n \in Nat \ {0} /\ DOMAIN List = 1..n /\ proc.pc = "write" /\ proc.step \notin 1..n
  BY ListLines DEF Finish
<1>2. proc.step \in 1..(n + 1)
  BY <1>1 DEF AtEnd, LinesInOrder
<1> HIDE DEF n
<1>3. proc.step = n + 1 /\ proc.step # 1
  BY <1>1, <1>2
<1>4. /\ proc' = Idle /\ ended' = [verb |-> proc.verb, ok |-> TRUE, seen |-> proc.seen]
      /\ UNCHANGED <<releases, binary, channel, units, loaded, enabled>>
  BY DEF Finish, End, files, systemd
<1>5. ended'.verb = proc.verb /\ ended'.seen = proc.seen
  BY <1>4
<1>6. Idle.pc = "idle" /\ Idle.verb = None
  BY DEF Idle
<1>7. proc'.pc = "idle" /\ proc'.verb = None
  BY <1>4, <1>6
<1>8. Found' /\ Brought' /\ LinesInOrder' /\ ArmedLast' /\ Cleared' /\ ReloadedLast'
  BY <1>7 DEF Found, Brought, LinesInOrder, ArmedLast, Cleared, ReloadedLast, Writing
<1>9. OnItsChannel'
  BY <1>7 DEF OnItsChannel, None
<1>10. Updated'
  <2> SUFFICES ASSUME proc.verb = "update"
               PROVE  NewestOf(releases', ended'.seen, binary', InstalledChannel')
    BY <1>5 DEF Updated, Ended
  <2>1. NewestOf(releases, proc.seen, proc.goal, proc.channel)
    BY <1>1 DEF AtEnd, Found
  <2>2. binary = proc.goal /\ proc.channel = InstalledChannel
    BY <1>1, <1>3 DEF AtEnd, Brought, OnItsChannel, Writing
  <2>3. InstalledChannel' = InstalledChannel
    BY <1>4 DEF InstalledChannel
  <2> QED
    BY <1>4, <1>5, <2>1, <2>2, <2>3
<1>11. InstallIsLoaded'
  <2> SUFFICES ASSUME proc.verb = "install" PROVE enabled' /\ loaded' = units'
    BY <1>5 DEF InstallIsLoaded, Ended
  <2>1. enabled /\ loaded = units
    BY <1>1, <1>3 DEF AtEnd, ArmedLast, Writing, n
  <2> QED
    BY <1>4, <2>1
<1>12. RemoveLeavesNothing'
  <2> SUFFICES ASSUME proc.verb = "remove"
               PROVE  /\ binary = None /\ channel = None /\ units = NoUnits
                      /\ loaded = NoUnits /\ ~enabled
    BY <1>4, <1>5 DEF RemoveLeavesNothing, Ended, NoUnits
  <2>1. loaded = units
    BY <1>1, <1>3 DEF AtEnd, ReloadedLast, Writing, n
  <2>2. List = RemoveList
    BY ListLines DEF Removing
  <2>3. \A k \in 1..n : Gone(RemoveList[k])
    <3>1. proc.step - 1 = n
      BY <1>1, <1>3
    <3> QED
      BY <1>1, <3>1 DEF AtEnd, Cleared, Writing
  <2>4. \A line \in ToSet(RemoveList) : Gone(line)
    BY <1>1, <2>2, <2>3 DEF ToSet
  <2>5. Gone("disable") /\ Gone("binary") /\ Gone("channel") /\ \A u \in UnitSet : Gone(u)
    BY <2>4, RemoveEnds
  <2>6. ~enabled /\ binary = None /\ channel = None /\ \A u \in UnitSet : units[u] = None
    BY <2>5 DEF Gone
  <2>7. units = NoUnits
    BY <2>6, CommandTypes DEF NoUnits
  <2> QED
    BY <2>1, <2>6, <2>7
<1> QED
  BY <1>8, <1>9, <1>10, <1>11, <1>12 DEF AtEnd

\* A release that is published changes nothing on the machine, nor what was found.
LEMMA PublishAtEnd ==
  ASSUME IInv, AtEnd, Publish
  PROVE  AtEnd'
<1>1. UNCHANGED <<binary, channel, units, loaded, enabled, proc, ended>>
  BY DEF Publish, files, systemd
<1>2. PICK b \in Builds : releases' = <<b>> \o releases
  BY DEF Publish
<1>3. releases \in Seq(Builds) /\ proc.seen \in Nat /\ ended.seen \in Nat
  BY CommandTypes
<1>4. \A x, ch : \A seen \in Nat :
        NewestOf(releases, seen, x, ch) => NewestOf(<<b>> \o releases, seen, x, ch)
  BY <1>3, NewestStays
<1>5. Found'
  <2>1. NewestOf(releases, proc.seen, proc.goal, proc.channel)
          => NewestOf(releases', proc.seen, proc.goal, proc.channel)
    BY <1>2, <1>3, <1>4
  <2>2. NewestOf(releases', proc'.seen, proc'.goal, proc'.channel)
          <=> NewestOf(releases', proc.seen, proc.goal, proc.channel)
    BY <1>1
  <2> QED
    BY <1>1, <2>1, <2>2 DEF AtEnd, Found
<1>6. Updated'
  <2>1. NewestOf(releases, ended.seen, binary, InstalledChannel)
          => NewestOf(releases', ended.seen, binary, InstalledChannel)
    BY <1>2, <1>3, <1>4
  <2>2. InstalledChannel' = InstalledChannel
    BY <1>1 DEF InstalledChannel
  <2>3. NewestOf(releases', ended'.seen, binary', InstalledChannel')
          <=> NewestOf(releases', ended.seen, binary, InstalledChannel)
    BY <1>1, <2>2
  <2> QED
    BY <1>1, <2>1, <2>3 DEF AtEnd, Updated, Ended, Free
<1>7. Brought' /\ OnItsChannel'
  BY <1>1 DEF AtEnd, Brought, OnItsChannel, InstalledChannel, Writing
<1>8. List' = List
  BY <1>1 DEF List, Removing
<1>9. LinesInOrder' /\ ArmedLast' /\ ReloadedLast'
  BY <1>1, <1>8 DEF AtEnd, LinesInOrder, ArmedLast, ReloadedLast, Writing
<1>10. Cleared'
  BY <1>1 DEF AtEnd, Cleared, Writing, Gone
<1>11. InstallIsLoaded' /\ RemoveLeavesNothing'
  BY <1>1 DEF AtEnd, InstallIsLoaded, RemoveLeavesNothing, Ended, Free
<1> QED
  BY <1>5, <1>6, <1>7, <1>9, <1>10, <1>11 DEF AtEnd

\* Nothing at all happens.
LEMMA StutterAtEnd ==
  ASSUME AtEnd, UNCHANGED vars
  PROVE  AtEnd'
<1>1. UNCHANGED <<releases, binary, channel, units, loaded, enabled, proc, ended>>
  BY DEF vars, files, systemd
<1>2. List' = List /\ InstalledChannel' = InstalledChannel
  BY <1>1 DEF List, Removing, InstalledChannel
<1>3. NewestOf(releases', proc'.seen, proc'.goal, proc'.channel)
        <=> NewestOf(releases, proc.seen, proc.goal, proc.channel)
  BY <1>1
<1>4. NewestOf(releases', ended'.seen, binary', InstalledChannel')
        <=> NewestOf(releases, ended.seen, binary, InstalledChannel)
  BY <1>1, <1>2
<1>5. Found' /\ Updated'
  BY <1>1, <1>3, <1>4 DEF AtEnd, Found, Updated, Ended, Free
<1>6. Brought' /\ OnItsChannel'
  BY <1>1, <1>2 DEF AtEnd, Brought, OnItsChannel, Writing
<1>7. LinesInOrder' /\ ArmedLast' /\ ReloadedLast'
  BY <1>1, <1>2 DEF AtEnd, LinesInOrder, ArmedLast, ReloadedLast, Writing
<1>8. Cleared'
  BY <1>1 DEF AtEnd, Cleared, Writing, Gone
<1>9. InstallIsLoaded' /\ RemoveLeavesNothing'
  BY <1>1 DEF AtEnd, InstallIsLoaded, RemoveLeavesNothing, Ended, Free
<1> QED
  BY <1>5, <1>6, <1>7, <1>8, <1>9 DEF AtEnd

-----------------------------------------------------------------------------
(***************************************************************************)
(* The second invariant, and the theorems it gives.                        *)
(***************************************************************************)
EndInv == IInv /\ AtEnd

\* It holds at the start.
LEMMA InitEndInv == Init => EndInv
<1> SUFFICES ASSUME Init PROVE AtEnd
  BY InitIInv DEF EndInv
<1>1. Idle.pc = "idle" /\ Idle.verb = None /\ Nothing.ok = FALSE
  BY DEF Idle, Nothing
<1>2. proc.pc = "idle" /\ proc.verb = None /\ ended.ok = FALSE
  BY <1>1 DEF Init
<1>3. Found /\ Brought /\ LinesInOrder /\ ArmedLast /\ Cleared /\ ReloadedLast
  BY <1>2 DEF Found, Brought, LinesInOrder, ArmedLast, Cleared, ReloadedLast, Writing
<1>4. OnItsChannel
  BY <1>2 DEF OnItsChannel, None
<1>5. Updated /\ InstallIsLoaded /\ RemoveLeavesNothing
  BY <1>2 DEF Updated, InstallIsLoaded, RemoveLeavesNothing, Ended
<1> QED
  BY <1>3, <1>4, <1>5 DEF AtEnd

\* Every step keeps it.
LEMMA StepEndInv == EndInv /\ [Next]_vars => EndInv'
<1> SUFFICES ASSUME IInv, AtEnd, [Next]_vars PROVE AtEnd'
  BY StepIInv DEF EndInv
<1>1. CASE StartInstall \/ StartUpdate \/ StartRemove
  BY <1>1, StartAtEnd
<1>2. CASE Fails \/ Killed \/ Boot
  <2>1. proc' = Idle /\ (ended' = Nothing \/ ended'.ok = FALSE)
    BY <1>2 DEF Fails, Killed, Boot, End
  <2> QED
    BY <2>1, StopAtEnd
<1>3. CASE LookUp
  BY <1>3, LookUpAtEnd
<1>4. CASE Fetch
  BY <1>4, FetchAtEnd
<1>5. CASE WriteBinary \/ WriteChannel \/ WriteUnit \/ Reload \/ Enable \/ Disable
  BY <1>5, LineAtEnd DEF Line
<1>6. CASE Finish
  BY <1>6, FinishAtEnd
<1>7. CASE Publish
  BY <1>7, PublishAtEnd
<1>8. CASE UNCHANGED vars
  BY <1>8, StutterAtEnd
<1> QED
  BY <1>1, <1>2, <1>3, <1>4, <1>5, <1>6, <1>7, <1>8 DEF Next

\* What was the newest of so many releases is what UpdateReachesNewest asks for.
LEMMA UpdatedReachesNewest == EndInv => UpdateReachesNewest
<1> SUFFICES ASSUME IInv, AtEnd, Ended("update") PROVE UpdateReachesNewest
  BY DEF EndInv, UpdateReachesNewest
<1> DEFINE known == Known(releases, ended.seen)
<1>1. NewestOf(releases, ended.seen, binary, InstalledChannel)
  BY DEF AtEnd, Updated
<1>2. Kind[binary] = InstalledChannel
  BY <1>1 DEF NewestOf
<1>3. releases \in Seq(Builds) /\ ended.seen \in Nat
  BY CommandTypes
<1>4. \E i \in DOMAIN known : /\ known[i] = binary
                              /\ \A j \in 1..(i - 1) : Kind[known[j]] # InstalledChannel
  BY <1>1, <1>3, NewestOfThoseKnown
<1> HIDE DEF known
<1>5. /\ channel = "dev" => Kind[binary] = "dev"
      /\ channel # "dev" => Kind[binary] = "stable"
  BY <1>2 DEF InstalledChannel
<1>6. \E i \in DOMAIN known : /\ known[i] = binary
                              /\ \A j \in 1..(i - 1) : Kind[known[j]] # Kind[binary]
  BY <1>2, <1>4
<1> QED
  BY <1>5, <1>6 DEF UpdateReachesNewest, known, Known

\* For any releases, published at any time, an update that ends well leaves the newest
\* build, of those there were when it asked, of the channel recorded at install.
THEOREM Updates == Spec => []UpdateReachesNewest
  BY UpdatedReachesNewest, InitEndInv, StepEndInv, PTL DEF Spec

\* For any units in any order, an install that ends well leaves them enabled and read.
THEOREM Installs == Spec => []InstallIsLoaded
<1>1. EndInv => InstallIsLoaded
  BY DEF EndInv, AtEnd
<1> QED
  BY <1>1, InitEndInv, StepEndInv, PTL DEF Spec

\* For any units in any order, a removal that ends well leaves no file, nothing enabled
\* and nothing systemd knows of, whatever was cut off before it.
THEOREM Removes == Spec => []RemoveLeavesNothing
<1>1. EndInv => RemoveLeavesNothing
  BY DEF EndInv, AtEnd
<1> QED
  BY <1>1, InitEndInv, StepEndInv, PTL DEF Spec
=============================================================================
