----------------------------- MODULE DiskProofs -----------------------------
(***************************************************************************)
(* Proofs about the two programs that write to the disk of an edge or a    *)
(* station and may be cut short by a power cut: Updater, for any releases, *)
(* any media they are offered on and any number of failures, and Spool,    *)
(* for any records, any writers and any number of power cuts.              *)
(*                                                                         *)
(* That `current` always resolves to a whole release is not inductive: it  *)
(* says nothing of the directory a link is about to be renamed to.  IInv   *)
(* follows an update through its steps: which release it replaces, that    *)
(* the one it puts in place is another, how much of each is on disk, and   *)
(* what the temporary link holds when it takes the place of the link.      *)
(* How much of a release is there is said for plain names only: the        *)
(* artifacts of a manifest are written where its names lead.               *)
(*                                                                         *)
(* Nor does the order of a load, or the bound on what a torn line costs,   *)
(* survive a step on its own.  SpoolInv says of every place where a record *)
(* starts, loaded or torn, that it follows the order of the writes; that   *)
(* captured records are synced to the end of their line; what the file of  *)
(* a compaction holds; and that the records lost, those that will be lost  *)
(* when their sync returns, and a torn last line are paid for by a tear    *)
(* each.                                                                   *)
(***************************************************************************)
EXTENDS Updater, Spool, FiniteSetTheorems, SequenceTheorems, TLAPS

-----------------------------------------------------------------------------
(* The updater. *)

\* Between its first step and the switch, an update has a release to install that
\* is not the one it replaces, and only a rollback goes down.
AppliesAnother ==
  pc # "idle" =>
    /\ manifest # None
    /\ target # installed
    /\ target < installed => manifest.rollback
    /\ NamesArePlain => PlainNames(manifest)
    /\ NamesArePlain /\ installed # 0 => releases[installed] = "complete"

\* What is live is whole, and is the release replaced until the switch and the
\* new one after it.
LiveIsWhole ==
  /\ NamesArePlain /\ link["current"] # None => releases[link["current"]] = "complete"
  /\ pc \in {"stage", "clear", "clearing", "place", "previous", "previous_made",
             "current", "current_made"} => InstalledVersion = installed
  /\ pc \in {"probe", "restore", "restore_made"} => link["current"] = target

\* What is to become live is whole before a link names it.
NextIsWhole ==
  /\ NamesArePlain /\ pc \in {"clear", "clearing", "place"}
       => staging[target] = "complete"
  /\ NamesArePlain /\ pc \in {"previous", "previous_made", "current", "current_made"}
       => releases[target] = "complete"
  /\ pc \in {"previous", "previous_made", "restore", "restore_made"}
       => installed # 0

\* A temporary link, once made, points where the link is to point.
TmpIsMade ==
  /\ pc = "previous_made" => tmp["previous"] = installed
  /\ pc = "current_made" => tmp["current"] = target
  /\ pc = "restore_made" => tmp["current"] = installed

\* The way back is there from the step before the switch on.
PreviousIsKept ==
  pc \in {"current", "current_made", "probe", "restore", "restore_made"}
    /\ installed # 0 => link["previous"] = installed

IInv == /\ TypeOK /\ AppliesAnother /\ LiveIsWhole /\ NextIsWhole /\ TmpIsMade
        /\ PreviousIsKept

-----------------------------------------------------------------------------
(* The media. *)

LEMMA NoneIsNoVersion == None \notin Versions /\ None # 0 /\ 0 \notin Versions
<1>1. 0 \in Nat
  OBVIOUS
<1>2. None # 0
  BY <1>1, UpdaterAssumption, Zenon
<1> QED  BY <1>2, UpdaterAssumption

\* Bytes that pass for what the manifest names are what it names: verify_digest
\* compares all there is to a file.
LEMMA FitIsGenuine ==
  ASSUME source \in Sources, Fit = manifest.artifacts
  PROVE  Genuine
<1> SUFFICES ASSUME NEW a \in manifest.artifacts
             PROVE  Fetched(source, a) = [sha256 |-> a.sha256, size |-> a.size]
  BY DEF Genuine
<1> DEFINE bytes == Fetched(source, a)
<1>1. bytes # None /\ VerifyDigest(a, bytes)
  BY DEF Fit
<1>2. \E path \in DOMAIN source.files : bytes = source.files[path]
  BY <1>1 DEF Fetched, FetchedFromDirectory, FetchedOverHttp
<1>3. bytes = [sha256 |-> bytes.sha256, size |-> bytes.size]
  BY <1>2, SourcesAssumption
<1> HIDE DEF bytes
<1>4. bytes.sha256 = a.sha256 /\ bytes.size = a.size
  BY <1>1 DEF VerifyDigest
<1> QED  BY <1>3, <1>4 DEF bytes

\* Plain names lead to no release.
LEMMA PlainWritesNothing ==
  ASSUME PlainNames(manifest), NEW those \in SUBSET manifest.artifacts,
         WriteArtifacts(those)
  PROVE  \A v \in Versions : releases'[v] = releases[v]
BY UpdaterAssumption, NoneIsNoVersion DEF PlainNames, WriteArtifacts

-----------------------------------------------------------------------------
(* Type correctness. *)

LEMMA MakeLinkTypes ==
  ASSUME TypeOK, NEW l \in Links, NEW version \in Versions, NEW next \in Steps,
         MakeLink(l, version, next), pc # "stage", next # "stage", UNCHANGED source
  PROVE  /\ tmp' \in [Links -> Versions \cup {None}]
         /\ pc' \in Steps
         /\ (source' # None) = (pc' = "stage")
BY DEF TypeOK, MakeLink, Steps

LEMMA RenameLinkTypes ==
  ASSUME TypeOK, NEW l \in Links, NEW next \in Steps, RenameLink(l, next),
         pc # "stage", next # "stage", UNCHANGED source
  PROVE  /\ link' \in [Links -> Versions \cup {None}]
         /\ tmp' \in [Links -> Versions \cup {None}]
         /\ pc' \in Steps
         /\ (source' # None) = (pc' = "stage")
BY DEF TypeOK, RenameLink, Steps

LEMMA TypeStep ==
  ASSUME TypeOK, AppliesAnother, NextIsWhole, [Next]_vars
  PROVE  TypeOK'
<1> USE DEF Links
<1>1. CASE UNCHANGED vars
  BY <1>1 DEF TypeOK, vars, disk
<1>2. ASSUME NEW s \in Sources, Begin(s) PROVE TypeOK'
  BY <1>2, SourcesAssumption DEF TypeOK, Begin, InstalledVersion, Steps
<1>3. ASSUME pc # "idle" PROVE target \in Versions
  BY <1>3 DEF TypeOK, AppliesAnother, target
<1>4. CASE Stage \/ StageFails
  BY <1>4, <1>3 DEF TypeOK, Stage, StageFails, WriteArtifacts, Steps
<1>5. CASE Clear
  BY <1>5, <1>3 DEF TypeOK, Clear, Steps
<1>6. CASE Cleared
  BY <1>6, <1>3 DEF TypeOK, Cleared, Steps
<1>7. CASE Place
  BY <1>7, <1>3 DEF TypeOK, Place, Steps
<1>8. CASE RetainPrevious
  <2>1. installed \in Versions
    BY <1>8 DEF RetainPrevious, NextIsWhole, TypeOK
  <2> QED  BY <1>8, <2>1, MakeLinkTypes DEF TypeOK, RetainPrevious, Steps
<1>9. CASE RetainPreviousDone
  BY <1>9, RenameLinkTypes DEF TypeOK, RetainPreviousDone, Steps
<1>10. CASE GoLive
  BY <1>10, <1>3, MakeLinkTypes DEF TypeOK, GoLive, Steps
<1>11. CASE GoLiveDone
  BY <1>11, RenameLinkTypes DEF TypeOK, GoLiveDone, Steps
<1>12. CASE Healthy \/ Unhealthy
  BY <1>12 DEF TypeOK, Healthy, Unhealthy, Steps, disk
<1>13. CASE Restore
  <2>1. installed \in Versions
    BY <1>13 DEF Restore, NextIsWhole, TypeOK
  <2> QED  BY <1>13, <2>1, MakeLinkTypes DEF TypeOK, Restore, Steps
<1>14. CASE RestoreDone
  BY <1>14, RenameLinkTypes DEF TypeOK, RestoreDone, Steps
<1>15. CASE Fault
  BY <1>15, UpdaterAssumption DEF TypeOK, Fault, WriteArtifacts, Steps
<1> QED
  BY <1>1, <1>2, <1>4, <1>5, <1>6, <1>7, <1>8, <1>9, <1>10, <1>11, <1>12, <1>13, <1>14,
     <1>15 DEF Next, Step

-----------------------------------------------------------------------------
(* The way of an update, step by step. *)

WayInv == AppliesAnother /\ LiveIsWhole /\ NextIsWhole /\ TmpIsMade /\ PreviousIsKept

\* An update begins on what is live and whole.
LEMMA BeginKeepsWay ==
  ASSUME TypeOK, WayInv, NEW s \in Sources, Begin(s)
  PROVE  WayInv'
<1> DEFINE m == VerifyManifest(s.envelope)
<1>1. /\ m # None /\ m.version \in Versions
      /\ m.version # InstalledVersion
      /\ m.version < InstalledVersion => m.rollback
      /\ NamesArePlain => PlainNames(m)
      /\ manifest' = m /\ installed' = InstalledVersion /\ pc' = "stage"
      /\ UNCHANGED <<releases, link, tmp>>
  BY SourcesAssumption DEF Begin, Installs, NamesArePlain
<1> HIDE DEF m
<1>2. InstalledVersion' = InstalledVersion
  BY <1>1 DEF InstalledVersion
<1>3. NamesArePlain /\ InstalledVersion # 0 => releases[InstalledVersion] = "complete"
  BY DEF InstalledVersion, WayInv, LiveIsWhole
<1>4. AppliesAnother'
  BY <1>1, <1>3 DEF AppliesAnother, target
<1>5. LiveIsWhole'
  BY <1>1, <1>2 DEF WayInv, LiveIsWhole
<1> QED  BY <1>1, <1>4, <1>5 DEF WayInv, NextIsWhole, TmpIsMade, PreviousIsKept

\* What a release directory loses or gains while the new release is put in place
\* is not what is live, nor what is to be gone back to.
LEMMA PlacingKeepsWay ==
  ASSUME TypeOK, WayInv, Stage \/ StageFails \/ Clear \/ Cleared \/ Place
  PROVE  WayInv'
<1> USE DEF WayInv, Links
<1>1. /\ target \in Versions /\ target # installed
      /\ link["current"] = None \/ link["current"] = installed
      /\ target # link["current"]
      /\ UNCHANGED <<link, tmp, manifest, installed, target, InstalledVersion>>
  BY NoneIsNoVersion
     DEF AppliesAnother, LiveIsWhole, TypeOK, target, InstalledVersion, Stage,
         StageFails, Clear, Cleared, Place
<1>2. CASE Stage \/ StageFails
  <2>1. NamesArePlain => PlainNames(manifest)
    BY <1>2 DEF Stage, StageFails, AppliesAnother
  <2>2. Stage /\ NamesArePlain => staging'[target] = "complete"
    BY <1>1, <2>1, FitIsGenuine DEF Stage, TypeOK
  <2>3. NamesArePlain => \A v \in Versions : releases'[v] = releases[v]
    BY <1>2, <2>1, PlainWritesNothing DEF Stage, StageFails, Fit
  <2>4. /\ link["current"] \in Versions \cup {None}
        /\ installed \in Versions \cup {0}
    BY DEF TypeOK
  <2> QED
    BY <1>1, <1>2, <2>2, <2>3, <2>4
       DEF Stage, StageFails, AppliesAnother, LiveIsWhole, NextIsWhole, TmpIsMade,
           PreviousIsKept
<1>3. CASE Clear \/ Cleared
  BY <1>1, <1>3
     DEF Clear, Cleared, TypeOK, AppliesAnother, LiveIsWhole, NextIsWhole, TmpIsMade,
         PreviousIsKept
<1>4. CASE Place
  <2>1. NamesArePlain => releases'[target] = "complete"
    BY <1>1, <1>4 DEF Place, TypeOK, NextIsWhole
  <2>2. \A v \in Versions \ {target} : releases'[v] = releases[v]
    BY <1>4 DEF Place, TypeOK
  <2>3. /\ link["current"] # None <=> installed # 0
        /\ installed \in Versions \cup {0}
        /\ link["current"] \in Versions \cup {None}
    BY <1>4, NoneIsNoVersion DEF Place, TypeOK, LiveIsWhole, InstalledVersion
  <2>4. AppliesAnother'
    BY <1>1, <1>4, <2>2, <2>3 DEF Place, AppliesAnother
  <2>5. LiveIsWhole'
    BY <1>1, <1>4, <2>2, <2>3 DEF Place, LiveIsWhole
  <2> QED
    BY <1>1, <1>4, <2>1, <2>3, <2>4, <2>5 DEF Place, NextIsWhole, TmpIsMade, PreviousIsKept
<1> QED  BY <1>2, <1>3, <1>4

\* The links are made, renamed and restored around releases that stay as they are.
LEMMA LinkingKeepsWay ==
  ASSUME TypeOK, WayInv,
         \/ RetainPrevious \/ RetainPreviousDone \/ GoLive \/ GoLiveDone
         \/ Healthy \/ Unhealthy \/ Restore \/ RestoreDone
         \/ Fault /\ pc # "stage"
  PROVE  WayInv'
<1> USE DEF WayInv, Links
<1>1. UNCHANGED <<releases, staging, manifest, installed, target>>
  BY DEF RetainPrevious, RetainPreviousDone, GoLive, GoLiveDone, Healthy, Unhealthy,
         Restore, RestoreDone, Fault, disk, target
<1>2. AppliesAnother'
  BY <1>1
     DEF AppliesAnother, RetainPrevious, RetainPreviousDone, GoLive, GoLiveDone, Healthy,
         Unhealthy, Restore, RestoreDone, Fault
<1>3. LiveIsWhole'
  <2>1. CASE RetainPrevious \/ GoLive \/ Restore \/ Healthy \/ Unhealthy \/ Fault
    BY <1>1, <2>1
       DEF LiveIsWhole, InstalledVersion, RetainPrevious, GoLive, Restore, Healthy,
           Unhealthy, Fault, MakeLink, disk
  <2>2. CASE RetainPreviousDone
    BY <1>1, <2>2 DEF RetainPreviousDone, RenameLink, LiveIsWhole, InstalledVersion, TypeOK
  <2>3. CASE GoLiveDone
    BY <1>1, <2>3 DEF GoLiveDone, RenameLink, LiveIsWhole, TypeOK, TmpIsMade, NextIsWhole
  <2>4. CASE RestoreDone
    BY <1>1, <2>4
       DEF RestoreDone, RenameLink, LiveIsWhole, TypeOK, TmpIsMade, NextIsWhole,
           AppliesAnother
  <2> QED  BY <2>1, <2>2, <2>3, <2>4
<1>4. NextIsWhole'
  <2>1. link["current"] # None <=> InstalledVersion # 0
    BY NoneIsNoVersion DEF TypeOK, InstalledVersion
  <2> QED
    BY <1>1, <2>1
       DEF NextIsWhole, LiveIsWhole, RetainPrevious, RetainPreviousDone, GoLive,
           GoLiveDone, Healthy, Unhealthy, Restore, RestoreDone, Fault, MakeLink, RenameLink
<1>5. TmpIsMade'
  BY <1>1
     DEF TmpIsMade, TypeOK, RetainPrevious, RetainPreviousDone, GoLive, GoLiveDone, Healthy,
         Unhealthy, Restore, RestoreDone, Fault, MakeLink, RenameLink
<1>6. PreviousIsKept'
  BY <1>1
     DEF PreviousIsKept, TmpIsMade, TypeOK, RetainPrevious, RetainPreviousDone, GoLive,
         GoLiveDone, Healthy, Unhealthy, Restore, RestoreDone, Fault, MakeLink, RenameLink,
         disk
<1> QED  BY <1>2, <1>3, <1>4, <1>5, <1>6

\* An update cut short as it stages has written into no release.
LEMMA CutShortKeepsWay ==
  ASSUME TypeOK, WayInv, Fault, pc = "stage"
  PROVE  WayInv'
<1> USE DEF WayInv
<1>1. UNCHANGED <<link, manifest, installed, target, InstalledVersion>> /\ pc' = "idle"
  BY DEF Fault, target, InstalledVersion
<1>2. NamesArePlain => \A v \in Versions : releases'[v] = releases[v]
  <2>1. NamesArePlain => PlainNames(manifest)
    BY DEF AppliesAnother
  <2> QED  BY <2>1, PlainWritesNothing DEF Fault, Fit
<1>3. link["current"] \in Versions \cup {None}
  BY DEF TypeOK, Links
<1> QED
  BY <1>1, <1>2, <1>3 DEF AppliesAnother, LiveIsWhole, NextIsWhole, TmpIsMade, PreviousIsKept

-----------------------------------------------------------------------------
(* The invariant. *)

LEMMA InitIInv == Init => IInv
BY UpdaterAssumption
   DEF Init, IInv, TypeOK, Links, Steps, AppliesAnother, LiveIsWhole, NextIsWhole,
       TmpIsMade, PreviousIsKept, InstalledVersion

LEMMA IInvStep == IInv /\ [Next]_vars => IInv'
<1> SUFFICES ASSUME IInv, [Next]_vars PROVE IInv'
  OBVIOUS
<1>1. TypeOK'
  BY TypeStep DEF IInv
<1>2. WayInv'
  <2>1. TypeOK /\ WayInv
    BY DEF IInv, WayInv
  <2>2. CASE UNCHANGED vars
    BY <2>1, <2>2
       DEF vars, disk, target, WayInv, AppliesAnother, LiveIsWhole, NextIsWhole, TmpIsMade,
           PreviousIsKept, InstalledVersion
  <2> QED
    BY <2>1, <2>2, BeginKeepsWay, PlacingKeepsWay, LinkingKeepsWay, CutShortKeepsWay
       DEF Next, Step
<1> QED  BY <1>1, <1>2 DEF IInv, WayInv

\* Every variable of the box keeps its type: no step leaves a link to a version
\* there is no release of, or a source without an update.
THEOREM TypeCorrect == Spec => []TypeOK
<1>1. IInv => TypeOK
  BY DEF IInv
<1> QED  BY <1>1, InitIInv, IInvStep, PTL DEF Spec

\* Where every manifest the vendor signed names its files apart and in their
\* release: whatever fails before, during or after the switch, the release that
\* was replaced is whole and `previous` points at it as long as the new one is on
\* trial (apply.rs, activate and update).
THEOREM RollbackStaysReady == NamesArePlain => (Spec => []RollbackIsReady)
<1> SUFFICES ASSUME NamesArePlain PROVE Spec => []RollbackIsReady
  OBVIOUS
<1>1. IInv => RollbackIsReady
  BY DEF IInv, RollbackIsReady, AppliesAnother, PreviousIsKept
<1> QED  BY <1>1, InitIInv, IInvStep, PTL DEF Spec

\* Only a manifest marked as a rollback, or the way back from a release on trial,
\* takes the box to an older version (manifest.rs, decide).
THEOREM NoDowngrade == Spec => NoUnforcedDowngrade
<1> DEFINE A == LET old == link["current"]
                    new == link["current"]'
                IN  new # old /\ old # None /\ new # None /\ new < old =>
                      \/ manifest.rollback /\ new = manifest.version
                      \/ pc = "restore_made" /\ new = installed /\ old = manifest.version
<1>1. IInv /\ [Next]_vars => [A]_vars
  <2> SUFFICES ASSUME IInv, Next PROVE A
    OBVIOUS
  <2> USE DEF IInv, Links
  <2>1. CASE GoLiveDone
    BY <2>1
       DEF GoLiveDone, RenameLink, TypeOK, TmpIsMade, LiveIsWhole, InstalledVersion,
           AppliesAnother, target
  <2>2. CASE RestoreDone
    BY <2>2 DEF RestoreDone, RenameLink, TypeOK, TmpIsMade, LiveIsWhole, target
  <2>3. CASE RetainPreviousDone
    BY <2>3 DEF RetainPreviousDone, RenameLink, TypeOK
  <2>4. CASE link' = link
    BY <2>4
  <2> QED
    BY <2>1, <2>2, <2>3, <2>4
       DEF Next, Step, Begin, Stage, StageFails, Clear, Cleared, Place, RetainPrevious, GoLive,
           Healthy, Unhealthy, Restore, Fault, disk
<1> QED  BY <1>1, InitIInv, IInvStep, PTL DEF Spec, NoUnforcedDowngrade

-----------------------------------------------------------------------------
(* The refinement: what is live is switched from one whole release to another. *)

live == IF link["current"] = None THEN None
        ELSE <<link["current"], releases[link["current"]]>>

\* The steps around the switch leave what is live alone: they work on another
\* release and on other links.
LEMMA OtherStepsKeepLive ==
  ASSUME IInv, NamesArePlain,
         \/ \E s \in Sources : Begin(s)
         \/ Stage \/ StageFails \/ Clear \/ Cleared \/ Place \/ RetainPrevious \/ RetainPreviousDone
         \/ GoLive \/ Healthy \/ Unhealthy \/ Restore \/ Fault
  PROVE  live' = live
<1> USE DEF IInv, Links
<1>1. link'["current"] = link["current"]
  BY DEF Begin, Stage, StageFails, Clear, Cleared, Place, RetainPrevious, RetainPreviousDone, GoLive,
         Healthy, Unhealthy, Restore, Fault, RenameLink, TypeOK, disk
<1>2. link["current"] # None => releases'[link["current"]] = releases[link["current"]]
  <2>1. CASE Clear \/ Cleared \/ Place
    <3>1. link["current"] # None => link["current"] = installed /\ installed # target
      BY <2>1 DEF Clear, Cleared, Place, LiveIsWhole, AppliesAnother, InstalledVersion
    <3> QED  BY <2>1, <3>1 DEF Clear, Cleared, Place, TypeOK
  <2>2. CASE releases' = releases
    BY <2>2
  <2>3. CASE Stage \/ StageFails \/ (Fault /\ pc = "stage")
    <3>1. PlainNames(manifest)
      BY <2>3 DEF Stage, StageFails, AppliesAnother
    <3>2. \A v \in Versions : releases'[v] = releases[v]
      BY <2>3, <3>1, PlainWritesNothing DEF Stage, StageFails, Fault, Fit
    <3> QED  BY <3>2 DEF TypeOK
  <2> QED
    BY <2>1, <2>2, <2>3
       DEF Begin, RetainPrevious, RetainPreviousDone, GoLive, Healthy, Unhealthy,
           Restore, Fault, disk
<1> QED  BY <1>1, <1>2 DEF live

\* A rename over `current` switches to the release its temporary link points at,
\* which is whole.
LEMMA RenamesSwitch ==
  ASSUME IInv, NamesArePlain, GoLiveDone \/ RestoreDone
  PROVE  \E v \in Versions : live' = <<v, "complete">>
<1> USE DEF IInv, Links
<1> DEFINE v == tmp["current"]
<1>1. v \in Versions /\ v # None
  BY NoneIsNoVersion
     DEF GoLiveDone, RestoreDone, TmpIsMade, NextIsWhole, AppliesAnother, TypeOK, target
<1>2. releases[v] = "complete"
  BY DEF GoLiveDone, RestoreDone, TmpIsMade, NextIsWhole, AppliesAnother
<1>3. link'["current"] = v /\ releases' = releases
  BY DEF GoLiveDone, RestoreDone, RenameLink, TypeOK
<1> HIDE DEF v
<1> QED  BY <1>1, <1>2, <1>3 DEF live

\* Where every manifest the vendor signed names its files apart and in their
\* release, the updater implements LiveRelease, through every step, failure and
\* power cut: a line that keeps running never runs on part of a release.
THEOREM SwitchIsImplemented == NamesArePlain => (Spec => ImplementsSwitch)
<1> SUFFICES ASSUME NamesArePlain PROVE Spec => ImplementsSwitch
  OBVIOUS
<1>1. Init => Live!Init
  BY DEF Init, Live!Init, Links
<1>2. IInv /\ [Next]_vars => [Live!Switch]_live
  <2> SUFFICES ASSUME IInv, [Next]_vars PROVE [Live!Switch]_live
    OBVIOUS
  <2>1. CASE UNCHANGED vars
    BY <2>1 DEF vars, disk, live
  <2>2. CASE GoLiveDone \/ RestoreDone
    BY <2>2, RenamesSwitch DEF Live!Switch, Live!Whole, live
  <2>3. CASE Next /\ ~(GoLiveDone \/ RestoreDone)
    BY <2>3, OtherStepsKeepLive DEF Next, Step
  <2> QED  BY <2>1, <2>2, <2>3
<1> QED  BY <1>1, <1>2, InitIInv, IInvStep, PTL DEF Spec, ImplementsSwitch, Live!Spec, live

-----------------------------------------------------------------------------
(* The spool: its invariant. *)

\* Where records start, where their lines are whole, and where such a line was
\* appended to a line cut short.
Starts(f) == {i \in DOMAIN f : f[i] \in Records \X {1}}

Whole(f) ==
  {i \in Starts(f) : i + 2 <= Len(f) /\ f[i + 1] = <<f[i][1], 2>> /\ f[i + 2] = NL}

Spoilt(f) == {i \in Whole(f) : i # 1 /\ f[i - 1] # NL}

RecordsAt(f, places) == {f[i][1] : i \in places}

WrittenAt(r) == CHOOSE k \in DOMAIN written : written[k] = r

WrittenOnce ==
  /\ \A j, k \in DOMAIN written : written[j] = written[k] => j = k
  /\ \A w \in Writers : doing[w] = "write" => record[w] \in Records \ ToSet(written)
  /\ \A w \in Writers : doing[w] = "idle" <=> record[w] = Nothing
  /\ \A v, w \in Writers : v # w /\ record[v] = record[w] => record[v] = Nothing

\* Records start in a file in the order they were written.
FollowsWritten(f) ==
  /\ \A i \in Starts(f) : f[i][1] \in ToSet(written)
  /\ \A i, j \in Starts(f) : i < j => WrittenAt(f[i][1]) < WrittenAt(f[j][1])

\* What was reported captured is on disk to the end of its line, as long as it is
\* in the file, and what is to be synced is there.
CapturedIsSynced ==
  /\ \A i \in Starts(file) :
       file[i][1] \in captured => i \in Whole(file) /\ i + 2 <= synced
  /\ \A w \in Writers :
       doing[w] = "sync" => record[w] \in RecordsAt(file, Whole(file))

\* A compaction keeps what is not acknowledged, each on a line of its own.
CompactionKeeps ==
  compacted # Nothing =>
    /\ \A w \in Writers : doing[w] = "idle"
    /\ Starts(compacted) = Intact(compacted) /\ Starts(compacted) \subseteq Whole(compacted)
    /\ ~Torn(compacted)
    /\ RecordsAt(compacted, Intact(compacted)) \subseteq Queued
    /\ Queued \subseteq RecordsAt(compacted, Intact(compacted)) \cup acked
    /\ FollowsWritten(compacted)

\* The records a line cut short has cost, or will once they are reported captured.
Doomed == (captured \ (Queued \cup edge)) \cup RecordsAt(file, Spoilt(file))

TearsCost == Cardinality(Doomed) + (IF Torn(file) THEN 1 ELSE 0) <= tears

SpoolInv ==
  /\ SpoolTypeOK
  /\ WrittenOnce
  /\ FollowsWritten(file)
  /\ CapturedIsSynced
  /\ CompactionKeeps
  /\ TearsCost

-----------------------------------------------------------------------------
(* Files. *)

LEMMA CellsAreKnown ==
  /\ \A r : NL # <<r, 1>> /\ NL # <<r, 2>>
  /\ \A r, q : <<r, 1>> # <<q, 2>>
  /\ \A r \in Records : <<r, 1>> \in Symbols /\ <<r, 2>> \in Symbols
  /\ NL \in Symbols
  /\ \A r \in Records : <<r, 1>> \in Records \X {1}
  /\ \A x \in Records \X {1} : x # NL /\ \A q : x # <<q, 2>>
<1>1. \A r : Len(NL) = 1 /\ Len(<<r, 1>>) = 2 /\ Len(<<r, 2>>) = 2
  BY DEF NL
<1>2. \A x \in Records \X {1} : Len(x) = 2 /\ x[2] = 1
  OBVIOUS
<1>3. \A q : <<q, 2>>[2] = 2
  OBVIOUS
<1>4. \A x \in Records \X {1} : x # NL /\ \A q : x # <<q, 2>>
  BY <1>1, <1>2, <1>3
<1> QED  BY <1>1, <1>4 DEF Symbols

LEMMA LineIs ==
  \A r : /\ Len(Line(r)) = 3 /\ Line(r)[1] = <<r, 1>>
         /\ Line(r)[2] = <<r, 2>> /\ Line(r)[3] = NL
BY DEF Line

LEMMA LineHasType ==
  ASSUME NEW r \in Records PROVE Line(r) \in Seq(Symbols)
BY CellsAreKnown DEF Line

LEMMA StartsAre ==
  ASSUME NEW f \in Seq(Symbols), NEW i \in Starts(f)
  PROVE  i \in 1..Len(f) /\ f[i][1] \in Records /\ f[i] = <<f[i][1], 1>>
BY DEF Starts

\* A file that continues another, by any means.
Continues(f, g) ==
  /\ f \in Seq(Symbols) /\ g \in Seq(Symbols)
  /\ Len(f) <= Len(g)
  /\ \A i \in 1..Len(f) : g[i] = f[i]

LEMMA ContinuedPlaces ==
  ASSUME NEW f, NEW g, Continues(f, g)
  PROVE  /\ \A i \in 1..Len(f) : i \in Starts(f) <=> i \in Starts(g)
         /\ \A i \in Nat : i + 2 <= Len(f) => /\ i \in Whole(f) <=> i \in Whole(g)
                                              /\ i \in Spoilt(f) <=> i \in Spoilt(g)
                                              /\ i \in Intact(f) <=> i \in Intact(g)
         /\ \A i \in Intact(g) : i + 1 <= Len(f) => i \in Intact(f)
<1>1. /\ DOMAIN f = 1..Len(f) /\ DOMAIN g = 1..Len(g) /\ Len(f) \in Nat /\ Len(g) \in Nat
      /\ Len(f) <= Len(g) /\ \A i \in 1..Len(f) : g[i] = f[i]
  BY DEF Continues
<1>2. \A i \in 1..Len(f) : i \in Starts(f) <=> i \in Starts(g)
  BY <1>1 DEF Starts
<1>3. ASSUME NEW i \in Nat, i + 2 <= Len(f)
      PROVE  i \in Whole(f) <=> i \in Whole(g)
  <2>1. i = 0 \/ (i \in 1..Len(f) /\ i + 1 \in 1..Len(f) /\ i + 2 \in 1..Len(f))
    BY <1>1, <1>3
  <2>2. CASE i = 0
    BY <1>1, <2>2 DEF Whole, Starts
  <2>3. CASE i \in 1..Len(f) /\ i + 1 \in 1..Len(f) /\ i + 2 \in 1..Len(f)
    <3>1. f[i] = g[i] /\ f[i + 1] = g[i + 1] /\ f[i + 2] = g[i + 2] /\ i + 2 <= Len(g)
      BY <1>1, <1>3, <2>3
    <3> QED  BY <1>2, <1>3, <2>3, <3>1 DEF Whole
  <2> QED  BY <2>1, <2>2, <2>3
<1>4. ASSUME NEW i \in Nat, i + 2 <= Len(f)
      PROVE  i \in Spoilt(f) <=> i \in Spoilt(g)
  <2>1. CASE i \in Whole(f) /\ i # 1
    <3>1. i - 1 \in 1..Len(f)
      BY <1>1, <2>1 DEF Whole, Starts
    <3>2. f[i - 1] = g[i - 1]
      BY <1>1, <3>1
    <3> QED  BY <1>3, <1>4, <2>1, <3>2 DEF Spoilt
  <2> QED  BY <1>3, <1>4, <2>1 DEF Spoilt
<1>5. ASSUME NEW i \in Intact(g), i + 1 <= Len(f)
      PROVE  i \in Intact(f)
  <2>1. i \in 1..Len(f) /\ i + 1 \in 1..Len(f) /\ i \in DOMAIN g
    BY <1>1, <1>5 DEF Intact
  <2>2. f[i] = g[i] /\ f[i + 1] = g[i + 1]
    BY <1>1, <2>1
  <2>3. i = 1 \/ f[i - 1] = NL
    <3>1. i # 1 => i - 1 \in 1..Len(f)
      BY <1>1, <2>1
    <3> QED  BY <1>1, <1>5, <3>1 DEF Intact
  <2>4. i + 2 <= Len(f) => f[i + 2] = NL
    <3> HAVE i + 2 <= Len(f)
    <3>1. i + 2 \in 1..Len(f) /\ i + 2 <= Len(g)
      BY <1>1, <2>1
    <3>2. f[i + 2] = g[i + 2]
      BY <1>1, <3>1
    <3> QED  BY <1>5, <3>1, <3>2 DEF Intact
  <2> QED  BY <1>1, <1>5, <2>1, <2>2, <2>3, <2>4 DEF Intact
<1>6. ASSUME NEW i \in Intact(f), i + 2 <= Len(f)
      PROVE  i \in Intact(g)
  <2>1. /\ i \in 1..Len(f) /\ i + 1 \in 1..Len(f) /\ i + 2 \in 1..Len(f)
        /\ i \in 1..Len(g) /\ i + 1 <= Len(g) /\ i < Len(g)
    BY <1>1, <1>6 DEF Intact
  <2>2. f[i] = g[i] /\ f[i + 1] = g[i + 1] /\ f[i + 2] = g[i + 2]
    BY <1>1, <2>1
  <2>3. i = 1 \/ g[i - 1] = NL
    <3>1. i # 1 => i - 1 \in 1..Len(f)
      BY <1>1, <2>1
    <3> QED  BY <1>1, <1>6, <3>1 DEF Intact
  <2> QED  BY <1>1, <1>6, <2>1, <2>2, <2>3 DEF Intact
<1>7. ASSUME NEW i \in Nat, i + 2 <= Len(f)
      PROVE  i \in Intact(f) <=> i \in Intact(g)
  <2>1. i + 1 <= Len(f)
    BY <1>1, <1>7
  <2> QED  BY <1>5, <1>6, <1>7, <2>1
<1> QED  BY <1>2, <1>3, <1>4, <1>5, <1>7

\* A whole line is intact or spoilt.
LEMMA WholeIsIntactOrSpoilt ==
  ASSUME NEW f \in Seq(Symbols), NEW i \in Whole(f)
  PROVE  i \in Intact(f) \/ i \in Spoilt(f)
<1>1. i \in DOMAIN f /\ i \in 1..Len(f) /\ Len(f) \in Nat /\ i < Len(f)
  BY DEF Whole, Starts
<1> QED  BY <1>1 DEF Whole, Starts, Intact, Spoilt

-----------------------------------------------------------------------------
(* Appending the first n cells of a line. *)

Grown(f, r, n, g) ==
  /\ Continues(f, g)
  /\ Len(g) = Len(f) + n
  /\ \A j \in 1..n : g[Len(f) + j] = Line(r)[j]

LEMMA FirstCells ==
  ASSUME NEW s \in Seq(Symbols), NEW n \in Nat, n <= Len(s)
  PROVE  /\ SubSeq(s, 1, n) \in Seq(Symbols) /\ Len(SubSeq(s, 1, n)) = n
         /\ \A j \in 1..n : SubSeq(s, 1, n)[j] = s[j]
<1>1. \A j \in 1..n : s[j] \in Symbols
  <2>1. \A j \in 1..n : j \in 1..Len(s)
    OBVIOUS
  <2> QED  BY <2>1, ElementOfSeq
<1>2. 1 \in Int /\ n \in Int /\ n - 1 + 1 = n /\ (IF 1 <= n THEN n - 1 + 1 ELSE 0) = n
  OBVIOUS
<1>3. /\ SubSeq(s, 1, n) \in Seq(Symbols)
      /\ Len(SubSeq(s, 1, n)) = IF 1 <= n THEN n - 1 + 1 ELSE 0
      /\ \A j \in 1..(n - 1 + 1) : SubSeq(s, 1, n)[j] = s[1 + j - 1]
  BY <1>1, <1>2, SubSeqProperties
<1>4. \A j \in 1..n : 1 + j - 1 = j
  OBVIOUS
<1> QED  BY <1>2, <1>3, <1>4

LEMMA AppendingGrows ==
  ASSUME NEW f \in Seq(Symbols), NEW r \in Records, NEW n \in 0..3
  PROVE  Grown(f, r, n, f \o SubSeq(Line(r), 1, n))
<1> DEFINE cells == SubSeq(Line(r), 1, n)
           g == f \o cells
<1>1. Line(r) \in Seq(Symbols) /\ Len(Line(r)) = 3
  BY LineHasType, LineIs
<1>2. cells \in Seq(Symbols) /\ Len(cells) = n /\ \A j \in 1..n : cells[j] = Line(r)[j]
  <2>1. n \in Nat /\ n <= Len(Line(r))
    BY <1>1
  <2> QED  BY <1>1, <2>1, FirstCells
<1> HIDE DEF cells
<1>3. g \in Seq(Symbols) /\ Len(g) = Len(f) + n
  BY <1>2
<1>4. \A i \in 1..Len(f) : g[i] = f[i]
  BY <1>2
<1>5. \A j \in 1..n : g[Len(f) + j] = cells[j]
  BY <1>2
<1>6. Len(f) <= Len(g)
  BY <1>3
<1> QED  BY <1>2, <1>3, <1>4, <1>5, <1>6 DEF Grown, Continues, cells

LEMMA WritingGrows ==
  ASSUME NEW f \in Seq(Symbols), NEW r \in Records
  PROVE  Grown(f, r, 3, f \o Line(r))
<1>1. SubSeq(Line(r), 1, 3) = Line(r)
  <2>1. Line(r) \in Seq(Symbols) /\ Len(Line(r)) = 3
    BY LineHasType, LineIs
  <2> QED  BY <2>1, SubSeqFull
<1>2. Grown(f, r, 3, f \o SubSeq(Line(r), 1, 3))
  BY AppendingGrows
<1> QED  BY <1>1, <1>2

\* The one place where something new can start, and when it is whole or spoilt.
LEMMA GrownPlaces ==
  ASSUME NEW f, NEW g, NEW r \in Records, NEW n \in 0..3, Grown(f, r, n, g)
  PROVE  LET place == Len(f) + 1
         IN  /\ Len(f) \in Nat
             /\ Starts(g) \subseteq Starts(f) \cup {place}
             /\ place \in Starts(g) => g[place][1] = r
             /\ Whole(g) = Whole(f) \cup IF n = 3 THEN {place} ELSE {}
             /\ Spoilt(g) = Spoilt(f) \cup IF n = 3 /\ Torn(f) THEN {place} ELSE {}
             /\ Intact(g) \subseteq Intact(f) \cup {place}
             /\ Torn(g) <=> IF n = 0 THEN Torn(f) ELSE n # 3
<1> DEFINE place == Len(f) + 1
<1>1. /\ f \in Seq(Symbols) /\ g \in Seq(Symbols) /\ DOMAIN f = 1..Len(f) /\ DOMAIN g = 1..Len(g)
      /\ Len(f) \in Nat /\ Len(g) = Len(f) + n /\ Continues(f, g)
      /\ \A i \in 1..Len(f) : g[i] = f[i]
  BY DEF Grown, Continues
<1>2. /\ n >= 1 => g[place] = <<r, 1>>
      /\ n >= 2 => g[place + 1] = <<r, 2>>
      /\ n = 3 => g[place + 2] = NL
  <2>1. \A j \in 1..n : g[Len(f) + j] = Line(r)[j]
    BY DEF Grown
  <2>2. n >= 1 => 1 \in 1..n
    OBVIOUS
  <2>3. n >= 2 => 2 \in 1..n
    OBVIOUS
  <2>4. n = 3 => 3 \in 1..n
    OBVIOUS
  <2>5. place + 1 = Len(f) + 2 /\ place + 2 = Len(f) + 3
    BY <1>1
  <2> QED  BY <2>1, <2>2, <2>3, <2>4, <2>5, LineIs
<1>3. ASSUME NEW i \in Starts(g) PROVE i \in Starts(f) \/ i = place
  <2>1. i \in 1..Len(g)
    BY <1>1, <1>3 DEF Starts
  <2>2. CASE i > place
    <3>1. (i = place + 1 /\ n >= 2) \/ (i = place + 2 /\ n = 3)
      BY <1>1, <2>1, <2>2
    <3>2. g[i] = <<r, 2>> \/ g[i] = NL
      BY <1>2, <3>1
    <3>3. g[i] \in Records \X {1}
      BY <1>3 DEF Starts
    <3> QED  BY <3>2, <3>3, CellsAreKnown
  <2>3. CASE i <= Len(f)
    <3>1. i \in 1..Len(f)
      BY <1>1, <2>1, <2>3
    <3> QED  BY <1>1, <1>3, <3>1, ContinuedPlaces
  <2> QED  BY <1>1, <2>1, <2>2, <2>3
<1>4. place \in Starts(g) => n >= 1 /\ g[place][1] = r
  <2> HAVE place \in Starts(g)
  <2>1. n >= 1
    BY <1>1 DEF Starts
  <2> QED  BY <1>2, <2>1
<1>5. n = 3 => place \in Whole(g)
  <2> HAVE n = 3
  <2>1. place \in 1..Len(g) /\ place + 2 <= Len(g)
    BY <1>1
  <2>2. g[place] \in Records \X {1}
    <3>1. g[place] = <<r, 1>>
      BY <1>2
    <3> QED  BY <3>1, CellsAreKnown, Zenon
  <2> QED  BY <1>1, <1>2, <2>1, <2>2 DEF Whole, Starts
<1>6. \A i \in Whole(f) : i \in Whole(g)
  BY <1>1, ContinuedPlaces DEF Whole, Starts
<1>7. ASSUME NEW i \in Whole(g) PROVE i \in Whole(f) \/ (n = 3 /\ i = place)
  <2>1. i \in Starts(g) /\ i + 2 <= Len(g) /\ g[i + 1] = <<g[i][1], 2>> /\ g[i + 2] = NL
        /\ i \in 1..Len(g)
    BY <1>1, <1>7 DEF Whole, Starts
  <2>2. CASE i = place
    BY <1>1, <2>1, <2>2
  <2>3. CASE i + 2 <= Len(f)
    BY <1>1, <1>7, <2>1, <2>3, ContinuedPlaces
  <2>4. CASE i <= Len(f) /\ i + 2 > Len(f)
    <3>1. n >= 1 /\ (i + 1 = place \/ i + 2 = place)
      BY <1>1, <2>1, <2>4
    <3> QED  BY <1>2, <2>1, <3>1, CellsAreKnown
  <2>5. i \in Starts(f) \/ i = place
    BY <1>3, <2>1
  <2>6. i \in Starts(f) => i <= Len(f)
    BY <1>1 DEF Starts
  <2> QED  BY <1>1, <2>1, <2>2, <2>3, <2>4, <2>5, <2>6
<1>8. Whole(g) = Whole(f) \cup IF n = 3 THEN {place} ELSE {}
  BY <1>5, <1>6, <1>7
<1>9. Torn(f) <=> Len(f) # 0 /\ f[Len(f)] # NL
  BY <1>1 DEF Torn, Last
<1>10. ASSUME NEW i \in Whole(f) PROVE i \in Spoilt(f) <=> i \in Spoilt(g)
  BY <1>1, <1>10, ContinuedPlaces DEF Whole, Starts
<1>11. n = 3 => (place \in Spoilt(g) <=> Torn(f))
  <2> HAVE n = 3
  <2>1. place # 1 <=> Len(f) # 0
    BY <1>1
  <2>2. Len(f) # 0 => Len(f) \in 1..Len(f) /\ g[place - 1] = f[Len(f)]
    BY <1>1
  <2> QED  BY <1>5, <1>9, <2>1, <2>2 DEF Spoilt
<1>12. Spoilt(g) = Spoilt(f) \cup IF n = 3 /\ Torn(f) THEN {place} ELSE {}
  <2>1. Spoilt(f) \subseteq Whole(f) /\ Spoilt(g) \subseteq Whole(g)
    BY DEF Spoilt
  <2> HIDE DEF place
  <2>2. n = 3 => (place \notin Whole(f))
    BY <1>1 DEF Whole, Starts, place
  <2> QED  BY <1>8, <1>10, <1>11, <2>1, <2>2
<1>13. Intact(g) \subseteq Intact(f) \cup {place}
  <2> SUFFICES ASSUME NEW i \in Intact(g), i # place PROVE i \in Intact(f)
    OBVIOUS
  <2>1. i \in Starts(g) /\ i < Len(g) /\ g[i + 1] = <<g[i][1], 2>> /\ i \in Nat
    BY <1>1 DEF Intact, Starts
  <2>2. i \in 1..Len(f)
    <3>1. i \in Starts(f)
      BY <1>3, <2>1
    <3> QED  BY <1>1, <3>1 DEF Starts
  <2>3. CASE i + 1 <= Len(f)
    BY <1>1, <2>3, ContinuedPlaces
  <2>4. CASE i = Len(f)
    <3>1. Len(f) < Len(g)
      BY <2>1, <2>4
    <3>2. n >= 1 /\ i + 1 = place
      <4>1. Len(f) \in Nat /\ Len(g) = Len(f) + n
        BY <1>1
      <4> QED  BY <2>4, <3>1, <4>1
    <3>3. g[place] = <<g[i][1], 2>> /\ g[place] = <<r, 1>>
      BY <1>2, <2>1, <3>2
    <3>4. <<r, 1>> = <<g[i][1], 2>>
      BY <3>3, Zenon
    <3> QED  BY <3>4, CellsAreKnown, Zenon
  <2>5. Len(f) \in Nat
    BY <1>1
  <2> HIDE DEF place
  <2> QED  BY <2>2, <2>3, <2>4, <2>5
<1>14. Torn(g) <=> IF n = 0 THEN Torn(f) ELSE n # 3
  <2>1. Torn(g) <=> Len(g) # 0 /\ g[Len(g)] # NL
    BY <1>1 DEF Torn, Last
  <2>2. CASE n = 0
    <3>1. Len(g) = Len(f) /\ (Len(f) # 0 => g[Len(f)] = f[Len(f)])
      BY <1>1, <2>2
    <3> QED  BY <1>9, <2>1, <2>2, <3>1
  <2>3. CASE n # 0
    <3>1. Len(g) # 0 /\ Len(g) = place + n - 1 /\ (n = 1 \/ n = 2 \/ n = 3)
      BY <1>1, <2>3
    <3>2. g[Len(g)] = NL <=> n = 3
      <4>1. CASE n = 1
        <5>1. Len(g) = place
          BY <1>1, <3>1, <4>1
        <5>2. g[place] = <<r, 1>>
          BY <1>2, <4>1
        <5> QED  BY <4>1, <5>1, <5>2, CellsAreKnown
      <4>2. CASE n = 2
        <5>1. Len(g) = place + 1
          BY <1>1, <3>1, <4>2
        <5>2. g[place + 1] = <<r, 2>>
          BY <1>2, <4>2
        <5> QED  BY <4>2, <5>1, <5>2, CellsAreKnown
      <4>3. CASE n = 3
        <5>1. Len(g) = place + 2
          BY <1>1, <3>1, <4>3
        <5> QED  BY <1>2, <4>3, <5>1
      <4> QED  BY <3>1, <4>1, <4>2, <4>3
    <3> QED  BY <2>1, <2>3, <3>1, <3>2
  <2> QED  BY <2>2, <2>3
<1> QED  BY <1>1, <1>3, <1>4, <1>8, <1>12, <1>13, <1>14

-----------------------------------------------------------------------------
(* Loading and compacting. *)

\* The numbers of a finite set can be counted in ascending order: the place of each
\* is how many there are up to it.
LEMMA AscendingIs ==
  ASSUME NEW S \in SUBSET Nat, IsFiniteSet(S)
  PROVE  /\ Cardinality(S) \in Nat
         /\ Ascending(S) \in [1..Cardinality(S) -> S]
         /\ \A j, k \in 1..Cardinality(S) : j < k => Ascending(S)[j] < Ascending(S)[k]
         /\ \A i \in S : \E k \in 1..Cardinality(S) : Ascending(S)[k] = i
<1> DEFINE upTo(i) == {j \in S : j <= i}
           rank == [i \in S |-> Cardinality(upTo(i))]
           c == Cardinality(S)
<1>1. c \in Nat
  BY FS_CardinalityType
<1>2. \A i \in S : IsFiniteSet(upTo(i)) /\ rank[i] \in 1..c
  <2> TAKE i \in S
  <2>1. upTo(i) \in SUBSET S /\ i \in upTo(i) /\ rank[i] = Cardinality(upTo(i))
    OBVIOUS
  <2> HIDE DEF upTo, rank
  <2>2. IsFiniteSet(upTo(i)) /\ Cardinality(upTo(i)) <= c
    BY <2>1, FS_Subset
  <2>3. Cardinality(upTo(i)) \in Nat /\ Cardinality(upTo(i)) # 0
    BY <2>1, <2>2, FS_CardinalityType, FS_EmptySet
  <2> QED  BY <1>1, <2>1, <2>2, <2>3
<1>3. \A i, j \in S : i < j => rank[i] < rank[j]
  <2> TAKE i, j \in S
  <2> HAVE i < j
  <2>0. i \in Nat /\ j \in Nat /\ \A k \in S : k \in Nat
    OBVIOUS
  <2>1. /\ upTo(i) \in SUBSET upTo(j) /\ j \in upTo(j) /\ j \notin upTo(i)
        /\ rank[i] = Cardinality(upTo(i)) /\ rank[j] = Cardinality(upTo(j))
    <3>1. upTo(i) \in SUBSET upTo(j)
      <4>1. \A k \in S : k <= i => k <= j
        BY <2>0
      <4> QED  BY <4>1
    <3>2. j \in upTo(j) /\ j \notin upTo(i)
      BY <2>0
    <3>3. rank[i] = Cardinality(upTo(i)) /\ rank[j] = Cardinality(upTo(j))
      OBVIOUS
    <3> QED  BY <3>1, <3>2, <3>3
  <2>2. IsFiniteSet(upTo(i)) /\ IsFiniteSet(upTo(j))
    BY <1>2
  <2> HIDE DEF upTo, rank
  <2>3. /\ Cardinality(upTo(i)) <= Cardinality(upTo(j))
        /\ Cardinality(upTo(i)) = Cardinality(upTo(j)) => upTo(i) = upTo(j)
    BY <2>1, <2>2, FS_Subset
  <2>4. Cardinality(upTo(i)) \in Nat /\ Cardinality(upTo(j)) \in Nat
    BY <2>2, FS_CardinalityType
  <2> QED  BY <2>1, <2>3, <2>4
<1>4. rank \in Injection(S, 1..c)
  <2>1. rank \in [S -> 1..c]
    BY <1>2
  <2>2. \A i, j \in S : rank[i] = rank[j] => i = j
    <3> HIDE DEF rank
    <3> SUFFICES ASSUME NEW i \in S, NEW j \in S, rank[i] = rank[j] PROVE i = j
      OBVIOUS
    <3>1. ~(i < j) /\ ~(j < i)
      <4>1. rank[i] \in Nat /\ rank[j] \in Nat
        <5>1. rank[i] \in 1..c /\ rank[j] \in 1..c
          BY <1>2
        <5> QED  BY <1>1, <5>1
      <4> QED  BY <1>3, <4>1
    <3> QED  BY <3>1
  <2> HIDE DEF rank
  <2> QED  BY <2>1, <2>2 DEF Injection, IsInjective
<1>5. IsFiniteSet(1..c) /\ Cardinality(1..c) = c
  <2>1. 1 \in Int /\ c \in Int /\ (IF 1 > c THEN 0 ELSE c - 1 + 1) = c
    BY <1>1
  <2> QED  BY <2>1, FS_Interval
<1>6. rank \in Surjection(S, 1..c)
  <2> HIDE DEF rank
  <2> QED  BY <1>4, <1>5, FS_Injection
<1> DEFINE s == [k \in 1..c |-> CHOOSE i \in S : rank[i] = k]
<1>7. \A k \in 1..c : s[k] \in S /\ rank[s[k]] = k
  <2>1. \A k \in 1..c : \E i \in S : rank[i] = k
    <3> HIDE DEF rank
    <3> QED  BY <1>6 DEF Surjection
  <2> HIDE DEF rank
  <2> QED  BY <2>1
<1>8. s \in [1..c -> S]
  <2>1. \A k \in 1..c : (CHOOSE i \in S : rank[i] = k) \in S
    BY <1>7
  <2> HIDE DEF rank
  <2> QED  BY <2>1
<1>9. \A j, k \in DOMAIN s : j < k => s[j] < s[k]
  <2> SUFFICES ASSUME NEW j \in 1..c, NEW k \in 1..c, j < k PROVE s[j] < s[k]
    OBVIOUS
  <2>1. s[j] \in S /\ s[k] \in S /\ rank[s[j]] = j /\ rank[s[k]] = k
    BY <1>7
  <2> HIDE DEF s, rank
  <2>2. s[j] \in Nat /\ s[k] \in Nat
    BY <2>1
  <2>3. ~(k < j) /\ j # k
    BY <1>1
  <2>4. ~(s[k] < s[j]) /\ s[j] # s[k]
    BY <1>3, <2>1, <2>3
  <2> QED  BY <2>2, <2>4
<1> DEFINE a == Ascending(S)
<1>10. a \in [1..c -> S] /\ \A j, k \in DOMAIN a : j < k => a[j] < a[k]
  <2> HIDE DEF s, c
  <2> QED  BY <1>8, <1>9 DEF Ascending, c
<1>11. a \in Injection(1..c, S)
  <2> HIDE DEF a, c
  <2>1. \A j, k \in 1..c : a[j] = a[k] => j = k
    <3> SUFFICES ASSUME NEW j \in 1..c, NEW k \in 1..c, a[j] = a[k], j # k PROVE FALSE
      OBVIOUS
    <3>1. j < k \/ k < j
      BY <1>1
    <3>2. a[j] \in Nat
      BY <1>10
    <3>3. ~(a[j] < a[j])
      BY <3>2
    <3> QED  BY <1>10, <3>1, <3>3
  <2> QED  BY <1>10, <2>1 DEF Injection, IsInjective
<1>12. a \in Surjection(1..c, S)
  <2> HIDE DEF a
  <2> QED  BY <1>5, <1>11, FS_Injection
<1>13. \A i \in S : \E k \in 1..c : a[k] = i
  <2> HIDE DEF a
  <2> QED  BY <1>12 DEF Surjection
<1>14. \A j, k \in 1..c : j < k => a[j] < a[k]
  <2> HIDE DEF a, c
  <2> QED  BY <1>10
<1> QED  BY <1>1, <1>10, <1>13, <1>14

LEMMA InOrderIs ==
  ASSUME NEW f \in Seq(Symbols), NEW places \in SUBSET Starts(f)
  PROVE  LET s == InOrder(f, places)
             a == Ascending(places)
         IN  /\ s \in Seq(Records)
             /\ \A k \in 1..Len(s) : a[k] \in places /\ s[k] = f[a[k]][1]
             /\ \A j, k \in 1..Len(s) : j < k => a[j] < a[k]
             /\ \A i \in places : \E k \in 1..Len(s) : s[k] = f[i][1]
<1> DEFINE s == InOrder(f, places)
           a == Ascending(places)
           c == Cardinality(places)
<1>1. places \in SUBSET Nat /\ IsFiniteSet(places)
  <2>1. Len(f) \in Nat /\ Starts(f) \in SUBSET Nat /\ \A i \in Starts(f) : i <= Len(f)
    BY DEF Starts
  <2> QED  BY <2>1, FS_BoundedSetOfNaturals
<1>2. /\ c \in Nat /\ a \in [1..c -> places]
      /\ \A j, k \in 1..c : j < k => a[j] < a[k]
      /\ \A i \in places : \E k \in 1..c : a[k] = i
  BY <1>1, AscendingIs
<1> HIDE DEF a, c
<1>3. s = [k \in 1..c |-> f[a[k]][1]]
  BY DEF InOrder, a, c
<1> HIDE DEF s
<1>4. \A k \in 1..c : a[k] \in places /\ f[a[k]][1] \in Records
  BY <1>2, StartsAre
<1>5. s \in Seq(Records) /\ Len(s) = c
  BY <1>2, <1>3, <1>4
<1>6. \A k \in 1..c : s[k] = f[a[k]][1]
  BY <1>3
<1> QED  BY <1>2, <1>4, <1>5, <1>6 DEF s, a

\* A file of whole lines has a record every three cells.
LEMMA LinesAre ==
  ASSUME NEW rs \in Seq(Records)
  PROVE  LET g == Lines(rs)
         IN  /\ g \in Seq(Symbols) /\ Len(g) = 3 * Len(rs) /\ Len(rs) \in Nat
             /\ \A k \in 1..Len(rs) : /\ g[3 * k - 2] = <<rs[k], 1>>
                                      /\ g[3 * k - 1] = <<rs[k], 2>>
                                      /\ g[3 * k] = NL
<1> DEFINE g == Lines(rs)
           at(i) == Line(rs[(i + 2) \div 3])[1 + ((i + 2) % 3)]
<1>1. Len(rs) \in Nat /\ 3 * Len(rs) \in Nat /\ \A k \in 1..Len(rs) : rs[k] \in Records
  OBVIOUS
<1>2. \A i \in 1..3 * Len(rs) : at(i) \in Symbols
  <2> TAKE i \in 1..3 * Len(rs)
  <2> PICK k, m : k = (i + 2) \div 3 /\ m = 1 + ((i + 2) % 3)
    OBVIOUS
  <2>1. k \in 1..Len(rs) /\ m \in 1..3
    BY <1>1
  <2>2. rs[k] \in Records
    BY <1>1, <2>1
  <2>3. Line(rs[k])[m] \in Symbols
    <3>1. Line(rs[k]) \in Seq(Symbols) /\ Len(Line(rs[k])) = 3
      BY <2>2, LineHasType, LineIs
    <3> QED  BY <2>1, <3>1, ElementOfSeq
  <2> QED  BY <2>3
<1>3. g = [i \in 1..3 * Len(rs) |-> at(i)]
  BY DEF Lines
<1> HIDE DEF g
<1>4. g \in Seq(Symbols) /\ Len(g) = 3 * Len(rs)
  <2> HIDE DEF at
  <2> QED  BY <1>1, <1>2, <1>3
<1>5. ASSUME NEW k \in 1..Len(rs)
      PROVE  /\ g[3 * k - 2] = <<rs[k], 1>>
             /\ g[3 * k - 1] = <<rs[k], 2>>
             /\ g[3 * k] = NL
  <2>1. /\ 3 * k - 2 \in 1..3 * Len(rs) /\ (3 * k - 2 + 2) \div 3 = k
        /\ 1 + ((3 * k - 2 + 2) % 3) = 1
    BY <1>1
  <2>2. /\ 3 * k - 1 \in 1..3 * Len(rs) /\ (3 * k - 1 + 2) \div 3 = k
        /\ 1 + ((3 * k - 1 + 2) % 3) = 2
    BY <1>1
  <2>3. /\ 3 * k \in 1..3 * Len(rs) /\ (3 * k + 2) \div 3 = k
        /\ 1 + ((3 * k + 2) % 3) = 3
    BY <1>1
  <2>4. /\ Line(rs[k])[1] = <<rs[k], 1>> /\ Line(rs[k])[2] = <<rs[k], 2>>
        /\ Line(rs[k])[3] = NL
    BY LineIs
  <2>5. g[3 * k - 2] = Line(rs[k])[1]
    BY <1>3, <2>1
  <2>6. g[3 * k - 1] = Line(rs[k])[2]
    BY <1>3, <2>2
  <2>7. g[3 * k] = Line(rs[k])[3]
    BY <1>3, <2>3
  <2> QED  BY <2>4, <2>5, <2>6, <2>7
<1> QED  BY <1>1, <1>4, <1>5 DEF g

LEMMA LinesPlaces ==
  ASSUME NEW rs \in Seq(Records), NEW g, g = Lines(rs)
  PROVE  /\ \A i \in Starts(g) : \E k \in 1..Len(rs) : i = 3 * k - 2 /\ g[i][1] = rs[k]
         /\ \A k \in 1..Len(rs) : 3 * k - 2 \in Starts(g) /\ g[3 * k - 2][1] = rs[k]
         /\ Starts(g) = Intact(g) /\ Starts(g) \subseteq Whole(g)
         /\ ~Torn(g)
<1>1. /\ g \in Seq(Symbols) /\ Len(g) = 3 * Len(rs) /\ Len(rs) \in Nat
      /\ DOMAIN g = 1..Len(g)
      /\ \A k \in 1..Len(rs) : /\ g[3 * k - 2] = <<rs[k], 1>>
                               /\ g[3 * k - 1] = <<rs[k], 2>>
                               /\ g[3 * k] = NL
  <2>1. /\ g \in Seq(Symbols) /\ Len(g) = 3 * Len(rs) /\ Len(rs) \in Nat
        /\ \A k \in 1..Len(rs) : /\ g[3 * k - 2] = <<rs[k], 1>>
                                 /\ g[3 * k - 1] = <<rs[k], 2>>
                                 /\ g[3 * k] = NL
    BY ONLY rs \in Seq(Records), g = Lines(rs), LinesAre, Zenon
  <2>2. DOMAIN g = 1..Len(g)
    BY ONLY <2>1
  <2> QED  BY <2>1, <2>2
<1>2. \A k \in 1..Len(rs) : rs[k] \in Records
  OBVIOUS
<1>3. \A i \in 1..Len(g) : \E k \in 1..Len(rs) : i \in {3 * k - 2, 3 * k - 1, 3 * k}
  <2> TAKE i \in 1..Len(g)
  <2>1. Len(g) = 3 * Len(rs) /\ Len(rs) \in Nat
    BY <1>1
  <2> PICK k : k = (i + 2) \div 3
    OBVIOUS
  <2>2. k \in 1..Len(rs) /\ i \in {3 * k - 2, 3 * k - 1, 3 * k}
    BY <2>1
  <2> QED  BY <2>2
<1>4. ASSUME NEW i \in Starts(g)
      PROVE  \E k \in 1..Len(rs) : i = 3 * k - 2 /\ g[i][1] = rs[k]
  <2>1. i \in 1..Len(g) /\ g[i] \in Records \X {1}
    BY <1>1 DEF Starts
  <2>2. PICK k \in 1..Len(rs) : i \in {3 * k - 2, 3 * k - 1, 3 * k}
    BY <1>3, <2>1
  <2>3. g[i] # NL /\ g[i] # <<rs[k], 2>>
    BY <2>1, CellsAreKnown, Zenon
  <2>4. i = 3 * k - 2
    <3>1. i # 3 * k - 1 /\ i # 3 * k
      BY <1>1, <2>3
    <3> QED  BY <2>2, <3>1
  <2>5. g[i] = <<rs[k], 1>>
    BY <1>1, <2>4
  <2> QED  BY <2>4, <2>5
<1>5. ASSUME NEW k \in 1..Len(rs)
      PROVE  LET i == 3 * k - 2
             IN  i \in Starts(g) /\ i \in Intact(g) /\ i \in Whole(g) /\ g[i][1] = rs[k]
  <2> PICK i : i = 3 * k - 2
    OBVIOUS
  <2>1. /\ i \in 1..Len(g) /\ i + 1 = 3 * k - 1 /\ i + 2 = 3 * k /\ i + 2 <= Len(g) /\ i < Len(g)
        /\ i \in Nat
    <3>1. Len(g) = 3 * Len(rs) /\ Len(rs) \in Nat
      BY <1>1
    <3> QED  BY <3>1
  <2>2. g[i] = <<rs[k], 1>> /\ g[i + 1] = <<rs[k], 2>> /\ g[i + 2] = NL
    BY <1>1, <2>1
  <2>3. g[i][1] = rs[k] /\ g[i] \in Records \X {1}
    <3>1. rs[k] \in Records
      BY <1>2
    <3> QED  BY <2>2, <3>1, CellsAreKnown
  <2>4. i # 1 => g[i - 1] = NL
    <3> HAVE i # 1
    <3>1. k - 1 \in 1..Len(rs) /\ 3 * (k - 1) = i - 1
      BY <2>1
    <3>2. g[3 * (k - 1)] = NL
      BY <1>1, <3>1
    <3> QED  BY <3>1, <3>2
  <2>5. i \in Starts(g)
    BY <1>1, <2>1, <2>3 DEF Starts
  <2>6. i \in Whole(g)
    BY <2>1, <2>2, <2>3, <2>5 DEF Whole
  <2>7. i \in Intact(g)
    BY <1>1, <2>1, <2>2, <2>3, <2>4 DEF Intact
  <2> QED  BY <2>3, <2>5, <2>6, <2>7
<1>6. Starts(g) \subseteq Intact(g) /\ Starts(g) \subseteq Whole(g)
  BY <1>4, <1>5
<1>7. Intact(g) \subseteq Starts(g)
  BY DEF Intact, Starts
<1>8. ~Torn(g)
  <2> SUFFICES ASSUME g # <<>> PROVE g[Len(g)] = NL
    BY DEF Torn, Last
  <2>1. Len(g) # 0
    BY <1>1
  <2>2. Len(rs) \in 1..Len(rs)
    BY <1>1, <2>1
  <2> QED  BY <1>1, <2>2
<1> QED  BY <1>4, <1>5, <1>6, <1>7, <1>8

-----------------------------------------------------------------------------
(* The order of writes. *)

LEMMA RecordsAreWritten ==
  ASSUME SpoolTypeOK, WrittenOnce
  PROVE  /\ written \in Seq(Records) /\ DOMAIN written = 1..Len(written) /\ Len(written) \in Nat
         /\ ToSet(written) \subseteq Records /\ IsFiniteSet(ToSet(written))
         /\ \A k \in 1..Len(written) : WrittenAt(written[k]) = k
         /\ \A r \in ToSet(written) : WrittenAt(r) \in 1..Len(written) /\ written[WrittenAt(r)] = r
<1>1. written \in Seq(Records) /\ DOMAIN written = 1..Len(written) /\ Len(written) \in Nat
      /\ \A k \in 1..Len(written) : written[k] \in Records
  BY DEF SpoolTypeOK
<1>2. ToSet(written) = {written[k] : k \in 1..Len(written)}
  BY <1>1 DEF ToSet
<1>3. IsFiniteSet(ToSet(written))
  <2>1. written \in [1..Len(written) -> ToSet(written)]
    BY <1>1, <1>2
  <2>2. written \in Surjection(1..Len(written), ToSet(written))
    BY <1>2, <2>1 DEF Surjection
  <2>3. IsFiniteSet(1..Len(written))
    BY <1>1, FS_Interval
  <2> QED  BY <2>2, <2>3, FS_Surjection
<1>4. \A r \in ToSet(written) : WrittenAt(r) \in 1..Len(written) /\ written[WrittenAt(r)] = r
  BY <1>1, <1>2 DEF WrittenAt
<1>5. \A k \in 1..Len(written) : WrittenAt(written[k]) = k
  <2> TAKE k \in 1..Len(written)
  <2>1. written[k] \in ToSet(written)
    BY <1>2
  <2> QED  BY <1>1, <1>4, <2>1 DEF WrittenOnce
<1> QED  BY <1>1, <1>2, <1>3, <1>4, <1>5

LEMMA WritesComeLast ==
  ASSUME SpoolTypeOK, WrittenOnce, NEW r \in Records \ ToSet(written),
         written' = Append(written, r)
  PROVE  /\ ToSet(written)' = ToSet(written) \cup {r}
         /\ \A j, k \in DOMAIN written' : written'[j] = written'[k] => j = k
         /\ \A q \in ToSet(written) : WrittenAt(q)' = WrittenAt(q)
         /\ \A q \in ToSet(written) : WrittenAt(q) < WrittenAt(r)'
<1>1. written \in Seq(Records) /\ DOMAIN written = 1..Len(written) /\ Len(written) \in Nat
  BY RecordsAreWritten
<1>2. /\ written' \in Seq(Records) /\ DOMAIN written' = 1..Len(written) + 1
      /\ \A k \in 1..Len(written) : written'[k] = written[k]
      /\ written'[Len(written) + 1] = r
  BY <1>1
<1>3. ToSet(written) = {written[k] : k \in 1..Len(written)}
  BY <1>1 DEF ToSet
<1>4. ToSet(written)' = ToSet(written) \cup {r}
  <2>1. ToSet(written)' = {written'[k] : k \in 1..Len(written) + 1}
    BY <1>2 DEF ToSet
  <2>2. 1..Len(written) + 1 = 1..Len(written) \cup {Len(written) + 1}
    BY <1>1
  <2> QED  BY <1>2, <1>3, <2>1, <2>2
<1>5. \A k \in 1..Len(written) : written[k] # r
  BY <1>3
<1>6. \A j, k \in 1..Len(written) + 1 : written'[j] = written'[k] => j = k
  <2> TAKE j, k \in 1..Len(written) + 1
  <2>1. (j \in 1..Len(written) \/ j = Len(written) + 1)
        /\ (k \in 1..Len(written) \/ k = Len(written) + 1)
    BY <1>1
  <2> QED  BY <1>1, <1>2, <1>5, <2>1 DEF WrittenOnce
<1>7. ASSUME NEW q, NEW k \in 1..Len(written) + 1, written'[k] = q
      PROVE  WrittenAt(q)' = k
  <2>1. WrittenAt(q)' = CHOOSE j \in 1..Len(written) + 1 : written'[j] = q
    BY <1>2 DEF WrittenAt
  <2> PICK at : at = CHOOSE j \in 1..Len(written) + 1 : written'[j] = q
    OBVIOUS
  <2>2. at \in 1..Len(written) + 1 /\ written'[at] = q
    BY <1>7
  <2> QED  BY <1>6, <1>7, <2>1, <2>2
<1>8. ASSUME NEW q \in ToSet(written)
      PROVE  WrittenAt(q)' = WrittenAt(q) /\ WrittenAt(q) < WrittenAt(r)'
  <2>1. WrittenAt(q) \in 1..Len(written) /\ written[WrittenAt(q)] = q
    BY RecordsAreWritten
  <2>2. WrittenAt(q) \in 1..Len(written) + 1 /\ written'[WrittenAt(q)] = q
        /\ Len(written) + 1 \in 1..Len(written) + 1
    BY <1>1, <1>2, <2>1
  <2>3. WrittenAt(q)' = WrittenAt(q)
    BY <1>7, <2>2
  <2>4. WrittenAt(r)' = Len(written) + 1
    BY <1>2, <1>7, <2>2
  <2> QED  BY <1>1, <2>1, <2>3, <2>4
<1> QED  BY <1>2, <1>4, <1>6, <1>8

\* A record starts at no more than one place of a file.
LEMMA StartsOnce ==
  ASSUME SpoolTypeOK, WrittenOnce, NEW f \in Seq(Symbols), FollowsWritten(f),
         NEW i \in Starts(f), NEW j \in Starts(f), f[i][1] = f[j][1]
  PROVE  i = j
<1>1. i \in Nat /\ j \in Nat
  BY StartsAre
<1>2. WrittenAt(f[i][1]) \in Nat
  BY RecordsAreWritten DEF FollowsWritten
<1>3. ~(i < j) /\ ~(j < i)
  BY <1>2 DEF FollowsWritten
<1> QED  BY <1>1, <1>3

LEMMA DoomedIsFinite ==
  ASSUME SpoolTypeOK, WrittenOnce, FollowsWritten(file)
  PROVE  IsFiniteSet(Doomed) /\ Cardinality(Doomed) \in Nat
<1>1. IsFiniteSet(ToSet(written))
  BY RecordsAreWritten
<1>2. captured \subseteq ToSet(written)
  BY DEF SpoolTypeOK
<1>3. RecordsAt(file, Spoilt(file)) \subseteq ToSet(written)
  BY DEF RecordsAt, Spoilt, Whole, FollowsWritten
<1>4. Doomed \in SUBSET ToSet(written)
  BY <1>2, <1>3 DEF Doomed
<1> QED  BY <1>1, <1>4, FS_Subset, FS_CardinalityType

LEMMA CostStays ==
  ASSUME SpoolTypeOK, WrittenOnce, FollowsWritten(file), TearsCost,
         Doomed' \subseteq Doomed, tears' = tears \/ tears' = tears + Tear,
         Torn(file') => Torn(file) \/ tears' = tears + Tear
  PROVE  TearsCost'
<1>1. IsFiniteSet(Doomed) /\ Cardinality(Doomed) \in Nat /\ tears \in Nat
  BY DoomedIsFinite DEF SpoolTypeOK
<1>2. Cardinality(Doomed') <= Cardinality(Doomed) /\ Cardinality(Doomed') \in Nat
  BY <1>1, FS_Subset, FS_CardinalityType
<1>3. Tear = IF Torn(file') /\ ~Torn(file) THEN 1 ELSE 0
  BY DEF Tear
<1>4. Cardinality(Doomed) + (IF Torn(file) THEN 1 ELSE 0) <= tears
  BY DEF TearsCost
<1>5. Cardinality(Doomed') + (IF Torn(file') THEN 1 ELSE 0) <= tears'
  BY <1>1, <1>2, <1>3, <1>4
<1> QED  BY <1>5 DEF TearsCost

-----------------------------------------------------------------------------
(* Writes. *)

\* What Write and WriteFails have in common: some of the cells of the line.
Writing(w, n) ==
  /\ doing[w] = "write"
  /\ Grown(file, record[w], n, file')
  /\ written' = Append(written, record[w])
  /\ UNCHANGED <<synced, compacted, edge, acked, captured>>

LEMMA WritingIs ==
  ASSUME SpoolInv, NEW w \in Writers, NEW n \in 0..3, Writing(w, n)
  PROVE  /\ record[w] \in Records \ ToSet(written)
         /\ file' \in Seq(Symbols) /\ Len(file) <= Len(file')
         /\ compacted = Nothing
         /\ ToSet(written)' = ToSet(written) \cup {record[w]}
<1>1. record[w] \in Records \ ToSet(written)
  BY DEF SpoolInv, WrittenOnce, Writing
<1>2. file' \in Seq(Symbols) /\ Len(file) <= Len(file')
  BY DEF Writing, Grown, Continues
<1>3. compacted = Nothing
  BY DEF SpoolInv, CompactionKeeps, Writing
<1> QED  BY <1>1, <1>2, <1>3, WritesComeLast DEF SpoolInv, Writing

LEMMA WritingFollows ==
  ASSUME SpoolInv, NEW w \in Writers, NEW n \in 0..3, Writing(w, n)
  PROVE  FollowsWritten(file)'
<1> DEFINE place == Len(file) + 1
<1> PICK r : r = record[w]
  OBVIOUS
<1>1. r \in Records \ ToSet(written) /\ ToSet(written)' = ToSet(written) \cup {r}
  BY WritingIs
<1>2. /\ \A q \in ToSet(written) : WrittenAt(q)' = WrittenAt(q)
      /\ \A q \in ToSet(written) : WrittenAt(q) < WrittenAt(r)'
  BY <1>1, WritesComeLast DEF SpoolInv, Writing
<1>3. /\ Len(file) \in Nat
      /\ Starts(file') \subseteq Starts(file) \cup {place}
      /\ place \in Starts(file') => file'[place][1] = r
  BY <1>1, GrownPlaces DEF Writing
<1>4. ASSUME NEW i \in Starts(file)
      PROVE  i \in 1..Len(file) /\ file'[i][1] = file[i][1] /\ file[i][1] \in ToSet(written)
  <2>1. i \in 1..Len(file)
    BY <1>4, StartsAre DEF SpoolInv, SpoolTypeOK
  <2> QED  BY <1>4, <2>1 DEF SpoolInv, FollowsWritten, Writing, Grown, Continues
<1> HIDE DEF place
<1>5. \A i \in Starts(file') : file'[i][1] \in ToSet(written)'
  BY <1>1, <1>3, <1>4
<1>6. ASSUME NEW i \in Starts(file'), NEW j \in Starts(file'), i < j
      PROVE  (WrittenAt(file[i][1]) < WrittenAt(file[j][1]))'
  <2> PICK p, q : p = file'[i][1] /\ q = file'[j][1]
    OBVIOUS
  <2> SUFFICES WrittenAt(p)' < WrittenAt(q)'
    OBVIOUS
  <2>1. CASE i \in Starts(file) /\ j \in Starts(file)
    <3>1. WrittenAt(file[i][1]) < WrittenAt(file[j][1])
      BY <1>6, <2>1 DEF SpoolInv, FollowsWritten
    <3>2. p = file[i][1] /\ q = file[j][1] /\ p \in ToSet(written) /\ q \in ToSet(written)
      BY <1>4, <2>1
    <3> QED  BY <1>2, <3>1, <3>2
  <2>2. CASE i \in Starts(file) /\ j = place
    <3>1. p \in ToSet(written) /\ q = r
      BY <1>3, <1>4, <1>6, <2>2
    <3> QED  BY <1>2, <3>1
  <2>3. CASE i = place
    <3>1. j # place /\ j \in Starts(file)
      <4>1. place \in Nat
        BY <1>3 DEF place
      <4> QED  BY <1>3, <1>6, <2>3, <4>1
    <3>2. j \in 1..Len(file)
      BY <1>4, <3>1
    <3> QED  BY <1>3, <1>6, <2>3, <3>2 DEF place
  <2> QED  BY <1>3, <2>1, <2>2, <2>3
<1> QED  BY <1>5, <1>6 DEF FollowsWritten

\* Nothing that was reported captured leaves the queue or comes back to it.
LEMMA WritingKeepsQueue ==
  ASSUME SpoolInv, NEW w \in Writers, NEW n \in 0..3, Writing(w, n)
  PROVE  /\ \A q \in captured : q \in Queued <=> q \in Queued'
         /\ Queued' \subseteq Records
<1> DEFINE r == record[w]
           place == Len(file) + 1
<1>1. r \in Records \ ToSet(written) /\ captured \subseteq ToSet(written) /\ r \notin captured
  BY WritingIs DEF SpoolInv, SpoolTypeOK
<1>2. /\ file \in Seq(Symbols) /\ file' \in Seq(Symbols) /\ Continues(file, file')
      /\ Len(file) \in Nat /\ synced \in 0..Len(file)
      /\ DOMAIN file = 1..Len(file) /\ \A i \in 1..Len(file) : file'[i] = file[i]
  <2>1. file \in Seq(Symbols) /\ synced \in 0..Len(file)
    BY DEF SpoolInv, SpoolTypeOK
  <2>2. file' \in Seq(Symbols) /\ Continues(file, file')
    <3>1. Continues(file, file')
      BY DEF Writing, Grown
    <3> QED  BY <3>1, WritingIs
  <2>3. \A i \in 1..Len(file) : file'[i] = file[i]
    BY <2>2 DEF Continues
  <2>4. DOMAIN file = 1..Len(file) /\ Len(file) \in Nat
    BY ONLY <2>1
  <2> QED  BY <2>1, <2>2, <2>3, <2>4
<1>3. /\ Starts(file') \subseteq Starts(file) \cup {place}
      /\ place \in Starts(file') => file'[place][1] = r
      /\ Intact(file') \subseteq Intact(file) \cup {place}
  BY <1>1, GrownPlaces DEF Writing
<1>4. ASSUME NEW i \in Intact(file), file[i][1] \in captured
      PROVE  i \in Intact(file')
  <2>1. i \in Starts(file) /\ i \in Nat
    BY <1>2, <1>4 DEF Intact, Starts
  <2>2. i + 2 <= synced
    BY <1>4, <2>1 DEF SpoolInv, CapturedIsSynced
  <2>3. i + 2 <= Len(file)
    BY <1>2, <2>1, <2>2
  <2> QED  BY <1>2, <1>4, <2>1, <2>3, ContinuedPlaces
<1>5. ASSUME NEW i \in Intact(file'), file'[i][1] \in captured
      PROVE  i \in Intact(file)
  <2>1. i \in Starts(file')
    BY <1>5 DEF Intact, Starts
  <2>2. i # place
    BY <1>1, <1>3, <1>5, <2>1
  <2> QED  BY <1>3, <1>5, <2>2
<1>6. \A i \in Intact(file) : file'[i] = file[i]
  BY <1>2 DEF Intact
<1>7. Queued' = {file'[i][1] : i \in Intact(file')}
  BY DEF Queued
<1>8. ASSUME NEW q \in captured
      PROVE  q \in Queued <=> q \in Queued'
  <2>1. ASSUME q \in Queued PROVE q \in Queued'
    <3>1. PICK i \in Intact(file) : q = file[i][1]
      BY <2>1 DEF Queued
    <3> QED  BY <1>4, <1>6, <1>7, <1>8, <3>1
  <2>2. ASSUME q \in Queued' PROVE q \in Queued
    <3>1. PICK i \in Intact(file') : q = file'[i][1]
      BY <1>7, <2>2
    <3>2. i \in Intact(file)
      BY <1>5, <1>8, <3>1
    <3> QED  BY <1>6, <3>1, <3>2 DEF Queued
  <2> QED  BY <2>1, <2>2
<1>9. Queued' \subseteq Records
  <2>1. \A i \in Intact(file') : i \in Starts(file')
    BY DEF Intact, Starts
  <2> QED  BY <1>2, <1>7, <2>1, StartsAre
<1> QED  BY <1>8, <1>9

LEMMA WritingKeepsSynced ==
  ASSUME SpoolInv, NEW w \in Writers, NEW n \in 0..3, Writing(w, n)
  PROVE  /\ \A i \in Starts(file') :
              file'[i][1] \in captured => i \in Whole(file') /\ i + 2 <= synced
         /\ RecordsAt(file, Whole(file)) \subseteq RecordsAt(file', Whole(file'))
         /\ n = 3 => record[w] \in RecordsAt(file', Whole(file'))
<1> DEFINE r == record[w]
           place == Len(file) + 1
<1>1. r \in Records \ ToSet(written) /\ captured \subseteq ToSet(written) /\ r \notin captured
  BY WritingIs DEF SpoolInv, SpoolTypeOK
<1>2. /\ Starts(file') \subseteq Starts(file) \cup {place}
      /\ place \in Starts(file') => file'[place][1] = r
      /\ Whole(file') = Whole(file) \cup IF n = 3 THEN {place} ELSE {}
  BY <1>1, GrownPlaces DEF Writing
<1>3. \A i \in Starts(file) : file'[i] = file[i]
  <2>1. \A i \in Starts(file) : i \in 1..Len(file)
    BY StartsAre DEF SpoolInv, SpoolTypeOK
  <2> QED  BY <2>1 DEF Writing, Grown, Continues
<1> HIDE DEF r, place
<1>4. ASSUME NEW i \in Starts(file'), file'[i][1] \in captured
      PROVE  i \in Whole(file') /\ i + 2 <= synced
  <2>1. i \in Starts(file)
    BY <1>1, <1>2, <1>4
  <2>2. i \in Whole(file) /\ i + 2 <= synced
    BY <1>3, <1>4, <2>1 DEF SpoolInv, CapturedIsSynced
  <2> QED  BY <1>2, <2>2
<1>5. RecordsAt(file, Whole(file)) \subseteq RecordsAt(file', Whole(file'))
  <2>1. \A i \in Whole(file) : file'[i] = file[i] /\ i \in Whole(file')
    BY <1>2, <1>3 DEF Whole
  <2> QED  BY <2>1 DEF RecordsAt
<1>6. n = 3 => r \in RecordsAt(file', Whole(file'))
  <2> HAVE n = 3
  <2>1. place \in Whole(file') /\ place \in Starts(file')
    BY <1>2 DEF Whole
  <2> QED  BY <1>2, <2>1 DEF RecordsAt
<1> QED  BY <1>4, <1>5, <1>6 DEF r

LEMMA WritingCosts ==
  ASSUME SpoolInv, NEW w \in Writers, NEW n \in 0..3, Writing(w, n),
         IF n = 3 THEN tears' = tears ELSE tears' = tears + Tear
  PROVE  TearsCost'
<1> DEFINE r == record[w]
           place == Len(file) + 1
<1>1. r \in Records \ ToSet(written)
  BY WritingIs
<1>2. /\ place \in Starts(file') => file'[place][1] = r
      /\ Whole(file') = Whole(file) \cup IF n = 3 THEN {place} ELSE {}
      /\ Spoilt(file') = Spoilt(file) \cup IF n = 3 /\ Torn(file) THEN {place} ELSE {}
      /\ Torn(file') <=> IF n = 0 THEN Torn(file) ELSE n # 3
  BY <1>1, GrownPlaces DEF Writing
<1>3. \A i \in Spoilt(file) : file'[i] = file[i]
  <2>1. \A i \in Spoilt(file) : i \in 1..Len(file)
    BY StartsAre DEF SpoolInv, SpoolTypeOK, Spoilt, Whole
  <2> QED  BY <2>1 DEF Writing, Grown, Continues
<1>4. (captured \ (Queued \cup edge))' = captured \ (Queued \cup edge)
  <2>1. captured' = captured /\ edge' = edge
    BY DEF Writing
  <2> QED  BY <2>1, WritingKeepsQueue
<1> HIDE DEF r, place
<1>5. CASE n = 3 /\ Torn(file)
  <2>1. place \in Spoilt(file') /\ file'[place][1] = r
    BY <1>2, <1>5 DEF Whole
  <2>2. RecordsAt(file', Spoilt(file')) = RecordsAt(file, Spoilt(file)) \cup {r}
    BY <1>2, <1>3, <1>5, <2>1 DEF RecordsAt
  <2>3. Doomed' = Doomed \cup {r}
    BY <1>4, <2>2 DEF Doomed
  <2>4. IsFiniteSet(Doomed) /\ Cardinality(Doomed) \in Nat /\ tears \in Nat
    BY DoomedIsFinite DEF SpoolInv, SpoolTypeOK
  <2>5. Cardinality(Doomed') <= Cardinality(Doomed) + 1 /\ Cardinality(Doomed') \in Nat
    <3>1. IsFiniteSet(Doomed') /\ Cardinality(Doomed') =
            IF r \in Doomed THEN Cardinality(Doomed) ELSE Cardinality(Doomed) + 1
      BY <2>3, <2>4, FS_AddElement
    <3> QED  BY <2>4, <3>1
  <2>6. Cardinality(Doomed) + 1 <= tears /\ tears' = tears /\ ~Torn(file')
    BY <1>2, <1>5 DEF SpoolInv, TearsCost
  <2> QED  BY <2>4, <2>5, <2>6 DEF TearsCost
<1>6. CASE ~(n = 3 /\ Torn(file))
  <2>1. RecordsAt(file', Spoilt(file')) = RecordsAt(file, Spoilt(file))
    BY <1>2, <1>3, <1>6 DEF RecordsAt
  <2>2. Doomed' \subseteq Doomed
    BY <1>4, <2>1 DEF Doomed
  <2>3. Torn(file') => Torn(file) \/ tears' = tears + Tear
    BY <1>2
  <2> QED  BY <2>2, <2>3, CostStays DEF SpoolInv
<1> QED  BY <1>5, <1>6

-----------------------------------------------------------------------------
(* Power cuts. *)

LEMMA CutIsContinued ==
  ASSUME SpoolInv, PowerCut
  PROVE  /\ Continues(file', file) /\ synced' = Len(file') /\ synced <= Len(file')
         /\ Len(file') \in Nat
<1>1. PICK n \in synced..Len(file) : file' = SubSeq(file, 1, n) /\ synced' = n
  BY DEF PowerCut
<1>2. file \in Seq(Symbols) /\ synced \in Nat /\ n \in Nat /\ n <= Len(file) /\ Len(file) \in Nat
      /\ synced <= n
  BY <1>1 DEF SpoolInv, SpoolTypeOK
<1>3. /\ SubSeq(file, 1, n) \in Seq(Symbols) /\ Len(SubSeq(file, 1, n)) = n
      /\ \A i \in 1..n : SubSeq(file, 1, n)[i] = file[i]
  BY <1>2, FirstCells
<1> QED  BY <1>1, <1>2, <1>3 DEF Continues

LEMMA CutPlaces ==
  ASSUME SpoolInv, PowerCut
  PROVE  /\ \A i \in Starts(file') : i \in Starts(file) /\ file'[i] = file[i]
         /\ \A i \in Spoilt(file') : i \in Spoilt(file)
         /\ \A i \in Starts(file) : file[i][1] \in captured =>
              /\ file'[i] = file[i] /\ i \in Whole(file') /\ i + 2 <= Len(file')
              /\ i \in Intact(file) <=> i \in Intact(file')
<1>1. /\ Continues(file', file) /\ synced <= Len(file') /\ Len(file') \in Nat /\ synced \in Nat
      /\ DOMAIN file' = 1..Len(file')
  BY CutIsContinued DEF SpoolInv, SpoolTypeOK, Continues
<1>2. \A i \in 1..Len(file') : file'[i] = file[i]
  BY <1>1 DEF Continues
<1>3. \A i \in Starts(file') : i \in Starts(file) /\ file'[i] = file[i]
  <2>1. \A i \in Starts(file') : i \in 1..Len(file')
    BY <1>1 DEF Starts
  <2> QED  BY <1>1, <1>2, <2>1, ContinuedPlaces
<1>4. ASSUME NEW i \in Spoilt(file') PROVE i \in Spoilt(file)
  <2>1. i \in Nat /\ i + 2 <= Len(file')
    BY <1>1 DEF Spoilt, Whole, Starts
  <2> QED  BY <1>1, <2>1, ContinuedPlaces
<1>5. ASSUME NEW i \in Starts(file), file[i][1] \in captured
      PROVE  /\ file'[i] = file[i] /\ i \in Whole(file') /\ i + 2 <= Len(file')
             /\ i \in Intact(file) <=> i \in Intact(file')
  <2>1. i \in Whole(file) /\ i + 2 <= synced /\ i \in Nat /\ i # 0
    BY <1>5, StartsAre DEF SpoolInv, SpoolTypeOK, CapturedIsSynced
  <2>2. i + 2 <= Len(file') /\ i \in 1..Len(file')
    BY <1>1, <2>1
  <2> QED  BY <1>1, <1>2, <2>1, <2>2, ContinuedPlaces
<1> QED  BY <1>3, <1>4, <1>5

LEMMA CutKeepsQueue ==
  ASSUME SpoolInv, PowerCut
  PROVE  /\ \A q \in captured : q \in Queued <=> q \in Queued'
         /\ Queued' \subseteq Records
<1>1. Queued' = {file'[i][1] : i \in Intact(file')}
  BY DEF Queued
<1>2. Intact(file) \subseteq Starts(file) /\ Intact(file') \subseteq Starts(file')
  BY DEF Intact, Starts
<1>3. ASSUME NEW q \in captured, q \in Queued PROVE q \in Queued'
  <2>1. PICK i \in Intact(file) : q = file[i][1]
    BY <1>3 DEF Queued
  <2>2. i \in Intact(file') /\ file'[i] = file[i]
    BY <1>2, <1>3, <2>1, CutPlaces
  <2> QED  BY <1>1, <2>1, <2>2
<1>4. ASSUME NEW q \in captured, q \in Queued' PROVE q \in Queued
  <2>1. PICK i \in Intact(file') : q = file'[i][1]
    BY <1>1, <1>4
  <2>2. i \in Starts(file) /\ file'[i] = file[i]
    BY <1>2, <2>1, CutPlaces
  <2>3. i \in Intact(file)
    BY <1>4, <2>1, <2>2, CutPlaces
  <2> QED  BY <2>1, <2>2, <2>3 DEF Queued
<1>5. Queued' \subseteq Records
  <2>1. file' \in Seq(Symbols)
    BY CutIsContinued DEF Continues
  <2> QED  BY <1>1, <1>2, <2>1, StartsAre
<1> QED  BY <1>3, <1>4, <1>5

LEMMA CutKeepsInv ==
  ASSUME SpoolInv, PowerCut
  PROVE  FollowsWritten(file)' /\ CapturedIsSynced' /\ TearsCost'
<1>1. written' = written /\ captured' = captured /\ edge' = edge /\ tears' = tears + Tear
      /\ doing' = [w \in Writers |-> "idle"]
  BY DEF PowerCut
<1>2. FollowsWritten(file)'
  <2>1. \A i \in Starts(file') : i \in Starts(file) /\ file'[i] = file[i]
    BY CutPlaces
  <2> QED  BY <1>1, <2>1 DEF SpoolInv, FollowsWritten, WrittenAt
<1>3. CapturedIsSynced'
  <2>1. \A i \in Starts(file') :
          file'[i][1] \in captured' => i \in Whole(file') /\ i + 2 <= synced'
    BY <1>1, CutIsContinued, CutPlaces
  <2> QED  BY <1>1, <2>1 DEF CapturedIsSynced
<1>4. TearsCost'
  <2>1. RecordsAt(file', Spoilt(file')) \subseteq RecordsAt(file, Spoilt(file))
    <3>1. \A i \in Spoilt(file') : i \in Starts(file')
      BY DEF Spoilt, Whole
    <3> QED  BY <3>1, CutPlaces DEF RecordsAt
  <2>2. Doomed' \subseteq Doomed
    BY <1>1, <2>1, CutKeepsQueue DEF Doomed
  <2> QED  BY <1>1, <2>2, CostStays DEF SpoolInv, Tear
<1> QED  BY <1>2, <1>3, <1>4

-----------------------------------------------------------------------------
(* Syncs and replays. *)

LEMMA SyncKeepsInv ==
  ASSUME SpoolInv, NEW w \in Writers, Sync(w)
  PROVE  /\ record[w] \in ToSet(written)
         /\ CapturedIsSynced' /\ TearsCost'
<1>1. /\ doing[w] = "sync" /\ synced' = Len(file) /\ captured' = captured \cup {record[w]}
      /\ doing' = [doing EXCEPT ![w] = "idle"] /\ record' = [record EXCEPT ![w] = Nothing]
      /\ UNCHANGED <<file, edge, written, tears>>
  BY DEF Sync
<1>2. PICK i \in Whole(file) : record[w] = file[i][1]
  BY <1>1 DEF SpoolInv, CapturedIsSynced, RecordsAt
<1>3. i \in Starts(file) /\ i + 2 <= Len(file) /\ file \in Seq(Symbols) /\ Len(file) \in Nat
      /\ synced \in Nat /\ synced <= Len(file)
  BY DEF Whole, SpoolInv, SpoolTypeOK
<1>4. record[w] \in ToSet(written)
  BY <1>2, <1>3 DEF SpoolInv, FollowsWritten
<1>5. CapturedIsSynced'
  <2>1. ASSUME NEW j \in Starts(file), file[j][1] \in captured'
        PROVE  j \in Whole(file) /\ j + 2 <= Len(file)
    <3>1. CASE file[j][1] \in captured
      <4>1. j \in Whole(file)
        BY <3>1 DEF SpoolInv, CapturedIsSynced
      <4> QED  BY <4>1 DEF Whole
    <3>2. CASE file[j][1] = record[w]
      <4>1. j = i
        BY <1>2, <1>3, <3>2, StartsOnce DEF SpoolInv
      <4> QED  BY <1>2, <1>3, <4>1
    <3> QED  BY <1>1, <2>1, <3>1, <3>2
  <2>2. ASSUME NEW v \in Writers, doing'[v] = "sync"
        PROVE  record'[v] \in RecordsAt(file, Whole(file))
    <3>1. v # w /\ doing[v] = "sync" /\ record'[v] = record[v]
      BY <1>1, <2>2 DEF SpoolInv, SpoolTypeOK
    <3> QED  BY <3>1 DEF SpoolInv, CapturedIsSynced
  <2> QED  BY <1>1, <2>1, <2>2 DEF CapturedIsSynced
<1>6. TearsCost'
  <2>1. record[w] \in Queued \/ record[w] \in RecordsAt(file, Spoilt(file))
    BY <1>2, <1>3, WholeIsIntactOrSpoilt DEF Queued, RecordsAt
  <2>2. Doomed' \subseteq Doomed
    BY <1>1, <2>1 DEF Doomed, Queued
  <2> QED  BY <1>1, <2>2, CostStays DEF SpoolInv
<1> QED  BY <1>4, <1>5, <1>6

LEMMA ReplayKeepsInv ==
  ASSUME SpoolInv, NEW r \in Records, Replay(r)
  PROVE  CompactionKeeps' /\ TearsCost'
<1>1. edge' = edge \cup {r} /\ acked \subseteq acked'
      /\ UNCHANGED <<file, doing, record, compacted, captured, written, tears>>
  BY DEF Replay, spool, appending
<1>2. Queued' = Queued
  BY <1>1 DEF Queued
<1>3. CompactionKeeps'
  BY <1>1, <1>2 DEF SpoolInv, CompactionKeeps, FollowsWritten, WrittenAt
<1>4. Doomed' \subseteq Doomed
  BY <1>1, <1>2 DEF Doomed
<1> QED  BY <1>1, <1>3, <1>4, CostStays DEF SpoolInv

-----------------------------------------------------------------------------
(* Compaction. *)

LEMMA CompactKeepsInv ==
  ASSUME SpoolInv, Compact
  PROVE  compacted' \in Seq(Symbols) /\ CompactionKeeps'
<1> DEFINE places == {i \in Intact(file) : file[i][1] \notin acked}
           a == Ascending(places)
<1> PICK rs : rs = Remaining
  OBVIOUS
<1> PICK g : g = Lines(rs)
  OBVIOUS
<1>1. /\ compacted' = g /\ \A w \in Writers : doing[w] = "idle"
      /\ UNCHANGED <<file, doing, acked, written>>
  BY DEF Compact, Idle, spool, appending
<1>2. file \in Seq(Symbols) /\ places \in SUBSET Starts(file)
  BY DEF SpoolInv, SpoolTypeOK, Intact, Starts
<1>3. /\ rs \in Seq(Records)
      /\ \A k \in 1..Len(rs) : a[k] \in places /\ rs[k] = file[a[k]][1]
      /\ \A j, k \in 1..Len(rs) : j < k => a[j] < a[k]
      /\ \A i \in places : \E k \in 1..Len(rs) : rs[k] = file[i][1]
  <2>1. rs = InOrder(file, places)
    BY DEF Remaining
  <2> HIDE DEF places
  <2> QED  BY ONLY <1>2, <2>1, InOrderIs
<1>4. /\ \A i \in Starts(g) : \E k \in 1..Len(rs) : i = 3 * k - 2 /\ g[i][1] = rs[k]
      /\ \A k \in 1..Len(rs) : 3 * k - 2 \in Starts(g) /\ g[3 * k - 2][1] = rs[k]
      /\ Starts(g) = Intact(g) /\ Starts(g) \subseteq Whole(g)
      /\ ~Torn(g)
  <2>1. rs \in Seq(Records)
    BY <1>3
  <2> QED  BY ONLY <2>1, g = Lines(rs), LinesPlaces
<1>5. g \in Seq(Symbols)
  BY <1>3, LinesAre
<1> HIDE DEF a
<1>6. RecordsAt(g, Intact(g)) \subseteq Queued
  BY <1>3, <1>4 DEF RecordsAt, Queued
<1>7. Queued \subseteq RecordsAt(g, Intact(g)) \cup acked
  <2> SUFFICES ASSUME NEW i \in Intact(file), file[i][1] \notin acked
               PROVE  file[i][1] \in RecordsAt(g, Intact(g))
    BY DEF Queued
  <2>1. PICK k \in 1..Len(rs) : rs[k] = file[i][1]
    BY <1>3
  <2>2. 3 * k - 2 \in Intact(g) /\ g[3 * k - 2][1] = file[i][1]
    BY <1>4, <2>1
  <2> QED  BY <2>2 DEF RecordsAt
<1>8. FollowsWritten(g)
  <2>1. \A k \in 1..Len(rs) : a[k] \in Starts(file) /\ rs[k] = file[a[k]][1]
    BY <1>2, <1>3
  <2> HIDE DEF places
  <2>2. \A i \in Starts(g) : g[i][1] \in ToSet(written)
    BY <1>4, <2>1 DEF SpoolInv, FollowsWritten
  <2>3. ASSUME NEW i \in Starts(g), NEW j \in Starts(g), i < j
        PROVE  WrittenAt(g[i][1]) < WrittenAt(g[j][1])
    <3>1. PICK k \in 1..Len(rs) : i = 3 * k - 2 /\ g[i][1] = rs[k]
      BY <1>4
    <3>2. PICK l \in 1..Len(rs) : j = 3 * l - 2 /\ g[j][1] = rs[l]
      BY <1>4
    <3>3. k < l
      BY <2>3, <3>1, <3>2
    <3>4. WrittenAt(file[a[k]][1]) < WrittenAt(file[a[l]][1])
      BY <1>3, <2>1, <3>3 DEF SpoolInv, FollowsWritten
    <3> QED  BY <2>1, <3>1, <3>2, <3>4
  <2> QED  BY <2>2, <2>3 DEF FollowsWritten
<1>9. Queued' = Queued
  BY <1>1 DEF Queued
<1>10. CompactionKeeps'
  BY <1>1, <1>4, <1>6, <1>7, <1>8, <1>9 DEF CompactionKeeps, FollowsWritten, WrittenAt
<1> QED  BY <1>1, <1>5, <1>10

LEMMA RenamedQueue ==
  ASSUME SpoolInv, Rename
  PROVE  Queued' \subseteq Queued /\ Queued \subseteq Queued' \cup edge
<1>1. file' = compacted /\ Queued' = RecordsAt(compacted, Intact(compacted))
  BY DEF Rename, Queued, RecordsAt
<1> QED  BY <1>1 DEF SpoolInv, CompactionKeeps, Rename, SpoolTypeOK

LEMMA RenameKeepsInv ==
  ASSUME SpoolInv, Rename
  PROVE  FollowsWritten(file)' /\ CapturedIsSynced' /\ TearsCost'
<1>1. /\ compacted # Nothing /\ file' = compacted /\ synced' = Len(compacted)
      /\ compacted \in Seq(Symbols)
      /\ UNCHANGED <<doing, record, edge, captured, written, tears>>
  BY DEF Rename, appending, SpoolInv, SpoolTypeOK
<1>2. /\ \A w \in Writers : doing[w] = "idle"
      /\ Starts(compacted) = Intact(compacted) /\ Starts(compacted) \subseteq Whole(compacted)
      /\ ~Torn(compacted) /\ FollowsWritten(compacted)
  BY <1>1 DEF SpoolInv, CompactionKeeps
<1>3. FollowsWritten(file)'
  BY <1>1, <1>2 DEF FollowsWritten, WrittenAt
<1>4. CapturedIsSynced'
  BY <1>1, <1>2 DEF CapturedIsSynced, Whole
<1>5. Spoilt(compacted) = {}
  <2> SUFFICES ASSUME NEW i \in Spoilt(compacted) PROVE FALSE
    OBVIOUS
  <2>1. i \in Intact(compacted) /\ i # 1 /\ compacted[i - 1] # NL
    BY <1>2 DEF Spoilt, Whole
  <2> QED  BY <2>1 DEF Intact
<1>6. Doomed' \subseteq Doomed
  BY <1>1, <1>5, RenamedQueue DEF Doomed, RecordsAt
<1>7. TearsCost'
  BY <1>1, <1>2, <1>6, CostStays DEF SpoolInv
<1> QED  BY <1>3, <1>4, <1>7

-----------------------------------------------------------------------------
(* Every step keeps the invariant. *)

LEMMA WritesAreWriting ==
  ASSUME SpoolInv, NEW w \in Writers
  PROVE  /\ Write(w) => Writing(w, 3) /\ tears' = tears
         /\ WriteFails(w) => \E n \in 0..2 : Writing(w, n) /\ tears' = tears + Tear
<1>1. (doing[w] = "write" => record[w] \in Records) /\ file \in Seq(Symbols)
  BY DEF SpoolInv, SpoolTypeOK, WrittenOnce
<1>2. ASSUME Write(w) PROVE Writing(w, 3) /\ tears' = tears
  BY <1>1, <1>2, WritingGrows DEF Write, Writing
<1>3. ASSUME WriteFails(w) PROVE \E n \in 0..2 : Writing(w, n) /\ tears' = tears + Tear
  <2>1. PICK n \in 0..2 : file' = file \o SubSeq(Line(record[w]), 1, n)
    BY <1>3 DEF WriteFails
  <2>2. n \in 0..3 /\ record[w] \in Records
    BY <1>1, <1>3 DEF WriteFails
  <2>3. Grown(file, record[w], n, file')
    BY <1>1, <2>1, <2>2, AppendingGrows
  <2> QED  BY <1>3, <2>3 DEF WriteFails, Writing
<1> QED  BY <1>2, <1>3

LEMMA TearIs == Tear \in {0, 1}
BY DEF Tear

LEMMA SpoolTypes ==
  ASSUME SpoolInv, [SpoolNext]_spoolVars
  PROVE  SpoolTypeOK'
<1> DEFINE T == SpoolTypeOK
<1>1. SpoolTypeOK /\ MaxCuts \in Nat
  BY SpoolAssumption DEF SpoolInv
<1>2. CASE UNCHANGED spoolVars
  BY <1>1, <1>2 DEF SpoolTypeOK, spoolVars, spool, appending
<1>3. ASSUME NEW w \in Writers, NEW r \in Records, StartAppend(w, r) PROVE T'
  BY <1>1, <1>3 DEF SpoolTypeOK, StartAppend, spool
<1>4. ASSUME NEW w \in Writers, Write(w) \/ WriteFails(w) PROVE T'
  <2>1. PICK n \in 0..3 : Writing(w, n)
    BY <1>4, WritesAreWriting
  <2>2. /\ record[w] \in Records /\ ToSet(written) \subseteq ToSet(written)'
        /\ file' \in Seq(Symbols) /\ Len(file) <= Len(file') /\ written' = Append(written, record[w])
        /\ UNCHANGED <<synced, compacted, edge, acked, captured>>
    BY <2>1, WritingIs DEF Writing
  <2>3. synced' \in 0..Len(file')
    <3>1. Len(file) \in Nat /\ Len(file') \in Nat /\ synced \in 0..Len(file)
      BY <1>1, <2>2 DEF SpoolTypeOK
    <3> QED  BY <2>2, <3>1
  <2>4. written' \in Seq(Records) /\ captured' \subseteq ToSet(written)'
    BY <1>1, <2>2 DEF SpoolTypeOK
  <2>5. /\ doing' \in [Writers -> {"idle", "write", "sync"}]
        /\ record' \in [Writers -> Records \cup {Nothing}]
    BY <1>1, <1>4 DEF SpoolTypeOK, Write, WriteFails
  <2>6. tears' \in 0..cuts' /\ cuts' \in 0..MaxCuts
    BY <1>1, <1>4, TearIs DEF SpoolTypeOK, Write, WriteFails
  <2> QED  BY <1>1, <2>2, <2>3, <2>4, <2>5, <2>6 DEF SpoolTypeOK
<1>5. ASSUME NEW w \in Writers, Sync(w) PROVE T'
  <2>1. record[w] \in ToSet(written)
    BY <1>5, SyncKeepsInv
  <2>2. Len(file) \in 0..Len(file)
    BY <1>1 DEF SpoolTypeOK
  <2> QED  BY <1>1, <1>5, <2>1, <2>2 DEF SpoolTypeOK, Sync, ToSet
<1>6. ASSUME NEW w \in Writers, SyncFails(w) PROVE T'
  BY <1>1, <1>6 DEF SpoolTypeOK, SyncFails, spool
<1>7. ASSUME NEW r \in Records, Replay(r) PROVE T'
  BY <1>1, <1>7 DEF SpoolTypeOK, Replay, spool, appending
<1>8. CASE Compact
  <2>1. compacted' \in Seq(Symbols)
    BY <1>8, CompactKeepsInv
  <2> QED  BY <1>1, <1>8, <2>1 DEF SpoolTypeOK, Compact, spool, appending
<1>9. CASE Rename
  <2>1. compacted \in Seq(Symbols) /\ Len(compacted) \in 0..Len(compacted)
    BY <1>1, <1>9 DEF SpoolTypeOK, Rename
  <2> QED  BY <1>1, <1>9, <2>1 DEF SpoolTypeOK, Rename, appending
<1>10. CASE PowerCut
  <2>1. file' \in Seq(Symbols) /\ synced' \in 0..Len(file')
    BY <1>10, CutIsContinued DEF Continues
  <2>2. tears' \in 0..cuts' /\ cuts' \in 0..MaxCuts
    BY <1>1, <1>10, TearIs DEF SpoolTypeOK, PowerCut
  <2> QED  BY <1>1, <1>10, <2>1, <2>2 DEF SpoolTypeOK, PowerCut
<1> QED
  BY <1>2, <1>3, <1>4, <1>5, <1>6, <1>7, <1>8, <1>9, <1>10 DEF SpoolNext

LEMMA WritersKeepApart ==
  ASSUME SpoolInv, [SpoolNext]_spoolVars
  PROVE  WrittenOnce'
<1>1. SpoolTypeOK /\ WrittenOnce /\ Nothing \notin Records
  BY SpoolAssumption DEF SpoolInv
<1>2. CASE UNCHANGED <<doing, record, written>>
  BY <1>1, <1>2 DEF WrittenOnce, ToSet
<1>3. ASSUME NEW w \in Writers, NEW r \in Records, StartAppend(w, r) PROVE WrittenOnce'
  <2>1. /\ r \notin ToSet(written) /\ \A v \in Writers : r # record[v]
        /\ doing' = [doing EXCEPT ![w] = "write"] /\ record' = [record EXCEPT ![w] = r]
        /\ written' = written
    BY <1>3 DEF StartAppend
  <2>2. /\ \A v \in Writers : doing'[v] = IF v = w THEN "write" ELSE doing[v]
        /\ \A v \in Writers : record'[v] = IF v = w THEN r ELSE record[v]
    BY <1>1, <2>1 DEF SpoolTypeOK
  <2> QED  BY <1>1, <2>1, <2>2 DEF WrittenOnce, ToSet
<1>4. ASSUME NEW w \in Writers, Write(w) \/ WriteFails(w) PROVE WrittenOnce'
  <2>1. PICK n \in 0..3 : Writing(w, n)
    BY <1>4, WritesAreWriting
  <2> PICK r : r = record[w]
    OBVIOUS
  <2>2. r \in Records \ ToSet(written) /\ written' = Append(written, r) /\ doing[w] = "write"
    BY <2>1, WritingIs DEF Writing
  <2>3. /\ ToSet(written)' = ToSet(written) \cup {r}
        /\ \A j, k \in DOMAIN written' : written'[j] = written'[k] => j = k
    BY <1>1, <2>2, WritesComeLast
  <2>4. \A v \in Writers \ {w} : doing'[v] = doing[v] /\ record'[v] = record[v]
    BY <1>1, <1>4 DEF SpoolTypeOK, Write, WriteFails
  <2>5. \/ doing'[w] = "sync" /\ record'[w] = r
        \/ doing'[w] = "idle" /\ record'[w] = Nothing
    BY <1>1, <1>4 DEF SpoolTypeOK, Write, WriteFails
  <2>6. \A v \in Writers \ {w} : record[v] # r
    BY <1>1, <2>2 DEF WrittenOnce
  <2> QED  BY <1>1, <2>2, <2>3, <2>4, <2>5, <2>6 DEF WrittenOnce
<1>5. ASSUME NEW w \in Writers, Sync(w) \/ SyncFails(w) PROVE WrittenOnce'
  <2>1. /\ doing' = [doing EXCEPT ![w] = "idle"] /\ record' = [record EXCEPT ![w] = Nothing]
        /\ written' = written
    BY <1>5 DEF Sync, SyncFails
  <2>2. /\ \A v \in Writers : doing'[v] = IF v = w THEN "idle" ELSE doing[v]
        /\ \A v \in Writers : record'[v] = IF v = w THEN Nothing ELSE record[v]
    BY <1>1, <2>1 DEF SpoolTypeOK
  <2> QED  BY <1>1, <2>1, <2>2 DEF WrittenOnce, ToSet
<1>6. CASE PowerCut
  BY <1>1, <1>6 DEF WrittenOnce, ToSet, PowerCut
<1>7. CASE Compact \/ Rename \/ \E r \in Records : Replay(r)
  BY <1>2, <1>7 DEF Compact, Rename, Replay, appending
<1>8. CASE UNCHANGED spoolVars
  BY <1>2, <1>8 DEF spoolVars, appending
<1> QED
  BY <1>3, <1>4, <1>5, <1>6, <1>7, <1>8 DEF SpoolNext

\* A step that leaves the file, what is captured and what is delivered alone.
LEMMA AsideKeepsInv ==
  ASSUME SpoolInv, UNCHANGED <<file, synced, edge, captured, written, tears>>,
         \A w \in Writers : doing'[w] = "sync" => doing[w] = "sync" /\ record'[w] = record[w]
  PROVE  FollowsWritten(file)' /\ CapturedIsSynced' /\ TearsCost' /\ Queued' = Queued
<1>1. FollowsWritten(file)'
  BY DEF SpoolInv, FollowsWritten, WrittenAt
<1>2. CapturedIsSynced'
  BY DEF SpoolInv, CapturedIsSynced
<1>3. Queued' = Queued
  BY DEF Queued
<1>4. TearsCost'
  BY <1>3 DEF SpoolInv, TearsCost, Doomed
<1> QED  BY <1>1, <1>2, <1>3, <1>4

LEMMA SpoolInvStep ==
  ASSUME SpoolInv, [SpoolNext]_spoolVars
  PROVE  SpoolInv'
<1> DEFINE Rest == FollowsWritten(file) /\ CapturedIsSynced /\ CompactionKeeps /\ TearsCost
<1>1. SpoolTypeOK' /\ WrittenOnce'
  BY SpoolTypes, WritersKeepApart
<1>2. SpoolTypeOK /\ CompactionKeeps
  BY DEF SpoolInv
<1>3. ASSUME UNCHANGED spoolVars PROVE Rest'
  <2>1. /\ UNCHANGED <<file, synced, edge, captured, written, tears>>
        /\ UNCHANGED <<doing, record, compacted, acked>>
    BY <1>3 DEF spoolVars, spool, appending
  <2>2. FollowsWritten(file)' /\ CapturedIsSynced' /\ TearsCost' /\ Queued' = Queued
    BY <2>1, AsideKeepsInv
  <2>3. CompactionKeeps'
    BY <1>2, <2>1, <2>2 DEF CompactionKeeps, FollowsWritten, WrittenAt
  <2> QED  BY <2>2, <2>3
<1>4. ASSUME NEW w \in Writers, NEW r \in Records, StartAppend(w, r) PROVE Rest'
  <2>1. /\ UNCHANGED <<file, synced, edge, captured, written, tears>>
        /\ compacted' = Nothing
        /\ \A v \in Writers : doing'[v] = "sync" => doing[v] = "sync" /\ record'[v] = record[v]
    BY <1>2, <1>4 DEF StartAppend, spool, SpoolTypeOK
  <2> QED  BY <2>1, AsideKeepsInv DEF CompactionKeeps
<1>5. ASSUME NEW w \in Writers, SyncFails(w) PROVE Rest'
  <2>1. /\ UNCHANGED <<file, synced, edge, captured, written, tears>>
        /\ compacted' = Nothing
        /\ \A v \in Writers : doing'[v] = "sync" => doing[v] = "sync" /\ record'[v] = record[v]
    BY <1>2, <1>5 DEF SyncFails, spool, SpoolTypeOK, CompactionKeeps
  <2> QED  BY <2>1, AsideKeepsInv DEF CompactionKeeps
<1>6. ASSUME NEW w \in Writers, Write(w) \/ WriteFails(w) PROVE Rest'
  <2>1. PICK n \in 0..3 : /\ Writing(w, n)
                          /\ IF n = 3 THEN tears' = tears ELSE tears' = tears + Tear
                          /\ n = 3 \/ WriteFails(w)
    <3>1. CASE Write(w)
      BY <3>1, WritesAreWriting
    <3>2. CASE WriteFails(w)
      <4>1. PICK n \in 0..2 : Writing(w, n) /\ tears' = tears + Tear
        BY <3>2, WritesAreWriting
      <4>2. n \in 0..3 /\ n # 3
        OBVIOUS
      <4> QED  BY <3>2, <4>1, <4>2
    <3> QED  BY <1>6, <3>1, <3>2
  <2>2. FollowsWritten(file)' /\ TearsCost'
    BY <2>1, WritingFollows, WritingCosts
  <2>3. compacted' = Nothing /\ captured' = captured /\ synced' = synced
    BY <2>1, WritingIs DEF Writing
  <2>4. /\ \A i \in Starts(file') :
             file'[i][1] \in captured => i \in Whole(file') /\ i + 2 <= synced
        /\ RecordsAt(file, Whole(file)) \subseteq RecordsAt(file', Whole(file'))
        /\ n = 3 => record[w] \in RecordsAt(file', Whole(file'))
    BY <2>1, WritingKeepsSynced
  <2>5. ASSUME NEW v \in Writers, doing'[v] = "sync"
        PROVE  \/ v = w /\ n = 3 /\ record'[v] = record[w]
               \/ doing[v] = "sync" /\ record'[v] = record[v]
    BY <1>2, <1>6, <2>1, <2>5 DEF SpoolTypeOK, Write, WriteFails
  <2>6. CapturedIsSynced'
    BY <2>3, <2>4, <2>5 DEF SpoolInv, CapturedIsSynced
  <2> QED  BY <2>2, <2>3, <2>6 DEF CompactionKeeps
<1>7. ASSUME NEW w \in Writers, Sync(w) PROVE Rest'
  <2>1. compacted' = Nothing /\ file' = file /\ written' = written
    BY <1>2, <1>7 DEF Sync, CompactionKeeps
  <2>2. FollowsWritten(file)'
    BY <2>1 DEF SpoolInv, FollowsWritten, WrittenAt
  <2> QED  BY <1>7, <2>1, <2>2, SyncKeepsInv DEF CompactionKeeps
<1>8. ASSUME NEW r \in Records, Replay(r) PROVE Rest'
  <2>1. UNCHANGED <<file, synced, doing, record, captured, written>>
    BY <1>8 DEF Replay, spool, appending
  <2>2. FollowsWritten(file)' /\ CapturedIsSynced'
    BY <2>1 DEF SpoolInv, FollowsWritten, WrittenAt, CapturedIsSynced
  <2> QED  BY <1>8, <2>2, ReplayKeepsInv
<1>9. ASSUME Compact PROVE Rest'
  <2>1. UNCHANGED <<file, synced, edge, captured, written, tears>> /\ UNCHANGED <<doing, record>>
    BY <1>9 DEF Compact, spool, appending
  <2> QED  BY <1>9, <2>1, AsideKeepsInv, CompactKeepsInv
<1>10. ASSUME Rename PROVE Rest'
  <2>1. compacted' = Nothing
    BY <1>10 DEF Rename
  <2> QED  BY <1>10, <2>1, RenameKeepsInv DEF CompactionKeeps
<1>11. ASSUME PowerCut PROVE Rest'
  <2>1. compacted' = Nothing
    BY <1>11 DEF PowerCut
  <2> QED  BY <1>11, <2>1, CutKeepsInv DEF CompactionKeeps
<1>12. Rest'
  BY <1>3, <1>4, <1>5, <1>6, <1>7, <1>8, <1>9, <1>10, <1>11 DEF SpoolNext
<1> QED  BY <1>1, <1>12 DEF SpoolInv

LEMMA SpoolInitInv == SpoolInit => SpoolInv
<1> SUFFICES ASSUME SpoolInit PROVE SpoolInv
  OBVIOUS
<1>1. /\ file = <<>> /\ Len(file) = 0 /\ DOMAIN file = {} /\ written = <<>>
      /\ DOMAIN written = {} /\ captured = {} /\ edge = {} /\ tears = 0 /\ compacted = Nothing
  BY DEF SpoolInit
<1>2. Starts(file) = {}
  BY <1>1 DEF Starts
<1>3. SpoolTypeOK
  BY SpoolAssumption DEF SpoolInit, SpoolTypeOK, ToSet
<1>4. WrittenOnce
  BY <1>1 DEF SpoolInit, WrittenOnce
<1>5. Doomed = {} /\ ~Torn(file)
  BY <1>1, <1>2 DEF Doomed, RecordsAt, Spoilt, Whole, Torn
<1>6. TearsCost
  BY <1>1, <1>5, FS_EmptySet DEF TearsCost
<1> QED
  BY <1>1, <1>2, <1>3, <1>4, <1>6
     DEF SpoolInit, SpoolInv, FollowsWritten, CapturedIsSynced, CompactionKeeps

-----------------------------------------------------------------------------
(* The spool: its theorems. *)

LEMMA SpoolInvariant == SpoolSpec => []SpoolInv
BY SpoolInitInv, SpoolInvStep, PTL DEF SpoolSpec

\* Whatever is interrupted, the spool keeps its types: what is synced is in the
\* file, what was reported captured was written, an acknowledged record is at
\* the edge (append, remove_acknowledged).
THEOREM SpoolTypeCorrect == SpoolSpec => []SpoolTypeOK
<1>1. SpoolInv => SpoolTypeOK
  BY DEF SpoolInv
<1> QED  BY <1>1, SpoolInvariant, PTL

LEMMA IntactAreStarts ==
  ASSUME NEW f
  PROVE  Intact(f) \subseteq Starts(f)
BY DEF Intact, Starts

\* A load returns the records in the order of their appends and none twice,
\* however lines were torn and compactions interrupted (load).
THEOREM LoadsKeepOrder == SpoolSpec => []LoadsInOrder
<1>1. SpoolInv => LoadsInOrder
  <2> SUFFICES ASSUME SpoolInv, NEW j \in DOMAIN Load(file), NEW k \in DOMAIN Load(file), j < k
               PROVE  WrittenAt(Load(file)[j]) < WrittenAt(Load(file)[k])
    BY DEF LoadsInOrder, WrittenAt
  <2> DEFINE s == InOrder(file, Intact(file))
             a == Ascending(Intact(file))
  <2>1. /\ s \in Seq(Records)
        /\ \A i \in 1..Len(s) : a[i] \in Intact(file) /\ s[i] = file[a[i]][1]
        /\ \A i, l \in 1..Len(s) : i < l => a[i] < a[l]
    BY InOrderIs, IntactAreStarts DEF SpoolInv, SpoolTypeOK
  <2>2. s = Load(file) /\ DOMAIN s = 1..Len(s)
    BY <2>1 DEF Load
  <2> HIDE DEF s, a
  <2>3. a[j] \in Starts(file) /\ a[k] \in Starts(file) /\ a[j] < a[k]
    BY <2>1, <2>2, IntactAreStarts
  <2>4. WrittenAt(file[a[j]][1]) < WrittenAt(file[a[k]][1])
    BY <2>3 DEF SpoolInv, FollowsWritten
  <2> QED  BY <2>1, <2>2, <2>4
<1> QED  BY <1>1, SpoolInvariant, PTL

LEMMA QueuedAreRecords ==
  ASSUME SpoolInv
  PROVE  Queued \subseteq Records
BY DEF Queued, Intact

\* Steps that only move cells of the file keep every captured record that the
\* edge does not have, and bring none back.
LEMMA FileStepsAreChanges ==
  ASSUME SpoolInv,
         \/ \E w \in Writers : Write(w) \/ WriteFails(w)
         \/ Rename \/ PowerCut
  PROVE  Queue!Change
<1> SUFFICES /\ Queued' \subseteq Records
             /\ \A r \in captured \ edge : r \in Queued => r \in Queued'
             /\ Queued' \cap captured \subseteq Queued
             /\ tears' \in {tears, tears + 1}
             /\ captured' = captured /\ edge' = edge
  BY DEF Queue!Change, Queue!Keeps
<1>1. tears \in Nat
  BY DEF SpoolInv, SpoolTypeOK
<1>2. ASSUME NEW w \in Writers, Write(w) \/ WriteFails(w)
      PROVE  /\ \A q \in captured : q \in Queued <=> q \in Queued'
             /\ Queued' \subseteq Records
             /\ tears' \in {tears, tears + 1}
             /\ captured' = captured /\ edge' = edge
  <2>1. CASE Write(w)
    <3>1. Writing(w, 3) /\ tears' = tears
      BY <2>1, WritesAreWriting
    <3>2. 3 \in 0..3
      OBVIOUS
    <3>3. captured' = captured /\ edge' = edge
      BY <3>1 DEF Writing
    <3> QED  BY <3>1, <3>2, <3>3, WritingKeepsQueue
  <2>2. CASE WriteFails(w)
    <3>1. PICK n \in 0..2 : Writing(w, n) /\ tears' = tears + Tear
      BY <2>2, WritesAreWriting
    <3>2. n \in 0..3
      OBVIOUS
    <3>3. captured' = captured /\ edge' = edge
      BY <3>1 DEF Writing
    <3>4. tears' \in {tears, tears + 1}
      BY <1>1, <3>1, TearIs
    <3> QED  BY <3>1, <3>2, <3>3, <3>4, WritingKeepsQueue
  <2> QED  BY <1>2, <2>1, <2>2
<1>3. CASE Rename
  <2>1. UNCHANGED <<captured, edge, tears>>
    BY <1>3 DEF Rename
  <2> QED  BY <1>3, <2>1, RenamedQueue, QueuedAreRecords
<1>4. CASE PowerCut
  <2>1. captured' = captured /\ edge' = edge /\ tears' = tears + Tear
    BY <1>4 DEF PowerCut
  <2>2. tears' \in {tears, tears + 1}
    BY <1>1, <2>1, TearIs
  <2> QED  BY <1>4, <2>1, <2>2, CutKeepsQueue
<1> QED  BY <1>2, <1>3, <1>4

\* What is lost was paid for by tears.
LossIsPaid == Cardinality(Queue!Lost) <= tears

LEMMA LossIsPaidFor == SpoolInv => LossIsPaid
<1> SUFFICES ASSUME SpoolInv PROVE Cardinality(Queue!Lost) <= tears
  BY DEF LossIsPaid
<1>1. IsFiniteSet(Doomed) /\ Cardinality(Doomed) \in Nat
  BY DoomedIsFinite DEF SpoolInv
<1>2. Queue!Lost \subseteq Doomed
  BY DEF Doomed, Queue!Lost
<1>3. Cardinality(Queue!Lost) <= Cardinality(Doomed) /\ Cardinality(Queue!Lost) \in Nat
  BY <1>1, <1>2, FS_Subset, FS_CardinalityType
<1>4. tears \in Nat
  BY DEF SpoolInv, SpoolTypeOK
<1> QED  BY <1>1, <1>3, <1>4 DEF SpoolInv, TearsCost

\* A sync reports one record.
LEMMA SyncsAreReports ==
  ASSUME SpoolInv, LossIsPaid', NEW w \in Writers, Sync(w)
  PROVE  Queue!Report
<1>1. record[w] \in Records
  BY SyncKeepsInv, RecordsAreWritten DEF SpoolInv
<1>2. captured' = captured \cup {record[w]} /\ UNCHANGED <<file, edge, tears>>
  BY DEF Sync
<1>3. Queued' = Queued
  BY <1>2 DEF Queued
<1>4. Cardinality(Queue!Lost') <= tears
  BY <1>2 DEF LossIsPaid, Queue!Lost
<1>5. \A S : Queue!Cardinality(S) = Cardinality(S)
  BY DEF Queue!Cardinality, Cardinality
<1> QED  BY <1>1, <1>2, <1>3, <1>4, <1>5 DEF Queue!Report, Queue!Lost

\* "An operation must not be reported as captured until it would survive the
\* power going out a millisecond later" (append): the spool implements
\* DurableQueue, which loses at most one record for each line cut short.
THEOREM QueueIsImplemented == SpoolSpec => ImplementsQueue
<1>1. SpoolInit => Queue!Init
  BY DEF SpoolInit, Queue!Init, Queued, Intact
<1>2. SpoolInv /\ LossIsPaid' /\ [SpoolNext]_spoolVars => [Queue!Next]_(Queue!vars)
  <2> SUFFICES ASSUME SpoolInv, LossIsPaid', [SpoolNext]_spoolVars
               PROVE  [Queue!Next]_(Queue!vars)
    OBVIOUS
  <2>1. ASSUME UNCHANGED <<file, edge, captured, tears>> PROVE UNCHANGED Queue!vars
    BY <2>1 DEF Queue!vars, Queued
  <2>2. CASE UNCHANGED spoolVars
    BY <2>1, <2>2 DEF spoolVars, spool
  <2>3. ASSUME NEW w \in Writers, (\E r \in Records : StartAppend(w, r)) \/ SyncFails(w)
        PROVE  UNCHANGED Queue!vars
    BY <2>1, <2>3 DEF StartAppend, SyncFails, spool
  <2>4. CASE Compact
    BY <2>1, <2>4 DEF Compact, spool
  <2>5. CASE \/ \E w \in Writers : Write(w) \/ WriteFails(w)
             \/ Rename \/ PowerCut
    BY <2>5, FileStepsAreChanges DEF Queue!Next
  <2>6. ASSUME NEW w \in Writers, Sync(w) PROVE Queue!Next
    BY <2>6, SyncsAreReports DEF Queue!Next
  <2>7. ASSUME NEW r \in Records, Replay(r) PROVE Queue!Next
    <3>1. r \in Queued /\ edge' = edge \cup {r} /\ UNCHANGED <<file, captured, tears>>
      BY <2>7 DEF Replay, spool
    <3>2. Queued' = Queued
      BY <3>1 DEF Queued
    <3> QED  BY <3>1, <3>2 DEF Queue!Next, Queue!Deliver
  <2> QED  BY <2>2, <2>3, <2>4, <2>5, <2>6, <2>7 DEF SpoolNext
<1> QED
  BY <1>1, <1>2, SpoolInitInv, SpoolInvStep, LossIsPaidFor, PTL
     DEF SpoolSpec, ImplementsQueue, Queue!Spec
=============================================================================
