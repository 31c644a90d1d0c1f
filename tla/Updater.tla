------------------------------- MODULE Updater -------------------------------
(***************************************************************************)
(* Over-the-air updates of an edge box (crates/trace-updater): the install *)
(* root on disk, and one updater that is offered manifests, one after the  *)
(* other, and may fail or lose power at any step.                          *)
(*                                                                         *)
(* Versions are numbers; 0 is the 0.0.0 an empty root counts as.  A        *)
(* directory is absent, partial, complete (every artifact of its manifest, *)
(* and nothing else) or wrong (some file is not what the manifest names,   *)
(* or is of another release).                                              *)
(* Renames and removals are taken to reach the disk in their order.        *)
(***************************************************************************)
EXTENDS Manifest

CONSTANTS
  Versions,    \* the releases there are
  Broken,      \* those that never pass the health probe
  Sources,     \* what the box may be given to update from
  MaxFaults    \* bound: I/O errors, failed fetches and power cuts

ASSUME UpdaterAssumption ==
  /\ Versions \subseteq Nat \ {0}
  /\ Broken \subseteq Versions
  /\ MaxFaults \in Nat
  /\ None \notin Nat

\* What a medium holds of a file is its digest and its size, and the vendor signs
\* manifests of its releases only.
ASSUME SourcesAssumption ==
  \A s \in Sources :
    /\ s # None
    /\ VerifyManifest(s.envelope) # None =>
         VerifyManifest(s.envelope).version \in Versions
    /\ VerifyManifest(s.envelope) # None =>
         \A a \in VerifyManifest(s.envelope).artifacts :
           a.name.into \in Versions \cup {None}
    /\ \A path \in DOMAIN s.files :
         s.files[path] = [sha256 |-> s.files[path].sha256, size |-> s.files[path].size]

VARIABLES
  releases,   \* releases/<version>
  staging,    \* staging/<version>
  link,       \* where the links "current" and "previous" point, or None
  tmp,        \* where their temporary links point, or None
  pc,         \* the step update is at, "idle" outside it
  source,     \* where it takes the artifacts from, None when it has them
  manifest,   \* the manifest it applies, or None
  installed,  \* the version it found installed, 0 for none
  faults      \* faults so far

disk == <<releases, staging, link, tmp>>
vars == <<disk, pc, source, manifest, installed, faults>>

Links == {"current", "previous"}

Steps == {"idle", "stage", "clear", "clearing", "place", "previous", "previous_made",
          "current", "current_made", "probe", "restore", "restore_made"}

Init ==
  /\ releases = [v \in Versions |-> "absent"]
  /\ staging = [v \in Versions |-> "absent"]
  /\ link = [l \in Links |-> None]
  /\ tmp = [l \in Links |-> None]
  /\ pc = "idle"
  /\ source = None /\ manifest = None
  /\ installed = 0 /\ faults = 0

target == manifest.version

InstalledVersion == IF link["current"] = None THEN 0 ELSE link["current"]

-----------------------------------------------------------------------------
\* update, up to the download: a manifest that does not verify or is not to be
\* installed changes nothing.  A staging directory left behind is cleared first.
Begin(s) ==
  LET m == VerifyManifest(s.envelope)
  IN  /\ pc = "idle"
      /\ m # None
      /\ Installs(m, InstalledVersion)
      /\ source' = s
      /\ manifest' = m
      /\ installed' = InstalledVersion
      /\ staging' = [staging EXCEPT ![m.version] = "partial"]
      /\ pc' = "stage"
      /\ UNCHANGED <<releases, link, tmp, faults>>

\* The artifacts that are there and pass for what the manifest names, and whether
\* all of them are that.
Fit == {a \in manifest.artifacts :
          Fetched(source, a) # None /\ VerifyDigest(a, Fetched(source, a))}
Genuine ==
  \A a \in manifest.artifacts :
    Fetched(source, a) = [sha256 |-> a.sha256, size |-> a.size]

\* write_artifact, for these artifacts: where the name of one leads to a release,
\* its directories are made if need be and the file is written over what is there.
WriteArtifacts(those) ==
  releases' = [v \in Versions |-> IF \E a \in those : a.name.into = v THEN "wrong"
                                                                    ELSE releases[v]]

\* stage: every artifact is fetched, verified, written and synced.  A directory
\* with a file less than the manifest has, or two written to one place, is wrong.
Stage ==
  /\ pc = "stage" /\ Fit = manifest.artifacts
  /\ WriteArtifacts(Fit)
  /\ staging' = [staging EXCEPT ![target] =
       IF Genuine /\ PlainNames(manifest) THEN "complete" ELSE "wrong"]
  /\ pc' = "clear" /\ source' = None
  /\ UNCHANGED <<link, tmp, manifest, installed, faults>>

\* stage, ended by an artifact that is not there or does not pass, with those
\* before it written.
StageFails ==
  /\ pc = "stage" /\ Fit # manifest.artifacts
  /\ \E those \in SUBSET Fit : WriteArtifacts(those)
  /\ pc' = "idle" /\ source' = None
  /\ UNCHANGED <<staging, link, tmp, manifest, installed, faults>>

\* activate: a release directory of that name is removed, file by file.
Clear ==
  /\ pc = "clear"
  /\ IF releases[target] = "absent"
     THEN pc' = "place" /\ UNCHANGED releases
     ELSE pc' = "clearing" /\ releases' = [releases EXCEPT ![target] = "partial"]
  /\ UNCHANGED <<source, staging, link, tmp, manifest, installed, faults>>

Cleared ==
  /\ pc = "clearing"
  /\ releases' = [releases EXCEPT ![target] = "absent"]
  /\ pc' = "place"
  /\ UNCHANGED <<source, staging, link, tmp, manifest, installed, faults>>

\* Mutant: the outgoing release is not retained.
Place_NotRetained ==
  /\ pc = "place"
  /\ releases' = [releases EXCEPT ![target] = staging[target]]
  /\ staging' = [staging EXCEPT ![target] = "absent"]
  /\ pc' = "current"
  /\ UNCHANGED <<source, link, tmp, manifest, installed, faults>>

\* activate: the staged directory becomes the release.
Place ==
  /\ pc = "place"
  /\ releases' = [releases EXCEPT ![target] = staging[target]]
  /\ staging' = [staging EXCEPT ![target] = "absent"]
  /\ pc' = IF link["current"] # None THEN "previous" ELSE "current"
  /\ UNCHANGED <<source, link, tmp, manifest, installed, faults>>

\* replace_symlink, the link under its temporary name.  try_exists follows a
\* leftover one: when the release it points at is gone the leftover stays, and
\* making the link fails.
MakeLink(l, version, next) ==
  IF tmp[l] # None /\ releases[tmp[l]] = "absent"
  THEN pc' = "idle" /\ UNCHANGED tmp
  ELSE pc' = next /\ tmp' = [tmp EXCEPT ![l] = version]

\* replace_symlink, the rename over the old link.
RenameLink(l, next) ==
  /\ link' = [link EXCEPT ![l] = tmp[l]]
  /\ tmp' = [tmp EXCEPT ![l] = None]
  /\ pc' = next

RetainPrevious ==
  /\ pc = "previous"
  /\ MakeLink("previous", installed, "previous_made")
  /\ UNCHANGED <<source, releases, staging, link, manifest, installed, faults>>

RetainPreviousDone ==
  /\ pc = "previous_made"
  /\ RenameLink("previous", "current")
  /\ UNCHANGED <<source, releases, staging, manifest, installed, faults>>

\* Mutant: the link is removed before the new one takes its place.
GoLive_Unlinking ==
  /\ pc = "current"
  /\ MakeLink("current", target, "current_made")
  /\ link' = [link EXCEPT !["current"] = None]
  /\ UNCHANGED <<source, releases, staging, manifest, installed, faults>>

\* point_current_at the target.
GoLive ==
  /\ pc = "current"
  /\ MakeLink("current", target, "current_made")
  /\ UNCHANGED <<source, releases, staging, link, manifest, installed, faults>>

GoLiveDone ==
  /\ pc = "current_made"
  /\ RenameLink("current", "probe")
  /\ UNCHANGED <<source, releases, staging, manifest, installed, faults>>

-----------------------------------------------------------------------------
Healthy ==
  /\ pc = "probe"
  /\ target \notin Broken
  /\ pc' = "idle"
  /\ UNCHANGED <<disk, source, manifest, installed, faults>>

\* Mutant: the unhealthy release is reported and left.
Unhealthy_Left ==
  /\ pc = "probe"
  /\ pc' = "idle"
  /\ UNCHANGED <<disk, source, manifest, installed, faults>>

\* Mutant: a first release is rolled back too.
Unhealthy_Always ==
  /\ pc = "probe"
  /\ pc' = "restore"
  /\ UNCHANGED <<disk, source, manifest, installed, faults>>

\* wait_until_healthy gives up at the deadline, on a good release that is slow
\* to start too.  With nothing to go back to the release stays.
Unhealthy ==
  /\ pc = "probe"
  /\ pc' = IF installed # 0 THEN "restore" ELSE "idle"
  /\ UNCHANGED <<disk, source, manifest, installed, faults>>

\* point_current_at the version it replaced.
Restore ==
  /\ pc = "restore"
  /\ MakeLink("current", installed, "restore_made")
  /\ UNCHANGED <<source, releases, staging, link, manifest, installed, faults>>

RestoreDone ==
  /\ pc = "restore_made"
  /\ RenameLink("current", "idle")
  /\ UNCHANGED <<source, releases, staging, manifest, installed, faults>>

-----------------------------------------------------------------------------
\* An error ends the attempt, or the power goes.  The next attempt is made by a
\* process of the same id, or by one that never looks at what this one left
\* under its id (the temporary links).
Fault ==
  /\ pc # "idle" /\ faults < MaxFaults
  /\ faults' = faults + 1
  /\ pc' = "idle" /\ source' = None
  /\ tmp' \in {tmp, [l \in Links |-> None]}
  /\ IF pc = "stage" THEN \E those \in SUBSET Fit : WriteArtifacts(those)
                     ELSE UNCHANGED releases
  /\ UNCHANGED <<staging, link, manifest, installed>>

Step ==
  \/ Stage \/ StageFails \/ Clear \/ Cleared \/ Place
  \/ RetainPrevious \/ RetainPreviousDone \/ GoLive \/ GoLiveDone
  \/ Healthy \/ Unhealthy \/ Restore \/ RestoreDone

Next == Step \/ Fault \/ \E s \in Sources : Begin(s)

Spec == Init /\ [][Next]_vars

\* An update that has begun runs on: every await in it is answered or fails.
FairSpec == Spec /\ WF_vars(Step)

-----------------------------------------------------------------------------
TypeOK ==
  /\ releases \in [Versions -> {"absent", "partial", "complete", "wrong"}]
  /\ staging \in [Versions -> {"absent", "partial", "complete", "wrong"}]
  /\ link \in [Links -> Versions \cup {None}]
  /\ tmp \in [Links -> Versions \cup {None}]
  /\ pc \in Steps
  /\ source \in Sources \cup {None} /\ (source # None) = (pc = "stage")
  /\ manifest # None => manifest.version \in Versions
  /\ installed \in Versions \cup {0}
  /\ faults \in 0..MaxFaults

\* What the vendor has to see to, as the box does not: the files of a release it
\* signs go to places of their own in the release.
NamesArePlain ==
  \A s \in Sources :
    VerifyManifest(s.envelope) # None => PlainNames(VerifyManifest(s.envelope))

\* When names are plain, what `current` resolves to is always one whole release,
\* and no step, failure or power cut ever changes it but a switch to another whole
\* one (lib.rs, "power loss mid-update leaves the old version intact").
Live == INSTANCE LiveRelease WITH
          live <- IF link["current"] = None THEN None
                  ELSE <<link["current"], releases[link["current"]]>>

ImplementsSwitch == Live!Spec

\* As lib.rs has it, "The running install is never mutated in place": whatever
\* names the vendor gives, the release `current` points at stays as it is for as
\* long as it points there.
NeverMutatedInPlace ==
  [][link["current"] # None /\ link'["current"] = link["current"] =>
       releases'[link["current"]] = releases[link["current"]]]_vars

\* While the new version proves itself, the one it replaced is whole on disk and
\* `previous` points at it, when names are plain: the rollback cannot fail for want
\* of it.
RollbackIsReady ==
  pc \in {"probe", "restore", "restore_made"} /\ installed # 0 =>
    /\ link["previous"] = installed
    /\ releases[installed] = "complete"

\* The box goes back to an older version only by a manifest marked as a rollback,
\* or to the very version the update in progress replaced.
NoUnforcedDowngrade ==
  [][LET old == link["current"]
         new == link["current"]'
     IN  new # old /\ old # None /\ new # None /\ new < old =>
           \/ manifest.rollback /\ new = manifest.version
           \/ pc = "restore_made" /\ new = installed /\ old = manifest.version]_vars

\* A release that cannot be healthy does not stay live: the deadline passes and
\* the box is back on the release it replaced, unless an error or a power cut
\* ends the update before.
BrokenIsReplaced ==
  \A n \in 0..MaxFaults :
    pc = "probe" /\ target \in Broken /\ installed # 0 /\ faults = n
      ~> faults # n \/ link["current"] = installed
=============================================================================
