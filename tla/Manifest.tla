------------------------------ MODULE Manifest ------------------------------
(***************************************************************************)
(* The update manifest and the media a release comes on                    *)
(* (crates/trace-updater, manifest.rs and source.rs).  Pure.               *)
(*                                                                         *)
(* A manifest is [schema, version, artifacts, min_installed_version,       *)
(* rollback, cohorts], signed; an artifact [name, sha256, size, path].  A  *)
(* path is where it is on the medium, [up, name], up when it is absolute   *)
(* or has a .. in it; a name is where it goes on the box, [into, file]:    *)
(* into None for the directory the update is staged in, or a release that  *)
(* the name leads to with a .. or as an absolute one.  A source is         *)
(* [kind, envelope, files]: a directory, or a server that announces        *)
(* lengths (http) or does not (chunked); files gives for a path the bytes  *)
(* there, as [sha256, size].  A digest that is not 64 hex digits is None.  *)
(***************************************************************************)
EXTENDS Signing

CONSTANTS
  UpdateKey,          \* the vendor's, whose public half a box trusts
  SchemaVersion,      \* the newest schema this build understands
  Cohort,             \* the box's
  MaxArtifactBytes    \* max_artifact_bytes of an HTTP source

\* Manifest::verify; None is an error.
VerifyManifest(envelope) ==
  LET m == Verified(UpdateKey, envelope)
  IN  IF /\ m # None
         /\ m.schema <= SchemaVersion
         /\ m.artifacts # {}
         /\ \A a \in m.artifacts : a.sha256 # None
      THEN m ELSE None

\* Whether the names keep the files of a manifest apart and where they belong.
\* Nothing asks for it.
PlainNames(m) ==
  \A a, b \in m.artifacts : a.name.into = None /\ (a.name = b.name => a = b)

\* Mutant: a downgrade is taken for an update.
Installs_AnyOther(m, installed) ==
  /\ m.cohorts = {} \/ Cohort \in m.cohorts
  /\ installed >= m.min_installed_version
  /\ m.version # installed

\* Manifest::decide: Install, and neither UpToDate, NotInCohort nor an error.
Installs(m, installed) ==
  /\ m.cohorts = {} \/ Cohort \in m.cohorts
  /\ installed >= m.min_installed_version
  /\ m.version # installed
  /\ m.version < installed => m.rollback

\* DirectorySource::fetch_artifact: a path that leaves the bundle is refused;
\* None is an error.
FetchedFromDirectory(source, artifact) ==
  IF artifact.path \in DOMAIN source.files /\ ~artifact.path.up
  THEN source.files[artifact.path] ELSE None

\* HttpSource::fetch_artifact: nothing larger than the cap, declared or announced;
\* what a server sends without its length is not held to it.
FetchedOverHttp(source, artifact) ==
  IF /\ artifact.path \in DOMAIN source.files
     /\ artifact.size <= MaxArtifactBytes
     /\ source.kind = "http" => source.files[artifact.path].size <= MaxArtifactBytes
  THEN source.files[artifact.path] ELSE None

Fetched(source, artifact) ==
  IF source.kind = "directory" THEN FetchedFromDirectory(source, artifact)
                               ELSE FetchedOverHttp(source, artifact)

\* Mutant: the size will do.
VerifyDigest_Size(artifact, bytes) == bytes.size = artifact.size

\* verify_digest.
VerifyDigest(artifact, bytes) ==
  bytes.size = artifact.size /\ bytes.sha256 = artifact.sha256
=============================================================================
