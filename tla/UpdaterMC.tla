------------------------------ MODULE UpdaterMC ------------------------------
(* Small instances of Updater. *)
EXTENDS Updater

Artifact(v) == [name |-> [into |-> None, file |-> "trace-edge"], sha256 |-> v, size |-> 10,
                path |-> [up |-> FALSE, name |-> "trace-edge"]]
Notes(v) == [Artifact(v) EXCEPT !.name.file = "NOTES"]
Update(v) ==
  [schema |-> SchemaVersion, version |-> v, artifacts |-> {Artifact(v), Notes(v)},
   min_installed_version |-> 0, rollback |-> FALSE, cohorts |-> {}]

Holding(m, kind, bytes) ==
  [kind |-> kind, envelope |-> Sign(UpdateKey, m),
   files |-> [path \in {a.path : a \in m.artifacts} |-> bytes]]
Good(m) == Holding(m, "http", [sha256 |-> m.version, size |-> 10])

\* Updates, deliberate rollbacks, replays of old manifests, a required step, and
\* manifests for another cohort, under another key, with a file that is not the
\* one named or is too large and with a path that leaves the medium.
AllSources ==
  {Good(Update(v)) : v \in Versions}
    \cup {Good([Update(v) EXCEPT !.rollback = TRUE]) : v \in {1, 2} \cap Versions}
    \cup {Good([Update(3) EXCEPT !.min_installed_version = 2]),
          Good([Update(2) EXCEPT !.cohorts = {"pilot"}]),
          [Good(Update(3)) EXCEPT !.envelope = Sign("another", Update(3))],
          Holding(Update(2), "chunked", [sha256 |-> 2, size |-> MaxArtifactBytes + 1]),
          Holding(Update(2), "directory", [sha256 |-> 3, size |-> 10]),
          Holding([Update(2) EXCEPT !.artifacts = {Artifact(2), [Notes(2) EXCEPT !.path.up = TRUE]}],
                  "directory", [sha256 |-> 2, size |-> 10])}

\* A release of which a file is named as one of the release before.
Straying ==
  {Good(Update(1)),
   Good([Update(2) EXCEPT !.artifacts = {Artifact(2), [Notes(2) EXCEPT !.name.into = 1]}])}
=============================================================================
