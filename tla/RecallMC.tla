------------------------------- MODULE RecallMC -------------------------------
(* Two tenants that share a lot number, one with a genealogy deeper than the *)
(* cap, a point of measurement of each, that of the second named by both,    *)
(* and a calendar that runs past the partitions of the migration.            *)
EXTENDS Recall, TLC

CONSTANTS u1, u2, u3, v, A, B, c1, c2, torque, leak

Owners == A :> {u1, u2, u3} @@ B :> {v}
Named == A :> {torque, leak} @@ B :> {leak}
Configured == A :> {torque} @@ B :> {leak}
Readings == {[datatype |-> "BARCODE", text |-> "batch"]}
Symmetry == Permutations({u1, u2, u3}) \cup Permutations({c1, c2})
=============================================================================
