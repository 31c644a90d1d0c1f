--------------------------- MODULE EvidenceStoreMC ---------------------------
(* Small instances of EvidenceStore, and the audits of what it keeps. *)
EXTENDS Audit

ScrapTargets == {"QUARANTINED", "SCRAPPED"}

\* No property tells transactions, units or payloads apart.
Interchangeable == Permutations(Tx) \cup Permutations(Units) \cup Permutations(Payloads)
=============================================================================
