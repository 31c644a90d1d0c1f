------------------------------- MODULE Signing -------------------------------
(***************************************************************************)
(* Canonical JSON and detached signatures (crates/trace-sign), which the   *)
(* entitlements and the update manifests travel under.  Pure.              *)
(*                                                                         *)
(* A document is a record.  The bytes that are signed are its text: what   *)
(* stands for each name there is, a pair <<name, value>> or <<>>, nothing. *)
(* An envelope is [alg, payload, signature, key_id], a signature <<key,    *)
(* the bytes signed>>; a payload or a signature that base64 cannot decode, *)
(* or of a wrong length, is None.                                          *)
(***************************************************************************)
EXTENDS Integers, Sequences, Functions

CONSTANT None

AlgEd25519 == "ed25519"

\* The names of the documents modelled, in the order of their bytes.
Names == <<"artifacts", "cohorts", "expires_at", "grace_days", "issued_at",
           "min_installed_version", "node_id", "not_before", "rollback",
           "schema", "version">>

\* canonical_json and write_canonical: the fields of a document in the order of
\* their names, whatever order they were in; a field it does not have writes nothing.
CanonicalJson(doc) ==
  [i \in DOMAIN Names |->
     IF Names[i] \in DOMAIN doc THEN <<Names[i], doc[Names[i]]>> ELSE <<>>]

\* The document a text stands for.
FromJson(bytes) ==
  LET pairs == Range(bytes) \ {<<>>}
  IN  [n \in {pair[1] : pair \in pairs} |-> (CHOOSE pair \in pairs : pair[1] = n)[2]]

\* Issuer::sign.
Sign(key, doc) ==
  [alg |-> AlgEd25519, payload |-> CanonicalJson(doc),
   signature |-> <<key, CanonicalJson(doc)>>, key_id |-> key]

\* Mutant: any signature will do.
Verified_Unchecked(key, envelope) ==
  IF envelope.alg = AlgEd25519 /\ envelope.payload # None /\ envelope.signature # None
  THEN FromJson(envelope.payload) ELSE None

\* TrustedKey::verify: the document the signed bytes stand for, and no other;
\* the key_id is not looked at.
Verified(key, envelope) ==
  IF /\ envelope.alg = AlgEd25519
     /\ envelope.payload # None /\ envelope.signature # None
     /\ envelope.signature = <<key, envelope.payload>>
  THEN FromJson(envelope.payload) ELSE None
=============================================================================
