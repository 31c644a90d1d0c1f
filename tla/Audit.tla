-------------------------------- MODULE Audit --------------------------------
(***************************************************************************)
(* What the two verifications of a unit's chain show an auditor, of the    *)
(* rows the evidence store leaves and of rows changed since behind the     *)
(* application's back (0003_integrity.sql: "because psql exists"), by an   *)
(* edit, a loss, a partial restore or a renumbering, without the hashes    *)
(* being recomputed.                                                       *)
(***************************************************************************)
EXTENDS EvidenceStore, SequencesExt

\* What a reading of a unit returns: its rows by chain_seq.  Several orders
\* exist only when two rows tie.
Readings(rows) ==
  {s \in [1..Cardinality(rows) -> rows] :
     /\ \A i, j \in DOMAIN s : s[i] = s[j] => i = j
     /\ \A i, j \in DOMAIN s : i < j => s[i].seq <= s[j].seq}

PayloadsOf(s) == [i \in DOMAIN s |-> s[i].payload]
HashesOf(s)   == [i \in DOMAIN s |-> s[i].hash]

-----------------------------------------------------------------------------
(* One change to the stored rows, which are read by chain_seq. *)

Edited(s)   == {[s EXCEPT ![i].payload = p] : i \in DOMAIN s, p \in Payloads}
Lost(s)     == {RemoveAt(s, i) : i \in DOMAIN s}
Repeated(s) == {InsertAt(s, i, s[i]) : i \in DOMAIN s}
Swapped(s)  == {[s EXCEPT ![i] = [s[j] EXCEPT !.seq = s[i].seq],
                          ![j] = [s[i] EXCEPT !.seq = s[j].seq]] :
                  i \in DOMAIN s, j \in DOMAIN s}

Changed(s) == Edited(s) \cup Lost(s) \cup Repeated(s) \cup Swapped(s)

ChangedTwice(s) == UNION {Changed(d) : d \in Changed(s)}

\* The audits are looked at between transactions.
Quiet == \A t \in Tx : pc[t] = "idle"

\* Evidence no one tampered with is never reported broken, and over two edits,
\* losses, restores and renumberings hash::verify accepts what was written, up to
\* some row, and nothing else, so that only those that take the last rows away
\* pass for the history.  verify_unit_chain accepts no row that is not linked as
\* it was written, in its place, and all that was written.
VerifyIsExact ==
  Quiet => \A u \in Units : \A s \in Readings(evidence[u]) : \A d \in {s} \cup ChangedTwice(s) :
    LET linked == IsPrefix(HashesOf(d), HashesOf(s))
        intact == linked /\ IsPrefix(PayloadsOf(d), PayloadsOf(s))
    IN  /\ Verify(d, PayloadsOf(d)) <=> intact
        /\ VerifyUnitChain(d) => linked
        /\ intact => VerifyUnitChain(d)

\* What is said of verify_unit_chain, that "the chain is recomputed from the row
\* contents rather than trusted" (query.rs:348): the code looks at the stored
\* hashes alone and accepts a row whose payload was edited.
EditsAreDetected ==
  Quiet => \A u \in Units : \A s \in Readings(evidence[u]) : \A d \in Edited(s) :
    VerifyUnitChain(d) => PayloadsOf(d) = PayloadsOf(s)
=============================================================================
