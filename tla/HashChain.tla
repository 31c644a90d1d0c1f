------------------------------ MODULE HashChain ------------------------------
(***************************************************************************)
(* The per-unit hash chain (crates/trace-core/src/hash.rs) and the two     *)
(* ways the repository verifies one.  Pure.                                *)
(*                                                                         *)
(* SHA-256 over (previous hash, length-prefixed payload) is taken to be    *)
(* injective: a hash is the sequence of the payloads it covers, the empty  *)
(* sequence for GENESIS.                                                   *)
(***************************************************************************)
EXTENDS Naturals, Sequences

CONSTANT Payloads   \* the canonical payloads of evidence rows

Hashes == Seq(Payloads)

GENESIS == <<>>

RowHash(prev, payload) == Append(prev, payload)

\* The two append-only tables a unit's chain runs through.
Tables == {"unit_event", "measurement"}

\* A stored row: what it says and its link.
Rows == [table : Tables, payload : Payloads, seq : Nat, prev : Hashes, hash : Hashes]

\* hash::append after a tail, or as the first row of a chain.
AppendRow(tail, table, payload) ==
  [table |-> table, payload |-> payload, seq |-> tail.seq + 1,
   prev |-> tail.hash, hash |-> RowHash(tail.hash, payload)]

FirstRow(table, payload) ==
  [table |-> table, payload |-> payload, seq |-> 0,
   prev |-> GENESIS, hash |-> RowHash(GENESIS, payload)]

-----------------------------------------------------------------------------
(* Verification, of rows in the order they are read. *)

\* Mutant: the first row is trusted.
LinksHold_FromSecond(rows) ==
  \A i \in DOMAIN rows : i > 1 => rows[i].prev = rows[i - 1].hash

\* Each row's stored previous hash is the hash of the row before it.
LinksHold(rows) ==
  \A i \in DOMAIN rows :
    rows[i].prev = IF i = 1 THEN GENESIS ELSE rows[i - 1].hash

\* Mutant: each row is checked on its own.
Verify_RowByRow(rows, payloads) ==
  /\ Len(rows) = Len(payloads)
  /\ \A i \in DOMAIN rows : rows[i].hash = RowHash(rows[i].prev, payloads[i])

\* hash::verify: the links hold and every hash is that of its payload.
Verify(rows, payloads) ==
  /\ Len(rows) = Len(payloads)
  /\ LinksHold(rows)
  /\ \A i \in DOMAIN rows : rows[i].hash = RowHash(rows[i].prev, payloads[i])

\* TenantTx::verify_unit_chain: the payload it selects is never looked at.
VerifyUnitChain(rows) == LinksHold(rows)

-----------------------------------------------------------------------------
(* What a chain is, as a set of rows: hashes of their payloads, one row to  *)
(* a position, each but the first after another, and each hash covering the *)
(* history of every row before it.                                          *)

Extends(long, short) ==
  /\ Len(short) <= Len(long)
  /\ \A i \in 1..Len(short) : long[i] = short[i]

IsChain(rows) ==
  /\ \A r \in rows :
       /\ r.hash = RowHash(r.prev, r.payload)
       /\ r.seq = Len(r.prev)
       /\ r.seq = 0 \/ \E q \in rows : q.hash = r.prev
  /\ \A r, q \in rows : r.seq = q.seq => r = q
  /\ \A r, q \in rows : q.seq <= r.seq => Extends(r.hash, q.hash)

\* The history a chain covers: the hash of its last row.
Covered(rows) ==
  IF rows = {} THEN GENESIS
  ELSE (CHOOSE r \in rows : \A q \in rows : q.seq <= r.seq).hash
=============================================================================
