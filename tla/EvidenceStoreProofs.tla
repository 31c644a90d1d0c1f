------------------------- MODULE EvidenceStoreProofs -------------------------
(***************************************************************************)
(* Proofs about EvidenceStore and the audits of Audit, for any set of      *)
(* units, transactions, payloads and target states, and any bound on the   *)
(* rows of a unit.                                                         *)
(*                                                                         *)
(* EvidenceIsChained is not inductive: it says nothing of the rows a       *)
(* transaction holds, nor of the tail it has read. IInv adds that only the *)
(* holder of a unit's lock has uncommitted rows or states of it, that what *)
(* each transaction sees of a unit is a chain, and that the tail an append *)
(* is about to extend is still the tail.                                   *)
(*                                                                         *)
(* That a commit takes nothing back and is one transaction of the ledger   *)
(* needs more of what it is about to publish. LedgerInv adds that the rows *)
(* it holds follow all that are committed (PendingFollows), that they and  *)
(* its statements are of units there are (AppendsToBorn), and that it      *)
(* holds no other state for a scrapped unit (ScrapStands).                 *)
(*                                                                         *)
(* What the audits say follows from the chain alone: a hash in it counts   *)
(* the rows it covers, so that rows which carry its links, in whatever     *)
(* order, hold together only as its first rows.                            *)
(***************************************************************************)
EXTENDS Audit, FiniteSetTheorems, WellFoundedInduction, TLAPS

\* A last row, which the CHOOSE of Covered finds.
IsLast(rows, r) == r \in rows /\ \A q \in rows : q.seq <= r.seq
HasLast(rows) == rows = {} \/ \E r \in rows : IsLast(rows, r)

\* Only the holder of the row lock has anything uncommitted, or a tail, of it.
HeldByLock ==
  /\ \A t \in Tx, u \in Units :
       pending[t][u] # {} \/ draft[t][u] # None => lock[u] = t
  /\ \A t \in Tx : pc[t] \in {"locking", "tail", "insert", "birth", "updating"}
                     => target[t] \in Units
  /\ \A t \in Tx : pc[t] \in {"tail", "insert"} => lock[target[t]] = t

\* What a transaction sees of a unit, and what is committed, is a chain.
SeenIsChained ==
  \A u \in Units : /\ IsChain(evidence[u])
                   /\ \A t \in Tx : IsChain(RowsSeenBy(t, u))

\* The tail a transaction has read is the tail until it inserts.
TailIsCurrent ==
  \A t \in Tx : pc[t] = "insert" =>
                  tail[t] \in ChainTail(RowsSeenBy(t, target[t]))

IInv == TypeOK /\ HeldByLock /\ SeenIsChained /\ TailIsCurrent

\* The rows a transaction holds come after every committed row of their unit, and
\* what it sees of a unit has a last row.
PendingFollows ==
  /\ \A t \in Tx, u \in Units :
       \A r \in pending[t][u], q \in evidence[u] : q.seq < r.seq
  /\ \A t \in Tx, u \in Units : HasLast(RowsSeenBy(t, u))
  /\ \A u \in Units : HasLast(evidence[u])

\* Rows are held, and appends are under way, of units there are, and an UPDATE
\* writes a state.
AppendsToBorn ==
  /\ \A t \in Tx, u \in Units :
       \/ pending[t][u] # {}
       \/ pc[t] \in {"locking", "tail", "insert"} /\ target[t] = u
       => StateSeenBy(t, u) # None
  /\ \A t \in Tx : pc[t] = "updating" => goal[t] # None

\* The retired uids are those of the scrapped units, and no transaction holds
\* another state for one.
ScrapStands ==
  /\ retired = {u \in Units : state[u] = "SCRAPPED"}
  /\ \A t \in Tx, u \in Units :
       state[u] = "SCRAPPED" => draft[t][u] \in {None, "SCRAPPED"}

LedgerInv == IInv /\ PendingFollows /\ AppendsToBorn /\ ScrapStands

-----------------------------------------------------------------------------
(* The chain. *)

\* The first row of a chain is a chain.
LEMMA FirstRowIsChain ==
  ASSUME NEW table \in Tables, NEW payload \in Payloads
  PROVE  /\ FirstRow(table, payload) \in Rows
         /\ IsChain({FirstRow(table, payload)})
BY DEF FirstRow, Rows, IsChain, Extends, RowHash, GENESIS, Hashes

\* A row appended to the tail of a chain makes a longer chain.
LEMMA AppendRowIsChain ==
  ASSUME NEW rows \in SUBSET Rows, IsChain(rows),
         NEW last \in rows, \A q \in rows : q.seq <= last.seq,
         NEW table \in Tables, NEW payload \in Payloads
  PROVE  /\ AppendRow(last, table, payload) \in Rows
         /\ IsChain(rows \cup {AppendRow(last, table, payload)})
<1> DEFINE row == AppendRow(last, table, payload)
<1>1. /\ row \in Rows
      /\ row.seq = last.seq + 1
      /\ row.prev = last.hash
      /\ row.payload = payload
      /\ row.hash = Append(last.hash, payload)
  BY DEF AppendRow, Rows, RowHash, Hashes
<1>2. Len(last.hash) = last.seq + 1
  BY DEF IsChain, RowHash, Rows, Hashes
<1>3. \A q \in rows : q.seq < row.seq /\ q.seq \in Nat
  BY <1>1 DEF Rows
<1>4. \A q \in rows : Extends(row.hash, q.hash)
  <2> TAKE q \in rows
  <2>1. Extends(last.hash, q.hash)
    BY DEF IsChain
  <2>2. /\ last.hash \in Seq(Payloads)
        /\ q.hash \in Seq(Payloads)
        /\ row.hash \in Seq(Payloads)
        /\ Len(row.hash) = Len(last.hash) + 1
        /\ \A i \in 1..Len(last.hash) : row.hash[i] = last.hash[i]
    BY <1>1 DEF Rows, Hashes
  <2> QED  BY <2>1, <2>2 DEF Extends
<1>5. Extends(row.hash, row.hash)
  BY <1>1 DEF Extends, Rows, Hashes
<1>6. IsChain(rows \cup {row})
  <2> DEFINE all == rows \cup {row}
  <2>1. \A r \in all : /\ r.hash = RowHash(r.prev, r.payload)
                       /\ r.seq = Len(r.prev)
                       /\ r.seq = 0 \/ \E q \in all : q.hash = r.prev
    BY <1>1, <1>2 DEF IsChain, RowHash
  <2>2. \A r, q \in all : r.seq = q.seq => r = q
    BY <1>3 DEF IsChain
  <2>3. \A r, q \in all : q.seq <= r.seq => Extends(r.hash, q.hash)
    <3> HIDE DEF row
    <3>1. \A r, q \in rows : q.seq <= r.seq => Extends(r.hash, q.hash)
      BY DEF IsChain
    <3>2. \A r \in rows : ~(row.seq <= r.seq)
      BY <1>1, <1>3 DEF Rows
    <3> QED  BY <3>1, <3>2, <1>4, <1>5
  <2> QED  BY <2>1, <2>2, <2>3 DEF IsChain
<1> QED  BY <1>1, <1>6

-----------------------------------------------------------------------------
(* Type correctness. *)

LEMMA NoneIsNothing == None \notin Tx /\ None \notin UnitStates /\ None \notin Rows
BY StoreAssumption

LEMMA ReleaseTypes ==
  ASSUME TypeOK, NEW t \in Tx, Release(t)
  PROVE  /\ lock' \in [Units -> Tx \cup {None}]
         /\ pc' \in [Tx -> Steps]
         /\ target' \in [Tx -> Units \cup {None}]
         /\ tail' \in [Tx -> Rows \cup {None}]
         /\ pending' \in [Tx -> [Units -> SUBSET Rows]]
         /\ draft' \in [Tx -> [Units -> States]]
         /\ seen' \in [Tx -> [Units -> States]]
         /\ goal' \in [Tx -> States]
BY DEF TypeOK, Release, Steps, States

LEMMA TypeStep ==
  ASSUME TypeOK, HeldByLock, [Next]_vars
  PROVE  TypeOK'
<1>1. CASE UNCHANGED vars
  BY <1>1 DEF TypeOK, vars, committed, session
<1>2. ASSUME NEW t \in Tx, Begin(t) PROVE TypeOK'
  BY <1>2 DEF TypeOK, Begin, committed, Steps
<1>3. ASSUME NEW t \in Tx, Commit(t) PROVE TypeOK'
  <2>1. evidence' \in [Units -> SUBSET Rows]
    BY <1>3 DEF TypeOK, Commit, RowsSeenBy
  <2>2. state' \in [Units -> States]
    BY <1>3 DEF TypeOK, Commit, StateSeenBy
  <2>3. retired' \subseteq Units
    BY <1>3 DEF TypeOK, Commit
  <2>4. Release(t)
    BY <1>3 DEF Commit
  <2> QED  BY <2>1, <2>2, <2>3, <2>4, ReleaseTypes DEF TypeOK
<1>4. ASSUME NEW t \in Tx, Rollback(t) PROVE TypeOK'
  BY <1>4, ReleaseTypes DEF TypeOK, Rollback, committed
<1>5. ASSUME NEW t \in Tx, NEW u \in Units, RequestAppend(t, u) PROVE TypeOK'
  BY <1>5 DEF TypeOK, RequestAppend, committed, Steps
<1>6. ASSUME NEW t \in Tx, LockUnit(t) PROVE TypeOK'
  BY <1>6 DEF TypeOK, LockUnit, committed, Steps, HeldByLock
<1>7. ASSUME NEW t \in Tx, ReadTail(t) PROVE TypeOK'
  <2>1. target[t] \in Units
    BY <1>7 DEF ReadTail, HeldByLock
  <2>2. RowsSeenBy(t, target[t]) \subseteq Rows
    BY <2>1 DEF TypeOK, RowsSeenBy
  <2>3. ChainTail(RowsSeenBy(t, target[t])) \subseteq Rows \cup {None}
    BY <2>2 DEF ChainTail
  <2> QED  BY <1>7, <2>3 DEF TypeOK, ReadTail, committed, Steps
<1>8. ASSUME NEW t \in Tx, NEW table \in Tables, NEW payload \in Payloads,
             InsertRow(t, table, payload)
      PROVE  TypeOK'
  <2> DEFINE row == IF tail[t] = None THEN FirstRow(table, payload)
                    ELSE AppendRow(tail[t], table, payload)
  <2>1. target[t] \in Units
    BY <1>8 DEF InsertRow, HeldByLock
  <2>2. row \in Rows
    <3>1. CASE tail[t] = None
      BY <3>1, FirstRowIsChain
    <3>2. CASE tail[t] # None
      BY <3>2 DEF TypeOK, AppendRow, Rows, RowHash, Hashes
    <3> QED  BY <3>1, <3>2
  <2>3. pending' = [pending EXCEPT ![t][target[t]] = @ \cup {row}]
    BY <1>8 DEF InsertRow
  <2> HIDE DEF row
  <2>4. pending' \in [Tx -> [Units -> SUBSET Rows]]
    BY <2>1, <2>2, <2>3 DEF TypeOK
  <2> QED  BY <1>8, <2>4 DEF TypeOK, InsertRow, committed, Steps
<1>9. ASSUME NEW t \in Tx, NEW u \in Units, ReadUnit(t, u) PROVE TypeOK'
  BY <1>9 DEF TypeOK, ReadUnit, StateSeenBy, committed
<1>10. ASSUME NEW t \in Tx, NEW u \in Units, RequestBirth(t, u) PROVE TypeOK'
  BY <1>10 DEF TypeOK, RequestBirth, committed, Steps
<1>11. ASSUME NEW t \in Tx, InsertUnit(t) PROVE TypeOK'
  BY <1>11 DEF TypeOK, InsertUnit, committed, Steps, HeldByLock, States, UnitStates
<1>12. ASSUME NEW t \in Tx, NEW u \in Units, NEW next \in Targets,
              RequestUpdate(t, u, next)
       PROVE  TypeOK'
  BY <1>12, StoreAssumption DEF TypeOK, RequestUpdate, committed, Steps, States
<1>13. ASSUME NEW t \in Tx, SetUnitState(t) PROVE TypeOK'
  BY <1>13 DEF TypeOK, SetUnitState, committed, Steps, HeldByLock, States
<1> QED
  BY <1>1, <1>2, <1>3, <1>4, <1>5, <1>6, <1>7, <1>8, <1>9, <1>10, <1>11, <1>12, <1>13
     DEF Next

-----------------------------------------------------------------------------
(* The lock. *)

LEMMA LockStep ==
  ASSUME TypeOK, HeldByLock, [Next]_vars
  PROVE  HeldByLock'
<1>1. CASE UNCHANGED vars
  BY <1>1 DEF HeldByLock, vars, committed, session
<1>2. ASSUME NEW t \in Tx, Begin(t) PROVE HeldByLock'
  BY <1>2 DEF HeldByLock, TypeOK, Begin, committed
<1>3. ASSUME NEW t \in Tx, Release(t) PROVE HeldByLock'
  BY <1>3 DEF HeldByLock, TypeOK, Release
<1>4. ASSUME NEW t \in Tx, NEW u \in Units, RequestAppend(t, u) PROVE HeldByLock'
  BY <1>4 DEF HeldByLock, TypeOK, RequestAppend, committed
<1>5. ASSUME NEW t \in Tx, LockUnit(t) PROVE HeldByLock'
  BY <1>5, NoneIsNothing DEF HeldByLock, TypeOK, LockUnit, Free, committed
<1>6. ASSUME NEW t \in Tx, ReadTail(t) PROVE HeldByLock'
  BY <1>6 DEF HeldByLock, TypeOK, ReadTail, committed
<1>7. ASSUME NEW t \in Tx, NEW table \in Tables, NEW payload \in Payloads,
             InsertRow(t, table, payload)
      PROVE  HeldByLock'
  <2>1. /\ \A s \in Tx, u \in Units : pending'[s][u] # {} =>
             pending[s][u] # {} \/ (s = t /\ u = target[t])
        /\ UNCHANGED <<draft, lock>>
        /\ lock[target[t]] = t
    BY <1>7 DEF HeldByLock, TypeOK, InsertRow
  <2>2. /\ pc' = [pc EXCEPT ![t] = "ready"]
        /\ target' = [target EXCEPT ![t] = None]
    BY <1>7 DEF InsertRow
  <2> QED  BY <2>1, <2>2 DEF HeldByLock, TypeOK
<1>8. ASSUME NEW t \in Tx, NEW u \in Units, ReadUnit(t, u) PROVE HeldByLock'
  BY <1>8 DEF HeldByLock, ReadUnit, committed
<1>9. ASSUME NEW t \in Tx, NEW u \in Units, RequestBirth(t, u) PROVE HeldByLock'
  BY <1>9 DEF HeldByLock, TypeOK, RequestBirth, committed
<1>10. ASSUME NEW t \in Tx, InsertUnit(t) PROVE HeldByLock'
  BY <1>10, NoneIsNothing DEF HeldByLock, TypeOK, InsertUnit, Free, committed
<1>11. ASSUME NEW t \in Tx, NEW u \in Units, NEW next \in Targets,
              RequestUpdate(t, u, next)
       PROVE  HeldByLock'
  BY <1>11 DEF HeldByLock, TypeOK, RequestUpdate, committed
<1>12. ASSUME NEW t \in Tx, SetUnitState(t) PROVE HeldByLock'
  BY <1>12, NoneIsNothing DEF HeldByLock, TypeOK, SetUnitState, Free, committed
<1> QED
  BY <1>1, <1>2, <1>3, <1>4, <1>5, <1>6, <1>7, <1>8, <1>9, <1>10, <1>11, <1>12
     DEF Next, Commit, Rollback

-----------------------------------------------------------------------------
(* The rows. *)

\* The steps that leave every row where it is.
LEMMA RowsStay ==
  ASSUME TypeOK, SeenIsChained, evidence' = evidence, pending' = pending
  PROVE  SeenIsChained'
BY DEF SeenIsChained, RowsSeenBy

LEMMA RollbackKeepsChains ==
  ASSUME TypeOK, SeenIsChained, NEW t \in Tx, Rollback(t)
  PROVE  SeenIsChained'
<1>1. /\ evidence' = evidence
      /\ \A s \in Tx, u \in Units :
           pending'[s][u] = IF s = t THEN {} ELSE pending[s][u]
  BY DEF TypeOK, Rollback, Release, committed
<1>2. \A s \in Tx, u \in Units :
        RowsSeenBy(s, u)' = IF s = t THEN evidence[u] ELSE RowsSeenBy(s, u)
  BY <1>1 DEF RowsSeenBy
<1> QED  BY <1>1, <1>2 DEF SeenIsChained

\* A commit makes public what the transaction saw; no other transaction has rows
\* of a unit the committing one has rows of.
LEMMA CommitKeepsChains ==
  ASSUME TypeOK, HeldByLock, SeenIsChained, NEW t \in Tx, Commit(t)
  PROVE  SeenIsChained'
<1>1. \A u \in Units : evidence'[u] = RowsSeenBy(t, u)
  BY DEF Commit
<1>2. \A s \in Tx, u \in Units :
        pending'[s][u] = IF s = t THEN {} ELSE pending[s][u]
  BY DEF TypeOK, Commit, Release
<1>3. \A s \in Tx, u \in Units :
        RowsSeenBy(s, u)' \in {RowsSeenBy(t, u), RowsSeenBy(s, u)}
  <2> TAKE s \in Tx, u \in Units
  <2>1. RowsSeenBy(s, u)' = RowsSeenBy(t, u) \cup pending'[s][u]
    BY <1>1 DEF RowsSeenBy
  <2>2. CASE pending'[s][u] = {}
    BY <2>1, <2>2
  <2>3. CASE pending'[s][u] # {}
    <3>1. s # t /\ pending'[s][u] = pending[s][u]
      BY <1>2, <2>3
    <3>2. pending[t][u] = {}
      BY <2>3, <3>1 DEF HeldByLock
    <3> QED  BY <2>1, <3>1, <3>2 DEF RowsSeenBy
  <2> QED  BY <2>2, <2>3
<1> QED  BY <1>1, <1>3 DEF SeenIsChained

\* An insert extends the chain its transaction sees.
LEMMA InsertKeepsChains ==
  ASSUME TypeOK, HeldByLock, SeenIsChained, TailIsCurrent,
         NEW t \in Tx, NEW table \in Tables, NEW payload \in Payloads,
         InsertRow(t, table, payload)
  PROVE  SeenIsChained'
<1> DEFINE row == IF tail[t] = None THEN FirstRow(table, payload)
                  ELSE AppendRow(tail[t], table, payload)
           rows == RowsSeenBy(t, target[t])
<1>1. target[t] \in Units /\ tail[t] \in ChainTail(rows)
  BY DEF InsertRow, HeldByLock, TailIsCurrent
<1>2. rows \in SUBSET Rows /\ IsChain(rows)
  BY <1>1 DEF TypeOK, RowsSeenBy, SeenIsChained
<1>3. IsChain(rows \cup {row})
  <2>1. CASE rows = {}
    <3>1. tail[t] = None
      BY <1>1, <2>1 DEF ChainTail
    <3>2. rows \cup {row} = {FirstRow(table, payload)}
      BY <2>1, <3>1
    <3> QED  BY <3>2, FirstRowIsChain
  <2>2. CASE rows # {}
    <3>1. tail[t] \in rows /\ \A q \in rows : q.seq <= tail[t].seq
      BY <1>1, <2>2 DEF ChainTail
    <3>2. tail[t] # None
      BY <1>2, <3>1, NoneIsNothing
    <3>3. row = AppendRow(tail[t], table, payload)
      BY <3>2
    <3> QED  BY <1>2, <3>1, <3>3, AppendRowIsChain
  <2> QED  BY <2>1, <2>2
<1>4. /\ evidence' = evidence
      /\ pending' = [pending EXCEPT ![t][target[t]] = @ \cup {row}]
  BY DEF InsertRow, committed
<1> HIDE DEF row
<1>5. \A s \in Tx, u \in Units :
        RowsSeenBy(s, u)' = IF s = t /\ u = target[t] THEN rows \cup {row}
                            ELSE RowsSeenBy(s, u)
  BY <1>1, <1>4 DEF RowsSeenBy, TypeOK
<1> HIDE DEF rows
<1> QED  BY <1>3, <1>4, <1>5 DEF SeenIsChained

LEMMA ChainStep ==
  ASSUME TypeOK, HeldByLock, SeenIsChained, TailIsCurrent, [Next]_vars
  PROVE  SeenIsChained'
<1>1. CASE UNCHANGED vars
  BY <1>1, RowsStay DEF vars, committed, session
<1>2. ASSUME NEW t \in Tx,
             \/ Begin(t) \/ LockUnit(t) \/ ReadTail(t) \/ InsertUnit(t)
             \/ SetUnitState(t)
      PROVE  SeenIsChained'
  BY <1>2, RowsStay
     DEF Begin, LockUnit, ReadTail, InsertUnit, SetUnitState, committed
<1>3. ASSUME NEW t \in Tx, NEW u \in Units,
             \/ RequestAppend(t, u) \/ ReadUnit(t, u) \/ RequestBirth(t, u)
             \/ \E next \in Targets : RequestUpdate(t, u, next)
      PROVE  SeenIsChained'
  BY <1>3, RowsStay
     DEF RequestAppend, ReadUnit, RequestBirth, RequestUpdate, committed
<1> QED
  BY <1>1, <1>2, <1>3, RollbackKeepsChains, CommitKeepsChains, InsertKeepsChains
     DEF Next

-----------------------------------------------------------------------------
(* The tail. *)

\* A step that leaves another transaction's program counter, target and tail
\* alone, and the rows of the unit it appends to, leaves its tail current.
LEMMA TailStep ==
  ASSUME TypeOK, HeldByLock, TailIsCurrent, [Next]_vars
  PROVE  TailIsCurrent'
<1>1. CASE UNCHANGED vars
  BY <1>1 DEF TailIsCurrent, RowsSeenBy, vars, committed, session
<1>2. ASSUME NEW t \in Tx, Begin(t) PROVE TailIsCurrent'
  BY <1>2 DEF TailIsCurrent, RowsSeenBy, TypeOK, Begin, committed
<1>3. ASSUME NEW t \in Tx, Commit(t) PROVE TailIsCurrent'
  <2> SUFFICES ASSUME NEW s \in Tx, pc'[s] = "insert"
               PROVE  tail'[s] \in ChainTail(RowsSeenBy(s, target[s])')
                      /\ target'[s] = target[s]
    BY DEF TailIsCurrent, RowsSeenBy
  <2>1. /\ s # t /\ pc[s] = "insert"
        /\ tail'[s] = tail[s] /\ target'[s] = target[s]
        /\ pending'[s] = pending[s]
    BY <1>3 DEF TypeOK, Commit, Release
  <2>2. target[s] \in Units /\ lock[target[s]] = s
    BY <2>1 DEF HeldByLock
  <2>3. pending[t][target[s]] = {}
    BY <2>1, <2>2 DEF HeldByLock
  <2>4. evidence'[target[s]] = evidence[target[s]]
    BY <1>3, <2>2, <2>3 DEF Commit, RowsSeenBy
  <2>5. RowsSeenBy(s, target[s])' = RowsSeenBy(s, target[s])
    BY <2>1, <2>4 DEF RowsSeenBy
  <2> QED  BY <2>1, <2>5 DEF TailIsCurrent
<1>4. ASSUME NEW t \in Tx, Rollback(t) PROVE TailIsCurrent'
  BY <1>4 DEF TailIsCurrent, RowsSeenBy, TypeOK, Rollback, Release, committed
<1>5. ASSUME NEW t \in Tx, NEW u \in Units, RequestAppend(t, u) PROVE TailIsCurrent'
  BY <1>5 DEF TailIsCurrent, RowsSeenBy, TypeOK, RequestAppend, committed
<1>6. ASSUME NEW t \in Tx, LockUnit(t) PROVE TailIsCurrent'
  BY <1>6 DEF TailIsCurrent, RowsSeenBy, TypeOK, LockUnit, committed
<1>7. ASSUME NEW t \in Tx, ReadTail(t) PROVE TailIsCurrent'
  BY <1>7 DEF TailIsCurrent, RowsSeenBy, TypeOK, ReadTail, committed
<1>8. ASSUME NEW t \in Tx, NEW table \in Tables, NEW payload \in Payloads,
             InsertRow(t, table, payload)
      PROVE  TailIsCurrent'
  <2>1. /\ evidence' = evidence
        /\ \A s \in Tx : s # t => /\ pending'[s] = pending[s]
                                  /\ tail'[s] = tail[s]
                                  /\ target'[s] = target[s]
                                  /\ pc'[s] = pc[s]
        /\ pc'[t] = "ready"
    BY <1>8 DEF TypeOK, InsertRow, committed
  <2> QED  BY <2>1 DEF TailIsCurrent, RowsSeenBy
<1>9. ASSUME NEW t \in Tx, NEW u \in Units, ReadUnit(t, u) PROVE TailIsCurrent'
  BY <1>9 DEF TailIsCurrent, RowsSeenBy, ReadUnit, committed
<1>10. ASSUME NEW t \in Tx, NEW u \in Units, RequestBirth(t, u) PROVE TailIsCurrent'
  BY <1>10 DEF TailIsCurrent, RowsSeenBy, TypeOK, RequestBirth, committed
<1>11. ASSUME NEW t \in Tx, InsertUnit(t) PROVE TailIsCurrent'
  BY <1>11 DEF TailIsCurrent, RowsSeenBy, TypeOK, InsertUnit, committed
<1>12. ASSUME NEW t \in Tx, NEW u \in Units, NEW next \in Targets,
              RequestUpdate(t, u, next)
       PROVE  TailIsCurrent'
  BY <1>12 DEF TailIsCurrent, RowsSeenBy, TypeOK, RequestUpdate, committed
<1>13. ASSUME NEW t \in Tx, SetUnitState(t) PROVE TailIsCurrent'
  BY <1>13 DEF TailIsCurrent, RowsSeenBy, TypeOK, SetUnitState, committed
<1> QED
  BY <1>1, <1>2, <1>3, <1>4, <1>5, <1>6, <1>7, <1>8, <1>9, <1>10, <1>11, <1>12, <1>13
     DEF Next

-----------------------------------------------------------------------------
(* The invariant. *)

LEMMA InitIInv == Init => IInv
<1> SUFFICES ASSUME Init PROVE IInv
  OBVIOUS
<1>1. TypeOK
  BY DEF Init, TypeOK, States, Steps
<1>2. HeldByLock
  BY DEF Init, HeldByLock
<1>3. SeenIsChained
  BY DEF Init, SeenIsChained, RowsSeenBy, IsChain
<1>4. TailIsCurrent
  BY DEF Init, TailIsCurrent
<1> QED  BY <1>1, <1>2, <1>3, <1>4 DEF IInv

LEMMA IInvStep == IInv /\ [Next]_vars => IInv'
BY TypeStep, LockStep, ChainStep, TailStep DEF IInv

\* Every variable of the store keeps its type.
THEOREM TypeCorrect == Spec => []TypeOK
<1>1. IInv => TypeOK
  BY DEF IInv
<1> QED  BY <1>1, InitIInv, IInvStep, PTL DEF Spec

\* The rows of a unit are one chain: whatever the stations do at once, one
\* position, one row (append_event and append_measurement of repo.rs under the
\* lock of lock_unit).
THEOREM Chained == Spec => []EvidenceIsChained
<1>1. IInv => EvidenceIsChained
  BY DEF IInv, SeenIsChained, EvidenceIsChained
<1> QED  BY <1>1, InitIInv, IInvStep, PTL DEF Spec

-----------------------------------------------------------------------------
(* The ledger. *)

\* The row an append inserts is the last of what its transaction then sees.
LEMMA InsertedIsLast ==
  ASSUME IInv, NEW t \in Tx, NEW table \in Tables, NEW payload \in Payloads,
         InsertRow(t, table, payload)
  PROVE  \E row \in Rows :
           /\ \A q \in RowsSeenBy(t, target[t]) : q.seq < row.seq
           /\ IsLast(RowsSeenBy(t, target[t]) \cup {row}, row)
           /\ pending' = [pending EXCEPT ![t][target[t]] = @ \cup {row}]
<1> DEFINE row == IF tail[t] = None THEN FirstRow(table, payload)
                  ELSE AppendRow(tail[t], table, payload)
           rows == RowsSeenBy(t, target[t])
<1>1. target[t] \in Units /\ tail[t] \in ChainTail(rows)
  BY DEF InsertRow, IInv, HeldByLock, TailIsCurrent
<1>2. rows \in SUBSET Rows
  BY <1>1 DEF IInv, TypeOK, RowsSeenBy
<1>3. row \in Rows /\ \A q \in rows : q.seq < row.seq
  <2>1. CASE rows = {}
    <3>1. tail[t] = None
      BY <1>1, <2>1 DEF ChainTail
    <3> QED  BY <2>1, <3>1, FirstRowIsChain
  <2>2. CASE rows # {}
    <3>1. tail[t] \in rows /\ \A q \in rows : q.seq <= tail[t].seq
      BY <1>1, <2>2 DEF ChainTail
    <3>2. tail[t] \in Rows /\ tail[t] # None
      BY <1>2, <3>1, NoneIsNothing
    <3>3. row = AppendRow(tail[t], table, payload)
      BY <3>2
    <3>4. row \in Rows /\ row.seq = tail[t].seq + 1
      BY <3>2, <3>3 DEF AppendRow, Rows, RowHash, Hashes
    <3>5. \A q \in rows : q.seq \in Nat /\ tail[t].seq \in Nat
      BY <1>2, <3>2 DEF Rows
    <3> HIDE DEF row, rows
    <3> QED  BY <3>1, <3>4, <3>5
  <2> QED  BY <2>1, <2>2
<1>4. pending' = [pending EXCEPT ![t][target[t]] = @ \cup {row}]
  BY DEF InsertRow
<1> HIDE DEF row
<1>5. IsLast(rows \cup {row}, row)
  BY <1>2, <1>3 DEF IsLast, Rows
<1> QED  BY <1>3, <1>4, <1>5

LEMMA FollowsStep ==
  ASSUME IInv, PendingFollows, [Next]_vars
  PROVE  PendingFollows'
<1> USE DEF IInv
<1>1. CASE evidence' = evidence /\ pending' = pending
  BY <1>1 DEF PendingFollows, RowsSeenBy
<1>2. ASSUME NEW t \in Tx, Commit(t) PROVE PendingFollows'
  <2>1. \A u \in Units : evidence'[u] = RowsSeenBy(t, u)
    BY <1>2 DEF Commit
  <2>2. \A s \in Tx, u \in Units :
          pending'[s][u] = IF s = t THEN {} ELSE pending[s][u]
    BY <1>2 DEF TypeOK, Commit, Release
  <2>3. \A s \in Tx, u \in Units :
          pending'[s][u] # {} => pending'[s][u] = pending[s][u] /\ evidence'[u] = evidence[u]
    <3> SUFFICES ASSUME NEW s \in Tx, NEW u \in Units, pending'[s][u] # {}
                 PROVE  pending'[s][u] = pending[s][u] /\ evidence'[u] = evidence[u]
      OBVIOUS
    <3>1. s # t /\ pending'[s][u] = pending[s][u]
      BY <2>2
    <3>2. pending[t][u] = {}
      BY <3>1 DEF HeldByLock
    <3> QED  BY <2>1, <3>1, <3>2 DEF RowsSeenBy
  <2>4. \A s \in Tx, u \in Units :
          RowsSeenBy(s, u)' \in {RowsSeenBy(t, u), RowsSeenBy(s, u)}
    BY <2>1, <2>3 DEF RowsSeenBy
  <2> QED  BY <2>1, <2>3, <2>4 DEF PendingFollows
<1>3. ASSUME NEW t \in Tx, Rollback(t) PROVE PendingFollows'
  <2>1. /\ evidence' = evidence
        /\ \A s \in Tx, u \in Units :
             pending'[s][u] = IF s = t THEN {} ELSE pending[s][u]
    BY <1>3 DEF TypeOK, Rollback, Release, committed
  <2>2. \A s \in Tx, u \in Units :
          RowsSeenBy(s, u)' = IF s = t THEN evidence[u] ELSE RowsSeenBy(s, u)
    BY <2>1 DEF RowsSeenBy
  <2> QED  BY <2>1, <2>2 DEF PendingFollows
<1>4. ASSUME NEW t \in Tx, NEW table \in Tables, NEW payload \in Payloads,
             InsertRow(t, table, payload)
      PROVE  PendingFollows'
  <2> DEFINE rows == RowsSeenBy(t, target[t])
  <2>1. PICK row \in Rows :
          /\ \A q \in rows : q.seq < row.seq
          /\ IsLast(rows \cup {row}, row)
          /\ pending' = [pending EXCEPT ![t][target[t]] = @ \cup {row}]
    BY <1>4, InsertedIsLast
  <2>2. target[t] \in Units /\ evidence' = evidence
    BY <1>4 DEF InsertRow, HeldByLock, committed
  <2>3. \A s \in Tx, u \in Units :
          pending'[s][u] = IF s = t /\ u = target[t] THEN pending[s][u] \cup {row}
                           ELSE pending[s][u]
    BY <2>1, <2>2 DEF TypeOK
  <2>4. \A s \in Tx, u \in Units :
          RowsSeenBy(s, u)' = IF s = t /\ u = target[t] THEN rows \cup {row}
                              ELSE RowsSeenBy(s, u)
    BY <2>2, <2>3 DEF RowsSeenBy
  <2>5. \A q \in evidence[target[t]] : q.seq < row.seq
    BY <2>1 DEF RowsSeenBy
  <2>6. HasLast(rows \cup {row})
    BY <2>1 DEF HasLast
  <2> HIDE DEF rows
  <2>7. \A s \in Tx, u \in Units : HasLast(RowsSeenBy(s, u)')
    BY <2>4, <2>6 DEF PendingFollows
  <2>8. \A s \in Tx, u \in Units :
          \A r \in pending'[s][u], q \in evidence'[u] : q.seq < r.seq
    <3> TAKE s \in Tx, u \in Units
    <3> TAKE r \in pending'[s][u], q \in evidence'[u]
    <3>1. q \in evidence[u]
      BY <2>2
    <3>2. r \in pending[s][u] \/ (r = row /\ u = target[t])
      <4>1. CASE s = t /\ u = target[t]
        <5>1. pending'[s][u] = pending[s][u] \cup {row}
          BY <2>3, <4>1
        <5> QED  BY <4>1, <5>1
      <4>2. CASE ~(s = t /\ u = target[t])
        BY <2>3, <4>2
      <4> QED  BY <4>1, <4>2
    <3> QED  BY <3>1, <3>2, <2>5 DEF PendingFollows
  <2> QED  BY <2>2, <2>7, <2>8 DEF PendingFollows, HasLast, IsLast
<1> QED
  BY <1>1, <1>2, <1>3, <1>4
     DEF Next, vars, committed, session, Begin, LockUnit, ReadTail, InsertUnit,
         SetUnitState, RequestAppend, ReadUnit, RequestBirth, RequestUpdate

LEMMA BornStep ==
  ASSUME IInv, AppendsToBorn, [Next]_vars
  PROVE  AppendsToBorn'
<1> USE DEF IInv, AppendsToBorn
<1>1. CASE UNCHANGED vars
  BY <1>1 DEF StateSeenBy, vars, committed, session
<1>2. ASSUME NEW t \in Tx,
             \/ Begin(t) \/ LockUnit(t) \/ ReadTail(t)
             \/ \E u \in Units : RequestAppend(t, u) \/ ReadUnit(t, u) \/ RequestBirth(t, u)
             \/ \E u \in Units, next \in Targets : RequestUpdate(t, u, next)
      PROVE  AppendsToBorn'
  <2>1. UNCHANGED <<state, draft, pending>>
    BY <1>2
       DEF Begin, LockUnit, ReadTail, RequestAppend, ReadUnit, RequestBirth,
           RequestUpdate, committed
  <2>2. \A s \in Tx, u \in Units :
          pc'[s] \in {"locking", "tail", "insert"} /\ target'[s] = u =>
            \/ pc[s] \in {"locking", "tail", "insert"} /\ target[s] = u
            \/ StateSeenBy(s, u) # None
    BY <1>2
       DEF TypeOK, Begin, LockUnit, ReadTail, RequestAppend, ReadUnit, RequestBirth,
           RequestUpdate
  <2>3. \A s \in Tx : pc'[s] = "updating" => goal'[s] # None
    BY <1>2, NoneIsNothing, StoreAssumption
       DEF TypeOK, Begin, LockUnit, ReadTail, RequestAppend, ReadUnit, RequestBirth,
           RequestUpdate
  <2> QED  BY <2>1, <2>2, <2>3 DEF StateSeenBy
<1>3. ASSUME NEW t \in Tx, Commit(t) PROVE AppendsToBorn'
  <2>1. \A u \in Units : state[u] # None => state'[u] # None
    BY <1>3 DEF Commit, StateSeenBy
  <2>2. \A s \in Tx :
          /\ s # t => /\ pending'[s] = pending[s] /\ draft'[s] = draft[s]
                      /\ pc'[s] = pc[s] /\ target'[s] = target[s] /\ goal'[s] = goal[s]
          /\ pc'[t] = "idle" /\ \A u \in Units : pending'[t][u] = {}
    BY <1>3 DEF TypeOK, Commit, Release
  <2> QED  BY <2>1, <2>2 DEF StateSeenBy
<1>4. ASSUME NEW t \in Tx, Rollback(t) PROVE AppendsToBorn'
  <2>1. /\ state' = state
        /\ \A s \in Tx :
             /\ s # t => /\ pending'[s] = pending[s] /\ draft'[s] = draft[s]
                         /\ pc'[s] = pc[s] /\ target'[s] = target[s] /\ goal'[s] = goal[s]
             /\ pc'[t] = "idle" /\ \A u \in Units : pending'[t][u] = {}
    BY <1>4 DEF TypeOK, Rollback, Release, committed
  <2> QED  BY <2>1 DEF StateSeenBy
<1>5. ASSUME NEW t \in Tx, NEW table \in Tables, NEW payload \in Payloads,
             InsertRow(t, table, payload)
      PROVE  AppendsToBorn'
  <2>1. /\ UNCHANGED <<state, draft, goal>>
        /\ pc[t] = "insert"
        /\ \A s \in Tx, u \in Units : pending'[s][u] # {} =>
             pending[s][u] # {} \/ (s = t /\ u = target[t])
        /\ \A s \in Tx : s # t => pc'[s] = pc[s] /\ target'[s] = target[s]
        /\ pc'[t] = "ready"
    BY <1>5 DEF HeldByLock, TypeOK, InsertRow, committed
  <2> QED  BY <2>1 DEF StateSeenBy
<1>6. ASSUME NEW t \in Tx, InsertUnit(t) \/ SetUnitState(t) PROVE AppendsToBorn'
  <2>1. target[t] \in Units
    BY <1>6 DEF HeldByLock, InsertUnit, SetUnitState
  <2>2. \E next \in UnitStates : draft' = [draft EXCEPT ![t][target[t]] = next]
    <3>1. CASE InsertUnit(t)
      BY <3>1 DEF InsertUnit, UnitStates
    <3>2. CASE SetUnitState(t)
      BY <3>2 DEF SetUnitState, TypeOK, States
    <3> QED  BY <1>6, <3>1, <3>2
  <2>3. \A s \in Tx, u \in Units : draft'[s][u] = draft[s][u] \/ draft'[s][u] # None
    BY <2>1, <2>2, NoneIsNothing DEF TypeOK
  <2>4. /\ UNCHANGED <<state, pending>>
        /\ \A s \in Tx :
             s # t => pc'[s] = pc[s] /\ target'[s] = target[s] /\ goal'[s] = goal[s]
        /\ pc'[t] = "ready"
    BY <1>6 DEF TypeOK, InsertUnit, SetUnitState, committed
  <2> QED  BY <2>3, <2>4 DEF StateSeenBy
<1> QED  BY <1>1, <1>2, <1>3, <1>4, <1>5, <1>6 DEF Next

LEMMA ScrapStep ==
  ASSUME IInv, ScrapStands, [Next]_vars
  PROVE  ScrapStands'
<1> USE DEF IInv, ScrapStands
<1>1. CASE UNCHANGED <<state, retired, draft>>
  BY <1>1
<1>2. ASSUME NEW t \in Tx, Commit(t) PROVE ScrapStands'
  <2>1. \A u \in Units : state'[u] = StateSeenBy(t, u)
    BY <1>2 DEF Commit
  <2>2. \A s \in Tx, u \in Units :
          draft'[s][u] = IF s = t THEN None ELSE draft[s][u]
    BY <1>2 DEF TypeOK, Commit, Release
  <2>3. retired' = {u \in Units : state'[u] = "SCRAPPED"}
    <3>1. retired' = {u \in Units : state[u] = "SCRAPPED" \/ draft[t][u] = "SCRAPPED"}
      BY <1>2 DEF Commit
    <3>2. \A u \in Units :
            state'[u] = "SCRAPPED" <=> state[u] = "SCRAPPED" \/ draft[t][u] = "SCRAPPED"
      BY <2>1, StoreAssumption DEF StateSeenBy, UnitStates
    <3> QED  BY <3>1, <3>2
  <2>4. \A s \in Tx, u \in Units :
          draft'[s][u] # None => draft'[s][u] = draft[s][u] /\ state'[u] = state[u]
    <3> SUFFICES ASSUME NEW s \in Tx, NEW u \in Units, draft'[s][u] # None
                 PROVE  draft'[s][u] = draft[s][u] /\ state'[u] = state[u]
      OBVIOUS
    <3>1. s # t /\ draft'[s][u] = draft[s][u]
      BY <2>2
    <3>2. draft[t][u] = None
      BY <3>1 DEF HeldByLock
    <3> QED  BY <2>1, <3>1, <3>2 DEF StateSeenBy
  <2> QED  BY <2>3, <2>4
<1>3. ASSUME NEW t \in Tx, Rollback(t) PROVE ScrapStands'
  <2>1. \A s \in Tx, u \in Units : draft'[s][u] \in {None, draft[s][u]}
    BY <1>3 DEF TypeOK, Rollback, Release
  <2> QED  BY <1>3, <2>1 DEF Rollback, committed
<1>4. ASSUME NEW t \in Tx, InsertUnit(t) PROVE ScrapStands'
  <2>1. target[t] \in Units /\ state[target[t]] = None
    BY <1>4 DEF InsertUnit, HeldByLock, StateSeenBy
  <2>2. \A s \in Tx, u \in Units : u # target[t] => draft'[s][u] = draft[s][u]
    BY <1>4, <2>1 DEF TypeOK, InsertUnit
  <2>3. state[target[t]] # "SCRAPPED"
    BY <2>1, NoneIsNothing DEF UnitStates
  <2> QED  BY <1>4, <2>2, <2>3 DEF InsertUnit, committed
<1>5. ASSUME NEW t \in Tx, SetUnitState(t) PROVE ScrapStands'
  <2>1. target[t] \in Units
    BY <1>5 DEF SetUnitState, HeldByLock
  <2>2. \A s \in Tx, u \in Units :
          draft'[s][u] = IF s = t /\ u = target[t] THEN goal[t] ELSE draft[s][u]
    BY <1>5, <2>1 DEF TypeOK, SetUnitState
  <2>3. state[target[t]] = "SCRAPPED" => goal[t] = "SCRAPPED"
    BY <1>5, <2>1 DEF SetUnitState, ScrapIsTerminal, StateSeenBy
  <2> QED  BY <1>5, <2>2, <2>3 DEF SetUnitState, committed
<1> QED
  BY <1>1, <1>2, <1>3, <1>4, <1>5
     DEF Next, vars, committed, session, Begin, LockUnit, ReadTail, InsertRow,
         RequestAppend, ReadUnit, RequestBirth, RequestUpdate

LEMMA InitLedgerInv == Init => LedgerInv
<1> SUFFICES ASSUME Init PROVE PendingFollows /\ AppendsToBorn /\ ScrapStands
  BY InitIInv DEF LedgerInv
<1>1. \A u \in Units : state[u] # "SCRAPPED"
  BY NoneIsNothing DEF Init, UnitStates
<1> QED
  BY <1>1
     DEF Init, PendingFollows, AppendsToBorn, ScrapStands, RowsSeenBy, HasLast

LEMMA LedgerInvStep == LedgerInv /\ [Next]_vars => LedgerInv'
BY IInvStep, FollowsStep, BornStep, ScrapStep DEF LedgerInv

\* What a commit does to a unit: rows after all there were, a state that is none
\* or stays what it is when scrapped.
LEMMA CommitEnters ==
  ASSUME LedgerInv, NEW t \in Tx, Commit(t), NEW u \in Units
  PROVE  /\ evidence[u] \subseteq evidence'[u]
         /\ \A r \in evidence'[u] \ evidence[u], q \in evidence[u] : q.seq < r.seq
         /\ evidence'[u] # evidence[u] => state'[u] # None
         /\ state[u] # None => state'[u] # None
         /\ state[u] = "SCRAPPED" => state'[u] = "SCRAPPED"
<1> USE DEF LedgerInv
<1>1. evidence'[u] = evidence[u] \cup pending[t][u] /\ state'[u] = StateSeenBy(t, u)
  BY DEF Commit, RowsSeenBy
<1>2. \A r \in pending[t][u], q \in evidence[u] : q.seq < r.seq
  BY DEF PendingFollows
<1>3. pending[t][u] # {} => StateSeenBy(t, u) # None
  BY DEF AppendsToBorn
<1>4. state[u] = "SCRAPPED" => StateSeenBy(t, u) = "SCRAPPED"
  BY DEF ScrapStands, StateSeenBy
<1> QED  BY <1>1, <1>2, <1>3, <1>4 DEF StateSeenBy

\* Only a commit changes what is committed.
LEMMA CommittedStays ==
  ASSUME [Next]_vars, \A t \in Tx : ~Commit(t)
  PROVE  UNCHANGED committed
BY DEF Next, vars, committed, session, Begin, Rollback, LockUnit, ReadTail, InsertRow,
       InsertUnit, SetUnitState, RequestAppend, ReadUnit, RequestBirth, RequestUpdate

\* No commit, rollback or race takes evidence back, puts a row among older ones
\* or brings a scrapped unit back (0003_integrity.sql).
THEOREM NothingTakenBack == Spec => NothingIsTakenBack
<1> DEFINE A == \A u \in Units :
                  /\ evidence[u] \subseteq evidence'[u]
                  /\ \A r \in evidence'[u] \ evidence[u], q \in evidence[u] : q.seq < r.seq
                  /\ state[u] = "SCRAPPED" => state'[u] = "SCRAPPED"
<1>1. LedgerInv /\ [Next]_vars => [A]_vars
  <2> SUFFICES ASSUME LedgerInv, [Next]_vars PROVE A
    OBVIOUS
  <2>1. CASE \E t \in Tx : Commit(t)
    BY <2>1, CommitEnters
  <2>2. CASE \A t \in Tx : ~Commit(t)
    BY <2>2, CommittedStays DEF committed
  <2> QED  BY <2>1, <2>2
<1> QED  BY <1>1, InitLedgerInv, LedgerInvStep, PTL DEF Spec, NothingIsTakenBack

-----------------------------------------------------------------------------
(* The refinement: what a unit's chain covers is its page of the ledger. *)

LEMMA CoveredIsLast ==
  ASSUME NEW rows \in SUBSET Rows, rows # {}, HasLast(rows)
  PROVE  \E r \in rows : IsLast(rows, r) /\ Covered(rows) = r.hash
<1> DEFINE r == CHOOSE r \in rows : \A q \in rows : q.seq <= r.seq
<1>1. IsLast(rows, r)
  BY DEF HasLast, IsLast
<1>2. Covered(rows) = r.hash
  BY DEF Covered
<1> QED  BY <1>1, <1>2 DEF IsLast

\* The history a longer chain covers goes on from that of the shorter one.
LEMMA CoveredExtends ==
  ASSUME NEW rows \in SUBSET Rows, NEW more \in SUBSET Rows, rows \subseteq more,
         HasLast(rows), HasLast(more), IsChain(more)
  PROVE  /\ Covered(rows) \in Seq(Payloads)
         /\ Covered(more) \in Seq(Payloads)
         /\ Promise!Extends(Covered(more), Covered(rows))
<1>1. ASSUME NEW s \in SUBSET Rows, HasLast(s) PROVE Covered(s) \in Seq(Payloads)
  <2>1. CASE s = {}
    BY <2>1 DEF Covered, GENESIS
  <2>2. CASE s # {}
    BY <1>1, <2>2, CoveredIsLast DEF Rows, Hashes
  <2> QED  BY <2>1, <2>2
<1>2. CASE rows = {}
  <2>1. Covered(rows) = <<>>
    BY <1>2 DEF Covered, GENESIS
  <2> QED  BY <1>1, <2>1 DEF Promise!Extends
<1>3. CASE rows # {}
  <2>1. PICK r \in rows : Covered(rows) = r.hash
    BY <1>3, CoveredIsLast
  <2>2. PICK l \in more : IsLast(more, l) /\ Covered(more) = l.hash
    BY <1>3, CoveredIsLast
  <2>3. Extends(l.hash, r.hash)
    BY <2>1, <2>2 DEF IsChain, IsLast
  <2> QED  BY <1>1, <2>1, <2>2, <2>3 DEF Extends, Promise!Extends
<1> QED  BY <1>2, <1>3

\* A commit is one transaction of the ledger.
LEMMA CommitTransacts ==
  ASSUME LedgerInv, LedgerInv', NEW t \in Tx, Commit(t)
  PROVE  Promise!Transact
<1> DEFINE page(u) == Covered(evidence[u])
<1>1. \A u \in Units : /\ evidence[u] \in SUBSET Rows /\ evidence'[u] \in SUBSET Rows
                       /\ HasLast(evidence[u]) /\ HasLast(evidence'[u])
                       /\ IsChain(evidence'[u]) /\ evidence[u] \subseteq evidence'[u]
  BY CommitEnters DEF LedgerInv, IInv, TypeOK, PendingFollows, SeenIsChained
<1>2. \A u \in Units : /\ Covered(evidence'[u]) \in Seq(Payloads)
                       /\ Promise!Extends(Covered(evidence'[u]), Covered(evidence[u]))
  BY <1>1, CoveredExtends
<1>3. \A u \in Units : Covered(evidence'[u]) # Covered(evidence[u]) => state'[u] # None
  BY CommitEnters
<1>4. \A u \in Units : /\ state[u] # None => state'[u] # None
                       /\ u \in retired => state'[u] = "SCRAPPED"
  BY CommitEnters DEF LedgerInv, ScrapStands
<1>5. state' \in [Units -> States]
  BY DEF LedgerInv, IInv, TypeOK
<1>6. retired' = {u \in Units : state'[u] = "SCRAPPED"}
  BY DEF LedgerInv, ScrapStands
<1> QED  BY <1>2, <1>3, <1>4, <1>5, <1>6 DEF Promise!Transact

\* Every run of the stations' transactions is a run of the ledger: a commit enters
\* and moves all at once, and no other step does anything.
THEOREM LedgerIsImplemented == Spec => ImplementsLedger
<1>1. Init => Promise!Init
  BY DEF Init, Promise!Init, Covered, GENESIS
<1>2. LedgerInv /\ LedgerInv' /\ [Next]_vars => [Promise!Transact]_(Promise!vars)
  <2> SUFFICES ASSUME LedgerInv, LedgerInv', [Next]_vars
               PROVE  Promise!Transact \/ UNCHANGED Promise!vars
    OBVIOUS
  <2>1. CASE \E t \in Tx : Commit(t)
    BY <2>1, CommitTransacts
  <2>2. CASE \A t \in Tx : ~Commit(t)
    BY <2>2, CommittedStays DEF committed, Promise!vars
  <2> QED  BY <2>1, <2>2
<1> QED  BY <1>1, <1>2, InitLedgerInv, LedgerInvStep, PTL DEF Spec, ImplementsLedger, Promise!Spec

-----------------------------------------------------------------------------
(* The audits: what the two verifications say of rows changed behind the   *)
(* application's back.                                                     *)

LEMMA LeastNumber ==
  ASSUME NEW T \in SUBSET Nat, T # {}
  PROVE  \E n \in T : \A m \in T : n <= m
<1> DEFINE R == {ss \in Nat \X Nat : ss[1] < ss[2]}
<1>1. IsWellFoundedOn(R, Nat)
  BY NatLessThanWellFounded DEF OpToRel
<1> HIDE DEF R
<1>2. PICK n \in T : \A m \in T : ~(<<m, n>> \in R)
  BY <1>1, WFMin
<1>3. \A m \in T : ~(m < n)
  BY <1>2 DEF R
<1> QED  BY <1>3

\* Rows in the order of a chain, from its first.
InChain(s) ==
  /\ s \in Seq(Rows)
  /\ \A i \in 1..Len(s) :
       /\ Len(s[i].prev) = i - 1
       /\ s[i].prev = IF i = 1 THEN GENESIS ELSE s[i - 1].hash
       /\ s[i].hash = RowHash(s[i].prev, s[i].payload)

\* Rows that carry links of s, whatever else they say and in whatever order.
LinkedAs(d, s) ==
  /\ d \in Seq(Rows)
  /\ \A i \in 1..Len(d) : \E k \in 1..Len(s) : d[i].prev = s[k].prev /\ d[i].hash = s[k].hash

LEMMA PrefixIs ==
  ASSUME NEW T, NEW s \in Seq(T), NEW t \in Seq(T)
  PROVE  IsPrefix(s, t) <=> Len(s) <= Len(t) /\ \A i \in 1..Len(s) : s[i] = t[i]
<1>1. Len(s) \in Nat /\ Len(t) \in Nat
  OBVIOUS
<1>2. ASSUME Len(s) <= Len(t)
      PROVE  SubSeq(s, 1, Len(s)) = SubSeq(t, 1, Len(s)) <=> \A i \in 1..Len(s) : s[i] = t[i]
  <2> PICK n : n = Len(s)
    OBVIOUS
  <2> DEFINE a == SubSeq(s, 1, n)
             b == SubSeq(t, 1, n)
  <2>1. /\ a \in Seq(T) /\ Len(a) = n /\ \A i \in 1..n : a[i] = s[i]
        /\ b \in Seq(T) /\ Len(b) = n /\ \A i \in 1..n : b[i] = t[i]
    BY <1>1, <1>2
  <2> HIDE DEF a, b
  <2>2. a = b <=> \A i \in 1..n : a[i] = b[i]
    BY <1>1, <2>1
  <2>3. a = b <=> \A i \in 1..n : s[i] = t[i]
    BY <2>1, <2>2
  <2> QED  BY <2>3 DEF a, b
<1> QED  BY <1>2 DEF IsPrefix

LEMMA SubSeqIs ==
  ASSUME NEW T, NEW s \in Seq(T), NEW m \in 1..(Len(s) + 1), NEW n \in 0..Len(s), n >= m - 1
  PROVE  /\ SubSeq(s, m, n) \in Seq(T) /\ Len(SubSeq(s, m, n)) = n - m + 1
         /\ \A j \in 1..(n - m + 1) : SubSeq(s, m, n)[j] = s[m + j - 1]
<1>1. Len(s) \in Nat /\ \A j \in 1..Len(s) : s[j] \in T
  OBVIOUS
<1>2. \A j \in m..n : s[j] \in T
  BY <1>1
<1> QED  BY <1>1, <1>2

LEMMA HeadIs ==
  ASSUME NEW T, NEW s \in Seq(T), NEW i \in 1..Len(s)
  PROVE  /\ SubSeq(s, 1, i - 1) \in Seq(T) /\ Len(SubSeq(s, 1, i - 1)) = i - 1
         /\ \A j \in 1..(i - 1) : SubSeq(s, 1, i - 1)[j] = s[j]
<1> PICK n : n = i - 1
  OBVIOUS
<1>1. 1 \in 1..(Len(s) + 1) /\ n \in 0..Len(s) /\ n >= 1 - 1 /\ n \in Nat /\ n - 1 + 1 = n
  OBVIOUS
<1>2. /\ SubSeq(s, 1, n) \in Seq(T) /\ Len(SubSeq(s, 1, n)) = n - 1 + 1
      /\ \A j \in 1..(n - 1 + 1) : SubSeq(s, 1, n)[j] = s[1 + j - 1]
  BY <1>1, SubSeqIs
<1>3. \A j \in 1..n : 1 + j - 1 = j
  BY <1>1
<1> QED  BY <1>1, <1>2, <1>3

LEMMA TailIs ==
  ASSUME NEW T, NEW s \in Seq(T), NEW i \in 1..Len(s), NEW h \in {0, 1}
  PROVE  /\ SubSeq(s, i + h, Len(s)) \in Seq(T) /\ Len(SubSeq(s, i + h, Len(s))) = Len(s) - i + 1 - h
         /\ \A j \in 1..(Len(s) - i + 1 - h) : SubSeq(s, i + h, Len(s))[j] = s[i + j - 1 + h]
<1> PICK m, n : m = i + h /\ n = Len(s)
  OBVIOUS
<1>1. /\ m \in 1..(Len(s) + 1) /\ n \in 0..Len(s) /\ n >= m - 1 /\ m \in Nat /\ n \in Nat
      /\ n - m + 1 = n - i + 1 - h
  OBVIOUS
<1>2. /\ SubSeq(s, m, n) \in Seq(T) /\ Len(SubSeq(s, m, n)) = n - m + 1
      /\ \A j \in 1..(n - m + 1) : SubSeq(s, m, n)[j] = s[m + j - 1]
  <2>1. s \in Seq(T) /\ m \in 1..(Len(s) + 1) /\ n \in 0..Len(s) /\ n >= m - 1
    BY <1>1
  <2> QED  BY <2>1, SubSeqIs, Zenon
<1>3. \A j \in 1..(n - m + 1) : m + j - 1 = i + j - 1 + h
  BY <1>1
<1> QED  BY <1>1, <1>2, <1>3

LEMMA ExceptIs ==
  ASSUME NEW T, NEW s \in Seq(T), NEW i \in 1..Len(s), NEW x \in T
  PROVE  /\ [s EXCEPT ![i] = x] \in Seq(T) /\ Len([s EXCEPT ![i] = x]) = Len(s)
         /\ \A k \in 1..Len(s) : [s EXCEPT ![i] = x][k] = IF k = i THEN x ELSE s[k]
OBVIOUS

LEMMA ConcatIs ==
  ASSUME NEW T, NEW a \in Seq(T), NEW b \in Seq(T)
  PROVE  /\ a \o b \in Seq(T) /\ Len(a \o b) = Len(a) + Len(b)
         /\ \A j \in 1..Len(a) : (a \o b)[j] = a[j]
         /\ \A j \in 1..Len(b) : (a \o b)[Len(a) + j] = b[j]
<1> PICK n, m : n = Len(a) /\ m = Len(b)
  OBVIOUS
<1>1. n \in Nat /\ m \in Nat /\ a \o b \in Seq(T) /\ Len(a \o b) = n + m
  OBVIOUS
<1>2. ASSUME NEW j \in 1..n PROVE (a \o b)[j] = a[j]
  OBVIOUS
<1>3. ASSUME NEW j \in 1..m PROVE (a \o b)[n + j] = b[j]
  <2>1. n + j \in 1..(n + m) /\ ~(n + j <= n) /\ (n + j) - n = j
    BY <1>1
  <2> QED  BY <1>1, <2>1
<1> QED  BY <1>1, <1>2, <1>3

\* A hash covers the rows up to its own.
LEMMA HashCounts ==
  ASSUME NEW s, InChain(s), NEW i \in 1..Len(s)
  PROVE  Len(s[i].hash) = i
<1>1. s[i].hash = RowHash(s[i].prev, s[i].payload) /\ Len(s[i].prev) = i - 1
  BY DEF InChain
<1>2. s[i] \in Rows /\ i \in Nat
  BY DEF InChain
<1> PICK r : r = s[i]
  OBVIOUS
<1>3. r.prev \in Seq(Payloads)
  BY <1>2 DEF Rows, Hashes
<1> QED  BY <1>1, <1>2, <1>3 DEF RowHash

\* Rows whose links hold have the links of the chain, up to some row of it.
LEMMA LinksArePrefix ==
  ASSUME NEW s, NEW d, InChain(s), LinkedAs(d, s), LinksHold(d)
  PROVE  \A i \in 1..Len(d) : i <= Len(s) /\ d[i].prev = s[i].prev /\ d[i].hash = s[i].hash
<1> DEFINE At(i) == i <= Len(s) /\ d[i].prev = s[i].prev /\ d[i].hash = s[i].hash
           Bad == {i \in 1..Len(d) : ~At(i)}
<1> SUFFICES ASSUME Bad # {} PROVE FALSE
  OBVIOUS
<1>1. /\ Len(d) \in Nat /\ DOMAIN d = 1..Len(d)
      /\ Len(s) \in Nat /\ DOMAIN s = 1..Len(s)
  BY DEF LinkedAs, InChain
<1>2. PICK i \in Bad : \A j \in Bad : i <= j
  <2>1. Bad \in SUBSET Nat
    BY <1>1
  <2> HIDE DEF Bad
  <2> QED  BY <2>1, LeastNumber
<1>3. PICK k \in 1..Len(s) : d[i].prev = s[k].prev /\ d[i].hash = s[k].hash
  BY DEF LinkedAs
<1>4. i \in 1..Len(d) /\ ~At(i) /\ i \in Nat /\ k \in Nat
  BY <1>1, <1>2
<1>5. d[i].prev = IF i = 1 THEN GENESIS ELSE d[i - 1].hash
  BY <1>1, <1>4 DEF LinksHold
<1>6. Len(s[k].prev) = k - 1
  BY DEF InChain
<1>7. CASE i = 1
  <2>1. Len(s[k].prev) = 0
    BY <1>3, <1>5, <1>7 DEF GENESIS
  <2>2. k = 1
    BY <1>4, <1>6, <2>1
  <2> QED  BY <1>1, <1>3, <1>4, <1>7, <2>2
<1>8. CASE i # 1
  <2>1. i - 1 \in 1..Len(d) /\ i - 1 \notin Bad
    BY <1>1, <1>2, <1>4, <1>8
  <2>2. i - 1 \in 1..Len(s) /\ d[i - 1].hash = s[i - 1].hash
    BY <1>1, <2>1
  <2> PICK j : j = i - 1
    OBVIOUS
  <2>5. Len(s[j].hash) = j
    BY <2>2, HashCounts
  <2>6. Len(s[k].prev) = j
    BY <1>3, <1>5, <1>8, <2>2, <2>5
  <2>7. k = i
    BY <1>4, <1>6, <2>6
  <2> QED  BY <1>1, <1>3, <1>4, <2>7
<1> QED  BY <1>7, <1>8

\* Both verifications are exact of any rows that carry links of a chain.
LEMMA LinksAreExact ==
  ASSUME NEW s, NEW d, InChain(s), LinkedAs(d, s)
  PROVE  LET linked == IsPrefix(HashesOf(d), HashesOf(s))
         IN  /\ Verify(d, PayloadsOf(d)) <=> linked /\ IsPrefix(PayloadsOf(d), PayloadsOf(s))
             /\ VerifyUnitChain(d) <=> linked
<1> DEFINE hd == HashesOf(d)
           hs == HashesOf(s)
           pd == PayloadsOf(d)
           ps == PayloadsOf(s)
<1>1. /\ Len(d) \in Nat /\ DOMAIN d = 1..Len(d) /\ \A i \in 1..Len(d) : d[i] \in Rows
      /\ Len(s) \in Nat /\ DOMAIN s = 1..Len(s) /\ \A i \in 1..Len(s) : s[i] \in Rows
  BY DEF LinkedAs, InChain
<1>2. /\ hd \in Seq(Hashes) /\ Len(hd) = Len(d) /\ \A i \in 1..Len(d) : hd[i] = d[i].hash
      /\ hs \in Seq(Hashes) /\ Len(hs) = Len(s) /\ \A i \in 1..Len(s) : hs[i] = s[i].hash
  BY <1>1 DEF HashesOf, Rows
<1>3. /\ pd \in Seq(Payloads) /\ Len(pd) = Len(d) /\ \A i \in 1..Len(d) : pd[i] = d[i].payload
      /\ ps \in Seq(Payloads) /\ Len(ps) = Len(s) /\ \A i \in 1..Len(s) : ps[i] = s[i].payload
  BY <1>1 DEF PayloadsOf, Rows
<1> HIDE DEF hd, hs, pd, ps
<1>4. IsPrefix(hd, hs) <=> \A i \in 1..Len(d) : i <= Len(s) /\ d[i].hash = s[i].hash
  <2>1. IsPrefix(hd, hs) <=> Len(hd) <= Len(hs) /\ \A i \in 1..Len(hd) : hd[i] = hs[i]
    BY <1>2, PrefixIs
  <2>2. Len(d) <= Len(s) <=> \A i \in 1..Len(d) : i <= Len(s)
    BY <1>1
  <2> QED  BY <1>1, <1>2, <2>1, <2>2
<1>5. IsPrefix(pd, ps) <=> \A i \in 1..Len(d) : i <= Len(s) /\ d[i].payload = s[i].payload
  <2>1. IsPrefix(pd, ps) <=> Len(pd) <= Len(ps) /\ \A i \in 1..Len(pd) : pd[i] = ps[i]
    BY <1>3, PrefixIs
  <2>2. Len(d) <= Len(s) <=> \A i \in 1..Len(d) : i <= Len(s)
    BY <1>1
  <2> QED  BY <1>1, <1>3, <2>1, <2>2
<1>6. LinksHold(d) => IsPrefix(hd, hs)
  BY <1>4, LinksArePrefix
<1>7. ASSUME IsPrefix(hd, hs)
      PROVE  LinksHold(d) /\ \A i \in 1..Len(d) : i <= Len(s) /\ d[i].prev = s[i].prev
                                                  /\ d[i].hash = s[i].hash
  <2>1. ASSUME NEW i \in 1..Len(d)
        PROVE  i \in 1..Len(s) /\ d[i].prev = s[i].prev /\ d[i].hash = s[i].hash
    <3>1. i \in 1..Len(s) /\ d[i].hash = s[i].hash
      BY <1>1, <1>4, <1>7
    <3>2. PICK k \in 1..Len(s) : d[i].prev = s[k].prev /\ d[i].hash = s[k].hash
      BY DEF LinkedAs
    <3>3. Len(s[i].hash) = i /\ Len(s[k].hash) = k
      BY <3>1, <3>2, HashCounts
    <3>4. k = i
      BY <3>1, <3>2, <3>3
    <3> QED  BY <3>1, <3>2, <3>4
  <2>2. ASSUME NEW i \in 1..Len(d)
        PROVE  d[i].prev = IF i = 1 THEN GENESIS ELSE d[i - 1].hash
    <3>1. i \in 1..Len(s) /\ d[i].prev = s[i].prev
      BY <2>1
    <3>2. s[i].prev = IF i = 1 THEN GENESIS ELSE s[i - 1].hash
      BY <3>1 DEF InChain
    <3>3. i # 1 => i - 1 \in 1..Len(d)
      BY <1>1
    <3>4. i # 1 => d[i - 1].hash = s[i - 1].hash
      BY <2>1, <3>3
    <3> QED  BY <3>1, <3>2, <3>4
  <2> QED  BY <1>1, <2>1, <2>2 DEF LinksHold
<1>8. ASSUME IsPrefix(hd, hs), NEW i \in 1..Len(d)
      PROVE  d[i].hash = RowHash(d[i].prev, pd[i]) <=> i <= Len(s) /\ d[i].payload = s[i].payload
  <2>1. i \in 1..Len(s) /\ d[i].prev = s[i].prev /\ d[i].hash = s[i].hash
    BY <1>1, <1>7, <1>8
  <2>2. s[i].hash = RowHash(s[i].prev, s[i].payload)
    BY <2>1 DEF InChain
  <2>3. s[i].prev \in Seq(Payloads) /\ s[i].payload \in Payloads /\ d[i].payload \in Payloads
    BY <1>1, <2>1 DEF Rows, Hashes
  <2>4. Append(s[i].prev, d[i].payload) = Append(s[i].prev, s[i].payload)
          => d[i].payload = s[i].payload
    <3> PICK n : n = Len(s[i].prev) + 1
      OBVIOUS
    <3>1. /\ Append(s[i].prev, d[i].payload)[n] = d[i].payload
          /\ Append(s[i].prev, s[i].payload)[n] = s[i].payload
      BY <2>3
    <3> QED  BY <3>1
  <2> QED  BY <1>1, <1>3, <2>1, <2>2, <2>4 DEF RowHash
<1>9. Len(d) = Len(pd)
  BY <1>3
<1>10. VerifyUnitChain(d) <=> IsPrefix(hd, hs)
  BY <1>6, <1>7 DEF VerifyUnitChain
<1>11. Verify(d, pd) <=> IsPrefix(hd, hs) /\ IsPrefix(pd, ps)
  <2>1. Verify(d, pd) <=> LinksHold(d) /\ \A i \in 1..Len(d) : d[i].hash = RowHash(d[i].prev, pd[i])
    BY <1>1, <1>9 DEF Verify
  <2> QED  BY <1>5, <1>6, <1>7, <1>8, <2>1
<1> QED  BY <1>10, <1>11 DEF hd, hs, pd, ps

\* A change to the stored rows leaves rows that carry links there were.
LEMMA ChangedIsLinked ==
  ASSUME NEW s, NEW c, LinkedAs(c, s), NEW d \in Changed(c)
  PROVE  LinkedAs(d, s)
<1>1. /\ c \in Seq(Rows) /\ Len(c) \in Nat /\ DOMAIN c = 1..Len(c)
      /\ \A i \in 1..Len(c) : c[i] \in Rows
  BY DEF LinkedAs
<1> SUFFICES /\ d \in Seq(Rows)
             /\ \A i \in 1..Len(d) : \E j \in 1..Len(c) : d[i].prev = c[j].prev /\ d[i].hash = c[j].hash
  <2>1. ASSUME NEW i \in 1..Len(d),
               NEW j \in 1..Len(c), d[i].prev = c[j].prev, d[i].hash = c[j].hash
        PROVE  \E k \in 1..Len(s) : d[i].prev = s[k].prev /\ d[i].hash = s[k].hash
    BY <2>1 DEF LinkedAs
  <2> QED  BY <2>1 DEF LinkedAs
<1>2. CASE d \in Edited(c)
  <2>1. PICK i \in 1..Len(c), p \in Payloads : d = [c EXCEPT ![i].payload = p]
    BY <1>1, <1>2 DEF Edited
  <2> PICK r : r = [c[i] EXCEPT !.payload = p]
    OBVIOUS
  <2>2. c[i] \in Rows
    BY <1>1
  <2>3. r \in Rows /\ r.prev = c[i].prev /\ r.hash = c[i].hash
    BY <2>2 DEF Rows
  <2>4. d = [c EXCEPT ![i] = r]
    BY <2>1
  <2>5. d \in Seq(Rows) /\ Len(d) = Len(c)
        /\ \A j \in 1..Len(c) : d[j] = IF j = i THEN r ELSE c[j]
    BY <1>1, <2>3, <2>4
  <2> QED  BY <2>3, <2>5
<1>3. CASE d \in Lost(c)
  <2>1. PICK i \in 1..Len(c) : d = RemoveAt(c, i)
    BY <1>1, <1>3 DEF Lost
  <2>10. PICK a, b : a = SubSeq(c, 1, i - 1) /\ b = SubSeq(c, i + 1, Len(c))
    OBVIOUS
  <2>2. /\ a \in Seq(Rows) /\ Len(a) = i - 1 /\ \A j \in 1..(i - 1) : a[j] = c[j]
        /\ b \in Seq(Rows) /\ Len(b) = Len(c) - i /\ \A j \in 1..(Len(c) - i) : b[j] = c[i + j]
    <3>1. a \in Seq(Rows) /\ Len(a) = i - 1 /\ \A j \in 1..(i - 1) : a[j] = c[j]
      BY <1>1, <2>10, HeadIs
    <3>2. /\ b \in Seq(Rows) /\ Len(b) = Len(c) - i + 1 - 1
          /\ \A j \in 1..(Len(c) - i + 1 - 1) : b[j] = c[i + j - 1 + 1]
      BY <1>1, <2>10, TailIs
    <3>3. Len(c) - i + 1 - 1 = Len(c) - i /\ \A j \in 1..(Len(c) - i) : i + j - 1 + 1 = i + j
      BY <1>1
    <3> QED  BY <3>1, <3>2, <3>3
  <2>3. d = a \o b
    BY <2>1, <2>10 DEF RemoveAt
  <2>11. PICK n, m : n = Len(a) /\ m = Len(b)
    OBVIOUS
  <2>4. /\ n \in Nat /\ m \in Nat /\ d \in Seq(Rows) /\ Len(d) = n + m
        /\ \A j \in 1..n : d[j] = a[j]
        /\ \A j \in 1..m : d[n + j] = b[j]
    <3>1. a \in Seq(Rows) /\ b \in Seq(Rows)
      BY <2>2
    <3>2. /\ a \o b \in Seq(Rows) /\ Len(a \o b) = Len(a) + Len(b)
          /\ \A j \in 1..Len(a) : (a \o b)[j] = a[j]
          /\ \A j \in 1..Len(b) : (a \o b)[Len(a) + j] = b[j]
      BY <3>1, ConcatIs
    <3>3. n \in Nat /\ m \in Nat
      BY <2>11, <3>1
    <3> QED  BY ONLY <2>3, <2>11, <3>2, <3>3
  <2>5. n = i - 1 /\ m = Len(c) - i /\ i \in Nat
    BY <1>1, <2>2, <2>11
  <2>6. ASSUME NEW j \in 1..Len(d) PROVE \E k \in 1..Len(c) : d[j] = c[k]
    <3>1. CASE j \in 1..n
      <4>1. d[j] = c[j] /\ j \in 1..Len(c)
        BY <1>1, <2>2, <2>4, <2>5, <3>1
      <4> QED  BY <4>1
    <3>2. CASE j \notin 1..n
      <4> PICK k : k = j - n
        OBVIOUS
      <4>1. k \in 1..m /\ j = n + k /\ i + k \in 1..Len(c)
        BY <1>1, <2>4, <2>5, <3>2
      <4>2. d[j] = b[k] /\ b[k] = c[i + k]
        BY <2>2, <2>4, <2>5, <4>1
      <4> QED  BY <4>1, <4>2
    <3> QED  BY <3>1, <3>2
  <2> QED  BY <2>4, <2>6
<1>4. CASE d \in Repeated(c)
  <2>1. PICK i \in 1..Len(c) : d = InsertAt(c, i, c[i])
    BY <1>1, <1>4 DEF Repeated
  <2>10. PICK a, b, e : a = SubSeq(c, 1, i - 1) /\ b = SubSeq(c, i, Len(c)) /\ e = a \o <<c[i]>>
    OBVIOUS
  <2>2. /\ a \in Seq(Rows) /\ Len(a) = i - 1 /\ \A j \in 1..(i - 1) : a[j] = c[j]
        /\ b \in Seq(Rows) /\ Len(b) = Len(c) - i + 1
        /\ \A j \in 1..(Len(c) - i + 1) : b[j] = c[i + j - 1]
    <3>1. a \in Seq(Rows) /\ Len(a) = i - 1 /\ \A j \in 1..(i - 1) : a[j] = c[j]
      BY <1>1, <2>10, HeadIs
    <3>2. i + 0 = i /\ Len(c) - i + 1 - 0 = Len(c) - i + 1 /\ \A j \in 1..(Len(c) - i + 1) : i + j - 1 + 0 = i + j - 1
      BY <1>1
    <3>3. /\ SubSeq(c, i + 0, Len(c)) \in Seq(Rows) /\ Len(SubSeq(c, i + 0, Len(c))) = Len(c) - i + 1 - 0
          /\ \A j \in 1..(Len(c) - i + 1 - 0) : SubSeq(c, i + 0, Len(c))[j] = c[i + j - 1 + 0]
      BY <1>1, TailIs
    <3> QED  BY <2>10, <3>1, <3>2, <3>3
  <2>11. PICK x, n, m : x = <<c[i]>> /\ n = Len(a) /\ m = Len(b)
    OBVIOUS
  <2>3. x \in Seq(Rows) /\ Len(x) = 1 /\ x[1] = c[i]
    BY <1>1, <2>11
  <2>4. e = a \o x /\ d = e \o b
    BY <2>1, <2>10, <2>11 DEF InsertAt
  <2>5. /\ n \in Nat /\ e \in Seq(Rows) /\ Len(e) = n + 1 /\ e[n + 1] = c[i]
        /\ \A j \in 1..n : e[j] = a[j]
    <3>1. a \in Seq(Rows)
      BY <2>2
    <3>2. /\ a \o x \in Seq(Rows) /\ Len(a \o x) = Len(a) + Len(x)
          /\ \A j \in 1..Len(a) : (a \o x)[j] = a[j]
          /\ \A j \in 1..Len(x) : (a \o x)[Len(a) + j] = x[j]
      BY <2>3, <3>1, ConcatIs
    <3>3. n \in Nat
      BY <2>11, <3>1
    <3> QED  BY ONLY <2>3, <2>4, <2>11, <3>2, <3>3
  <2>6. /\ m \in Nat /\ d \in Seq(Rows) /\ Len(d) = (n + 1) + m
        /\ \A j \in 1..(n + 1) : d[j] = e[j]
        /\ \A j \in 1..m : d[(n + 1) + j] = b[j]
    <3>0. e \in Seq(Rows)
      BY <2>5
    <3>1. b \in Seq(Rows)
      BY <2>2
    <3>2. /\ e \o b \in Seq(Rows) /\ Len(e \o b) = Len(e) + Len(b)
          /\ \A j \in 1..Len(e) : (e \o b)[j] = e[j]
          /\ \A j \in 1..Len(b) : (e \o b)[Len(e) + j] = b[j]
      BY ONLY <3>0, <3>1, ConcatIs
    <3>3. m \in Nat
      BY <2>11, <3>1
    <3>4. Len(e) = n + 1 /\ Len(b) = m /\ d = e \o b
      BY <2>4, <2>5, <2>11
    <3> QED  BY ONLY <3>2, <3>3, <3>4
  <2>7. n = i - 1 /\ m = Len(c) - i + 1 /\ i \in Nat /\ n + 1 = i /\ i \in 1..Len(c) /\ Len(d) = Len(c) + 1
    BY <1>1, <2>2, <2>6, <2>11
  <2>8. ASSUME NEW j \in 1..Len(d) PROVE \E k \in 1..Len(c) : d[j] = c[k]
    <3>1. CASE j \in 1..n
      <4>1. d[j] = c[j] /\ j \in 1..Len(c)
        BY <1>1, <2>2, <2>5, <2>6, <2>7, <3>1
      <4> QED  BY <4>1
    <3>2. CASE j = n + 1
      BY <2>5, <2>6, <3>2
    <3>3. CASE j \notin 1..(n + 1)
      <4> PICK k : k = j - i
        OBVIOUS
      <4>1. k \in 1..m /\ j = (n + 1) + k /\ i + k - 1 \in 1..Len(c)
        <5> PICK l : l = Len(c)
          OBVIOUS
        <5>1. l \in Nat /\ i \in 1..l /\ m = l - i + 1 /\ n + 1 = i /\ j \in 1..(l + 1) /\ ~(j <= i)
          BY <1>1, <2>7, <3>3
        <5> QED  BY <5>1
      <4>2. d[j] = b[k] /\ b[k] = c[i + k - 1]
        BY <2>2, <2>6, <2>7, <4>1
      <4> QED  BY <4>1, <4>2
    <3> QED  BY <2>5, <3>1, <3>2, <3>3
  <2> QED  BY <2>6, <2>8
<1>5. CASE d \in Swapped(c)
  <2>1. PICK i \in 1..Len(c), j \in 1..Len(c) :
               d = [c EXCEPT ![i] = [c[j] EXCEPT !.seq = c[i].seq],
                             ![j] = [c[i] EXCEPT !.seq = c[j].seq]]
    BY <1>1, <1>5 DEF Swapped
  <2>0. PICK r, q : r = [c[j] EXCEPT !.seq = c[i].seq] /\ q = [c[i] EXCEPT !.seq = c[j].seq]
    OBVIOUS
  <2>2. c[i] \in Rows /\ c[j] \in Rows
    BY <1>1
  <2>3. /\ r \in Rows /\ r.prev = c[j].prev /\ r.hash = c[j].hash
        /\ q \in Rows /\ q.prev = c[i].prev /\ q.hash = c[i].hash
    BY <2>0, <2>2 DEF Rows
  <2>4. PICK x : x = [c EXCEPT ![i] = r]
    OBVIOUS
  <2>5. d = [x EXCEPT ![j] = q]
    BY <2>0, <2>1, <2>4
  <2>6. x \in Seq(Rows) /\ Len(x) = Len(c) /\ \A k \in 1..Len(c) : x[k] = IF k = i THEN r ELSE c[k]
    BY <1>1, <2>3, <2>4, ExceptIs
  <2>7. d \in Seq(Rows) /\ Len(d) = Len(c) /\ \A k \in 1..Len(c) : d[k] = IF k = j THEN q ELSE x[k]
    BY <2>3, <2>5, <2>6, ExceptIs
  <2>8. ASSUME NEW k \in 1..Len(c)
        PROVE  \E h \in 1..Len(c) : d[k].prev = c[h].prev /\ d[k].hash = c[h].hash
    <3>1. CASE k = j
      BY <2>3, <2>7, <3>1
    <3>2. CASE k # j /\ k = i
      BY <2>3, <2>6, <2>7, <3>2
    <3>3. CASE k # j /\ k # i
      BY <2>6, <2>7, <3>3
    <3> QED  BY <3>1, <3>2, <3>3
  <2> QED  BY <2>7, <2>8
<1> QED  BY <1>2, <1>3, <1>4, <1>5 DEF Changed

\* What is read of a chain that has a last row is all of it, in its order.
LEMMA ReadingIsInChain ==
  ASSUME NEW rows \in SUBSET Rows, IsChain(rows),
         rows = {} \/ \E r \in rows : \A q \in rows : q.seq <= r.seq,
         NEW s \in Readings(rows)
  PROVE  InChain(s)
<1> PICK n : n = Cardinality(rows)
  OBVIOUS
<1>1. IsFiniteSet(rows)
  <2>1. CASE rows = {}
    BY <2>1, FS_EmptySet
  <2>2. CASE rows # {}
    <3>1. PICK last \in rows : \A q \in rows : q.seq <= last.seq
      BY <2>2
    <3> DEFINE f == [r \in rows |-> r.seq]
    <3>2. last.seq \in Nat /\ \A r \in rows : r.seq \in 0..last.seq
      BY <3>1 DEF Rows
    <3>3. f \in Injection(rows, 0..last.seq)
      BY <3>2 DEF Injection, IsInjective, IsChain
    <3>4. IsFiniteSet(0..last.seq)
      BY <3>2, FS_Interval
    <3> HIDE DEF f
    <3> QED  BY <3>3, <3>4, FS_Injection
  <2> QED  BY <2>1, <2>2
<1>2. n \in Nat
  BY <1>1, FS_CardinalityType
<1>3. /\ s \in [1..n -> rows] /\ DOMAIN s = 1..n
      /\ \A i, j \in 1..n : s[i] = s[j] => i = j
      /\ \A i, j \in 1..n : i < j => s[i].seq <= s[j].seq
  BY DEF Readings
<1>4. s \in Seq(Rows) /\ Len(s) = n
  BY <1>2, <1>3
<1>5. \A r \in rows : \E i \in 1..n : s[i] = r
  <2>1. s \in Injection(1..n, rows)
    BY <1>3 DEF Injection, IsInjective
  <2>2. Cardinality(1..n) = n
    BY <1>2, FS_Interval
  <2>3. s \in Surjection(1..n, rows)
    BY <1>1, <2>1, <2>2, FS_Injection
  <2> QED  BY <2>3 DEF Surjection
<1>6. /\ \A r \in rows : r \in Rows /\ r.seq \in Nat /\ r.seq = Len(r.prev)
                         /\ r.hash = RowHash(r.prev, r.payload)
                         /\ r.prev \in Seq(Payloads) /\ Len(r.hash) = r.seq + 1
      /\ \A r \in rows : r.seq # 0 => \E q \in rows : q.hash = r.prev
      /\ \A r, q \in rows : r.seq = q.seq => r = q
  BY DEF IsChain, Rows, Hashes, RowHash
<1>7. \A i \in 1..n : s[i].seq = i - 1
  <2> DEFINE Bad == {i \in 1..n : s[i].seq # i - 1}
  <2> SUFFICES ASSUME Bad # {} PROVE FALSE
    OBVIOUS
  <2>1. Bad \in SUBSET Nat
    OBVIOUS
  <2> HIDE DEF Bad
  <2>2. PICK i \in Bad : \A j \in Bad : i <= j
    BY <2>1, LeastNumber
  <2> USE DEF Bad
  <2>3. i \in 1..n /\ s[i].seq # i - 1 /\ \A j \in 1..n : j < i => s[j].seq = j - 1
    BY <2>2
  <2>4. s[i] \in rows /\ s[i].seq \in Nat
    BY <1>3, <1>6, <2>3
  <2>5. s[i].seq > i - 1
    <3>1. s[i].seq >= i - 1
      <4>1. CASE i = 1
        BY <2>4, <4>1
      <4>2. CASE i # 1
        <5> PICK j : j = i - 1
          OBVIOUS
        <5>1. j \in 1..n /\ j < i /\ j \in Nat
          BY <1>2, <2>3, <4>2
        <5>2. s[j].seq = j - 1 /\ s[j].seq <= s[i].seq /\ s[j] # s[i] /\ s[j] \in rows
          BY <1>3, <2>3, <5>1
        <5>3. s[j].seq # s[i].seq
          BY <1>6, <2>4, <5>2
        <5> QED  BY <2>3, <2>4, <5>1, <5>2, <5>3
      <4> QED  BY <4>1, <4>2
    <3> QED  BY <2>3, <2>4, <3>1
  <2>6. PICK q \in rows : q.hash = s[i].prev
    BY <1>6, <2>3, <2>4, <2>5
  <2>7. q.seq + 1 = s[i].seq /\ q.seq \in Nat
    BY <1>6, <2>4, <2>6
  <2>8. PICK j \in 1..n : s[j] = q
    BY <1>5
  <2>9. j < i
    <3> SUFFICES ASSUME ~(j < i) PROVE FALSE
      OBVIOUS
    <3>1. j = i \/ i < j
      BY <2>3
    <3>2. s[i].seq <= s[j].seq
      BY <1>3, <2>3, <2>4, <3>1
    <3> QED  BY <2>4, <2>7, <2>8, <3>2
  <2>10. q.seq = j - 1
    BY <2>3, <2>8, <2>9
  <2> QED  BY <2>3, <2>4, <2>5, <2>7, <2>9, <2>10
<1>8. ASSUME NEW i \in 1..n
      PROVE  /\ Len(s[i].prev) = i - 1
             /\ s[i].prev = IF i = 1 THEN GENESIS ELSE s[i - 1].hash
             /\ s[i].hash = RowHash(s[i].prev, s[i].payload)
  <2>1. s[i] \in rows /\ s[i].seq = i - 1
    BY <1>3, <1>7
  <2>2. Len(s[i].prev) = i - 1 /\ s[i].hash = RowHash(s[i].prev, s[i].payload)
        /\ s[i].prev \in Seq(Payloads)
    BY <1>6, <2>1
  <2>3. CASE i = 1
    BY <2>2, <2>3 DEF GENESIS
  <2>4. CASE i # 1
    <3>1. PICK q \in rows : q.hash = s[i].prev
      <4>1. s[i].seq # 0
        BY <1>2, <2>1, <2>4
      <4> QED  BY <1>6, <2>1, <4>1
    <3>2. q.seq + 1 = i - 1 /\ q.seq \in Nat
      BY <1>6, <2>1, <2>2, <3>1
    <3> PICK j : j = i - 1
      OBVIOUS
    <3>3. j \in 1..n /\ s[j].seq = j - 1 /\ s[j] \in rows
      BY <1>2, <1>3, <1>7, <2>4
    <3>4. s[j].seq = q.seq
      BY <3>2, <3>3
    <3>5. s[j] = q
      BY <1>6, <3>3, <3>4
    <3> QED  BY <2>2, <2>4, <3>1, <3>5
  <2> QED  BY <2>2, <2>3, <2>4
<1> QED  BY <1>4, <1>8 DEF InChain

\* Whatever the stations wrote and whatever edit, loss, partial restore or
\* renumbering came after, twice, hash::verify accepts exactly the first rows of
\* what was written, and verify_unit_chain those and none that is not linked as it
\* was (crates/trace-core/src/hash.rs, verify; query.rs, verify_unit_chain).
THEOREM VerificationIsExact == Spec => []VerifyIsExact
<1>1. LedgerInv => VerifyIsExact
  <2> SUFFICES ASSUME LedgerInv, NEW u \in Units, NEW s \in Readings(evidence[u]),
                      NEW d \in {s} \cup ChangedTwice(s)
               PROVE  LET linked == IsPrefix(HashesOf(d), HashesOf(s))
                          intact == linked /\ IsPrefix(PayloadsOf(d), PayloadsOf(s))
                      IN  /\ Verify(d, PayloadsOf(d)) <=> intact
                          /\ VerifyUnitChain(d) => linked
                          /\ intact => VerifyUnitChain(d)
    BY DEF VerifyIsExact
  <2>1. /\ evidence[u] \in SUBSET Rows /\ IsChain(evidence[u])
        /\ evidence[u] = {} \/ \E r \in evidence[u] : \A q \in evidence[u] : q.seq <= r.seq
    BY DEF LedgerInv, IInv, TypeOK, SeenIsChained, PendingFollows, HasLast, IsLast
  <2>2. InChain(s)
    BY <2>1, ReadingIsInChain
  <2>3. LinkedAs(s, s)
    BY <2>2 DEF LinkedAs, InChain
  <2>4. LinkedAs(d, s)
    <3>1. CASE d \in ChangedTwice(s)
      <4>1. PICK c \in Changed(s) : d \in Changed(c)
        BY <3>1, Zenon DEF ChangedTwice
      <4>2. LinkedAs(c, s)
        BY <2>3, <4>1, ChangedIsLinked
      <4> QED  BY <4>1, <4>2, ChangedIsLinked
    <3> QED  BY <2>3, <3>1
  <2> QED  BY <2>2, <2>4, LinksAreExact
<1> QED  BY <1>1, InitLedgerInv, LedgerInvStep, PTL DEF Spec
=============================================================================
