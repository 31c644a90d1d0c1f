---------------------------- MODULE EvidenceStore ----------------------------
(***************************************************************************)
(* The evidence of units in the tenant database: the transactions of       *)
(* crates/trace-store/src/repo.rs that append events and measurements and  *)
(* move units through their lifecycle, and the triggers of                 *)
(* migrations/0003_integrity.sql.                                          *)
(*                                                                         *)
(* A transaction is a TenantTx at Postgres' default isolation, READ        *)
(* COMMITTED: each statement sees what is committed when it runs and what  *)
(* its own transaction wrote.  Each SQL statement is a step; a statement   *)
(* that needs a row lock first is requested, then granted.  Units stand    *)
(* for their uids, of one tenant.                                          *)
(***************************************************************************)
EXTENDS HashChain, Unit, FiniteSets

CONSTANTS
  Units,     \* the uids a station may give to a part
  Tx,        \* the connections that may hold a transaction
  Targets,   \* the states callers move units to in this model
  MaxRows,   \* bound: rows in flight and committed, per unit
  None       \* no transaction, no row, no state

ASSUME StoreAssumption ==
  /\ MaxRows \in Nat
  /\ Targets \subseteq UnitStates
  /\ None \notin Tx \cup UnitStates \cup Rows

VARIABLES
  evidence,  \* committed: the rows of each unit, of both tables
  state,     \* committed: the state of each unit, None while there is none
  retired,   \* committed: the uids in retired_uid
  lock,      \* the transaction that holds each unit's row, or None
  pc,        \* what each transaction is doing
  target,    \* the unit its statement is about, or None
  tail,      \* the tail its append has read, None for an empty chain
  pending,   \* its uncommitted rows, by unit
  draft,     \* its uncommitted states, by unit, None where it wrote none
  seen,      \* the state unit_by_uid last told its caller, by unit
  goal       \* the state its UPDATE writes, or None

committed == <<evidence, state, retired>>
session == <<lock, pc, target, tail, pending, draft, seen, goal>>
vars == <<committed, session>>

States == UnitStates \cup {None}

\* "ready": between two statements; "locking", "tail", "insert": the statements
\* of an append; "birth", "updating": an INSERT or UPDATE of a unit, requested.
Steps == {"idle", "ready", "locking", "tail", "insert", "birth", "updating"}

Init ==
  /\ evidence = [u \in Units |-> {}]
  /\ state = [u \in Units |-> None]
  /\ retired = {}
  /\ lock = [u \in Units |-> None]
  /\ pc = [t \in Tx |-> "idle"]
  /\ target = [t \in Tx |-> None]
  /\ tail = [t \in Tx |-> None]
  /\ pending = [t \in Tx |-> [u \in Units |-> {}]]
  /\ draft = [t \in Tx |-> [u \in Units |-> None]]
  /\ seen = [t \in Tx |-> [u \in Units |-> None]]
  /\ goal = [t \in Tx |-> None]

\* What a statement of t sees of a unit.
RowsSeenBy(t, u) == evidence[u] \cup pending[t][u]
StateSeenBy(t, u) == IF draft[t][u] # None THEN draft[t][u] ELSE state[u]

\* Whether t may take the row lock of u without waiting.
Free(t, u) == lock[u] \in {None, t}

\* Everything t holds goes when it ends, however it ends.
Release(t) ==
  /\ lock' = [u \in Units |-> IF lock[u] = t THEN None ELSE lock[u]]
  /\ pc' = [pc EXCEPT ![t] = "idle"]
  /\ target' = [target EXCEPT ![t] = None]
  /\ tail' = [tail EXCEPT ![t] = None]
  /\ pending' = [pending EXCEPT ![t] = [u \in Units |-> {}]]
  /\ draft' = [draft EXCEPT ![t] = [u \in Units |-> None]]
  /\ seen' = [seen EXCEPT ![t] = [u \in Units |-> None]]
  /\ goal' = [goal EXCEPT ![t] = None]

-----------------------------------------------------------------------------
\* Store::tenant.
Begin(t) ==
  /\ pc[t] = "idle"
  /\ pc' = [pc EXCEPT ![t] = "ready"]
  /\ UNCHANGED <<committed, lock, target, tail, pending, draft, seen, goal>>

\* commit: all of it becomes visible at once and the locks are released.
Commit(t) ==
  /\ pc[t] = "ready"
  /\ evidence' = [u \in Units |-> RowsSeenBy(t, u)]
  /\ state' = [u \in Units |-> StateSeenBy(t, u)]
  /\ retired' = retired \cup {u \in Units : draft[t][u] = "SCRAPPED"}
  /\ Release(t)

\* rollback, a TenantTx dropped after an error, a lost connection, a power cut,
\* a deadlock the database resolves: none of it ever happened.
Rollback(t) ==
  /\ pc[t] # "idle"
  /\ Release(t)
  /\ UNCHANGED committed

-----------------------------------------------------------------------------
(* append_event and append_measurement: SELECT ... FOR UPDATE, the tail of   *)
(* both tables, INSERT.                                                      *)

RequestAppend(t, u) ==
  /\ pc[t] = "ready"
  /\ StateSeenBy(t, u) # None          \* NotFound otherwise: the caller gives up
  /\ \A r \in RowsSeenBy(t, u) : r.seq + 1 < MaxRows
  /\ pc' = [pc EXCEPT ![t] = "locking"]
  /\ target' = [target EXCEPT ![t] = u]
  /\ UNCHANGED <<committed, lock, tail, pending, draft, seen, goal>>

\* Mutant: the tail is read without FOR UPDATE.
LockUnit_NoWait(t) ==
  /\ pc[t] = "locking"
  /\ pc' = [pc EXCEPT ![t] = "tail"]
  /\ UNCHANGED <<committed, lock, target, tail, pending, draft, seen, goal>>

\* lock_unit.
LockUnit(t) ==
  /\ pc[t] = "locking"
  /\ Free(t, target[t])
  /\ lock' = [lock EXCEPT ![target[t]] = t]
  /\ pc' = [pc EXCEPT ![t] = "tail"]
  /\ UNCHANGED <<committed, target, tail, pending, draft, seen, goal>>

\* Mutant: measurements are left out of the UNION.
ChainTail_EventsOnly(rows) ==
  LET events == {r \in rows : r.table = "unit_event"}
  IN  IF events = {} THEN {None}
      ELSE {r \in events : \A q \in events : q.seq <= r.seq}

\* chain_tail: ORDER BY chain_seq DESC LIMIT 1, any of the rows that tie.
ChainTail(rows) ==
  IF rows = {} THEN {None} ELSE {r \in rows : \A q \in rows : q.seq <= r.seq}

ReadTail(t) ==
  /\ pc[t] = "tail"
  /\ \E r \in ChainTail(RowsSeenBy(t, target[t])) : tail' = [tail EXCEPT ![t] = r]
  /\ pc' = [pc EXCEPT ![t] = "insert"]
  /\ UNCHANGED <<committed, lock, target, pending, draft, seen, goal>>

InsertRow(t, table, payload) ==
  /\ pc[t] = "insert"
  /\ LET row == IF tail[t] = None THEN FirstRow(table, payload)
                ELSE AppendRow(tail[t], table, payload)
     IN  pending' = [pending EXCEPT ![t][target[t]] = @ \cup {row}]
  /\ pc' = [pc EXCEPT ![t] = "ready"]
  /\ target' = [target EXCEPT ![t] = None]
  /\ tail' = [tail EXCEPT ![t] = None]
  /\ UNCHANGED <<committed, lock, draft, seen, goal>>

-----------------------------------------------------------------------------
(* The unit's own row. *)

\* unit_by_uid: a plain SELECT, no lock.
ReadUnit(t, u) ==
  /\ pc[t] = "ready"
  /\ StateSeenBy(t, u) # None
  /\ seen' = [seen EXCEPT ![t][u] = StateSeenBy(t, u)]
  /\ UNCHANGED <<committed, lock, pc, target, tail, pending, draft, goal>>

RequestBirth(t, u) ==
  /\ pc[t] = "ready"
  /\ pc' = [pc EXCEPT ![t] = "birth"]
  /\ target' = [target EXCEPT ![t] = u]
  /\ UNCHANGED <<committed, lock, tail, pending, draft, seen, goal>>

\* Mutant: a state the lifecycle does not know is written.
InsertUnit_Created(t) ==
  /\ pc[t] = "birth"
  /\ Free(t, target[t])
  /\ StateSeenBy(t, target[t]) = None
  /\ target[t] \notin retired
  /\ lock' = [lock EXCEPT ![target[t]] = t]
  /\ draft' = [draft EXCEPT ![t][target[t]] = "CREATED"]
  /\ pc' = [pc EXCEPT ![t] = "ready"]
  /\ target' = [target EXCEPT ![t] = None]
  /\ UNCHANGED <<committed, tail, pending, seen, goal>>

\* insert_unit: the entry of the unique index makes a second inserter of the uid
\* wait for the first; a taken or retired uid is an error, after which only a
\* rollback is left.
InsertUnit(t) ==
  /\ pc[t] = "birth"
  /\ Free(t, target[t])
  /\ StateSeenBy(t, target[t]) = None
  /\ target[t] \notin retired
  /\ lock' = [lock EXCEPT ![target[t]] = t]
  /\ draft' = [draft EXCEPT ![t][target[t]] = "BORN"]
  /\ pc' = [pc EXCEPT ![t] = "ready"]
  /\ target' = [target EXCEPT ![t] = None]
  /\ UNCHANGED <<committed, tail, pending, seen, goal>>

\* The caller of set_unit_state asks the lifecycle about the state it has read.
RequestUpdate(t, u, next) ==
  /\ pc[t] = "ready"
  /\ seen[t][u] # None
  /\ CanTransitionTo(seen[t][u], next)
  /\ pc' = [pc EXCEPT ![t] = "updating"]
  /\ target' = [target EXCEPT ![t] = u]
  /\ goal' = [goal EXCEPT ![t] = next]
  /\ UNCHANGED <<committed, lock, tail, pending, draft, seen>>

\* Mutant: the trigger is missing.
ScrapIsTerminal_Missing(old, new) == TRUE

\* enforce_scrap_is_terminal, on the row as it is once the lock is held.
ScrapIsTerminal(old, new) == old = "SCRAPPED" => new = "SCRAPPED"

\* set_unit_state: UPDATE ... WHERE id = $1, whatever the row holds by now.  An
\* error of the trigger leaves only a rollback.
SetUnitState(t) ==
  /\ pc[t] = "updating"
  /\ Free(t, target[t])
  /\ ScrapIsTerminal(StateSeenBy(t, target[t]), goal[t])
  /\ lock' = [lock EXCEPT ![target[t]] = t]
  /\ draft' = [draft EXCEPT ![t][target[t]] = goal[t]]
  /\ pc' = [pc EXCEPT ![t] = "ready"]
  /\ target' = [target EXCEPT ![t] = None]
  /\ goal' = [goal EXCEPT ![t] = None]
  /\ UNCHANGED <<committed, tail, pending, seen>>

-----------------------------------------------------------------------------
Next ==
  \E t \in Tx :
    \/ Begin(t) \/ Commit(t) \/ Rollback(t)
    \/ LockUnit(t) \/ ReadTail(t)
    \/ InsertUnit(t) \/ SetUnitState(t)
    \/ \E table \in Tables, payload \in Payloads : InsertRow(t, table, payload)
    \/ \E u \in Units :
         \/ RequestAppend(t, u) \/ ReadUnit(t, u) \/ RequestBirth(t, u)
         \/ \E next \in Targets : RequestUpdate(t, u, next)

Spec == Init /\ [][Next]_vars

-----------------------------------------------------------------------------
TypeOK ==
  /\ evidence \in [Units -> SUBSET Rows]
  /\ state \in [Units -> States]
  /\ retired \subseteq Units
  /\ lock \in [Units -> Tx \cup {None}]
  /\ pc \in [Tx -> Steps]
  /\ target \in [Tx -> Units \cup {None}]
  /\ tail \in [Tx -> Rows \cup {None}]
  /\ pending \in [Tx -> [Units -> SUBSET Rows]]
  /\ draft \in [Tx -> [Units -> States]]
  /\ seen \in [Tx -> [Units -> States]]
  /\ goal \in [Tx -> States]

\* The rows of every unit are one chain, whatever the stations that append to it
\* do at the same time and wherever one of them loses power: no position twice,
\* none missing, each row hashed over the one before it (hash.rs, "Monotonic
\* position within this unit's chain").
EvidenceIsChained == \A u \in Units : IsChain(evidence[u])

\* Evidence only grows and a scrapped unit stays scrapped, across commits,
\* rollbacks and races of both.
NothingIsTakenBack ==
  [][\A u \in Units :
       /\ evidence[u] \subseteq evidence'[u]
       /\ \A r \in evidence'[u] \ evidence[u], q \in evidence[u] : q.seq < r.seq
       /\ state[u] = "SCRAPPED" => state'[u] = "SCRAPPED"]_vars

\* The store is a ledger per unit, whose entries are what the unit's chain covers.
Promise == INSTANCE Ledger WITH
             log <- [u \in Units |-> Covered(evidence[u])]

ImplementsLedger == Promise!Spec
=============================================================================
