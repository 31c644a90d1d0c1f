-------------------------------- MODULE Recall --------------------------------
(***************************************************************************)
(* What the two directions of trace tell: the read paths of                *)
(* crates/trace-store/src/query.rs, over the links and rows that other     *)
(* connections write meanwhile, under the tenant isolation of              *)
(* store.rs and migrations/0001 and the partitions of migrations/0002.     *)
(*                                                                         *)
(* A connection of the pool is idle, or holds a transaction of a tenant    *)
(* (Store::tenant) or of the administrator (provision_tenant).  Each SQL   *)
(* statement is a step at READ COMMITTED.  The rows of unit_event and      *)
(* measurement are those of one device; an instant stands for a month.     *)
(***************************************************************************)
EXTENDS Genealogy, FiniteSets

CONSTANTS
  Tenants,     \* the tenants there may be
  First,       \* the tenant the database starts with
  UnitsOf,     \* the units of each tenant
  Lots,        \* lot numbers, which two tenants may share
  Values,      \* what the device may return
  PointsOf,    \* the data collection points on record for each: configuration
  NamedBy,     \* the points that the captures of each name
  Conns,       \* the connections of the pool
  LastMonth,   \* bound: months are 0..LastMonth
  Ahead,       \* how many months ahead of its own the migration covers
  MaxRecords,  \* bound: links and rows, committed or not
  MaxWrites    \* bound: links and rows in one transaction

Admin == "admin"

\* A unit is its id, which one sequence numbers for all tenants (migration 0002).
ASSUME RecallAssumption ==
  /\ First \in Tenants
  /\ DOMAIN UnitsOf = Tenants
  /\ DOMAIN PointsOf = Tenants /\ DOMAIN NamedBy = Tenants
  /\ LastMonth \in Nat \ {0}
  /\ {Ahead, MaxRecords, MaxWrites} \subseteq Nat
  /\ None \notin Tenants \cup {Admin}
  /\ Admin \notin Tenants
  /\ None \notin Nat
  /\ None \notin UNION {UnitsOf[t] : t \in Tenants}
  /\ \A t, s \in Tenants : t # s => UnitsOf[t] \cap UnitsOf[s] = {}

INSTANCE DataCollection

ASSUME ValuesAssumption == \A v \in Values : IsValue(v)

VARIABLES
  links,        \* committed: genealogy_link
  rows,         \* committed: unit_event and measurement
  provisioned,  \* committed: the tenants
  months,       \* the months that have a partition
  today,        \* the month it is
  owner,        \* whose transaction each connection holds, None when idle
  setting,      \* app.tenant_id on each connection, None when it is unset
  draft,        \* what its transaction has written
  history       \* the unit_history its transaction is reading, None without

committed == <<links, rows, provisioned>>
vars == <<committed, months, today, owner, setting, draft, history>>

Tables == {"unit_event", "measurement"}
Months == 0..LastMonth
Nothing == [links |-> {}, rows |-> {}, tenants |-> {}]

\* Cover the previous month and Ahead months from this one: migration 0002.
Covered(month) == {m \in Months : month - 1 <= m /\ m <= month + Ahead}

Init ==
  /\ links = {} /\ rows = {} /\ provisioned = {First}
  /\ today = 1 /\ months = Covered(1)
  /\ owner = [c \in Conns |-> None]
  /\ setting = [c \in Conns |-> None]
  /\ draft = [c \in Conns |-> Nothing]
  /\ history = [c \in Conns |-> None]

-----------------------------------------------------------------------------
(* What a statement on a connection sees: the policy tenant_isolation on   *)
(* what is committed and what its own transaction wrote.                   *)

Visible(c, of) == {x \in of : setting[c] # None /\ x.tenant = setting[c]}

SeenLinks(c) == Visible(c, links \cup draft[c].links)
SeenRows(c)  == Visible(c, rows \cup draft[c].rows)

\* The rows of a unit in the tables the statement names.
RowsOf(c, unit, tables) ==
  {r \in SeenRows(c) : r.unit = unit /\ r.tenant = owner[c] /\ r.table \in tables}

\* Mutant: the window is closed at its end.
MeasuredBetween_Closed(c, from, to) ==
  {r.unit : r \in {q \in SeenRows(c) :
     /\ q.tenant = owner[c] /\ q.table = "measurement"
     /\ q.month >= from /\ q.month <= to}}

\* units_measured_by_device; the partitions read are those of the window and
\* the default one.
MeasuredBetween(c, from, to) ==
  {r.unit : r \in {q \in SeenRows(c) :
     /\ q.part = None \/ q.part \in from..(to - 1)
     /\ q.tenant = owner[c] /\ q.table = "measurement"
     /\ q.month >= from /\ q.month < to}}

\* units_affected_by_lot on this connection.
AffectedByLot(c, lot) ==
  UnitsAffectedByLot({l \in SeenLinks(c) : l.tenant = owner[c]}, lot)

-----------------------------------------------------------------------------
(* Transactions. *)

\* Store::tenant: SET LOCAL in a new transaction.
Tenant(c, t) ==
  /\ owner[c] = None /\ t \in provisioned
  /\ owner' = [owner EXCEPT ![c] = t]
  /\ setting' = [setting EXCEPT ![c] = t]
  /\ UNCHANGED <<committed, months, today, draft, history>>

\* provision_tenant, in a transaction of its own.
ProvisionTenant(c, t) ==
  /\ owner[c] = None /\ t \notin provisioned
  /\ \A d \in Conns : draft[d].tenants = {}
  /\ owner' = [owner EXCEPT ![c] = Admin]
  /\ setting' = [setting EXCEPT ![c] = t]
  /\ draft' = [draft EXCEPT ![c].tenants = {t}]
  /\ UNCHANGED <<committed, months, today, history>>

\* Mutant: SET in place of SET LOCAL, which outlives the transaction.
Ends_Sticky(c) ==
  /\ owner[c] # None
  /\ owner' = [owner EXCEPT ![c] = None]
  /\ draft' = [draft EXCEPT ![c] = Nothing]
  /\ history' = [history EXCEPT ![c] = None]
  /\ UNCHANGED <<months, today, setting>>

\* The end of a transaction takes its context with it.
Ends(c) ==
  /\ owner[c] # None
  /\ owner' = [owner EXCEPT ![c] = None]
  /\ setting' = [setting EXCEPT ![c] = None]
  /\ draft' = [draft EXCEPT ![c] = Nothing]
  /\ history' = [history EXCEPT ![c] = None]
  /\ UNCHANGED <<months, today>>

Commit(c) ==
  /\ Ends(c)
  /\ links' = links \cup draft[c].links
  /\ rows' = rows \cup draft[c].rows
  /\ provisioned' = provisioned \cup draft[c].tenants

\* TenantTx::rollback, a dropped transaction, or a lost connection.
Rollback(c) == Ends(c) /\ UNCHANGED committed

-----------------------------------------------------------------------------
(* Writes of a tenant's transaction. *)

Drafted(field) == UNION {draft[c][field] : c \in Conns}

MayWrite(c) ==
  /\ owner[c] \in Tenants /\ setting[c] = owner[c]
  /\ history[c] = None
  /\ Cardinality(draft[c].links \cup draft[c].rows) < MaxWrites
  /\ Cardinality(links \cup rows \cup Drafted("links") \cup Drafted("rows")) < MaxRecords

\* The INSERT of link_child_unit and link_lot: the callers know the units of
\* their own tenant.
Link(c, link) ==
  /\ MayWrite(c)
  /\ Allowed(link)
  /\ link \notin SeenLinks(c)
  /\ draft' = [draft EXCEPT ![c].links = @ \cup {link}]
  /\ UNCHANGED <<committed, months, today, owner, setting, history>>

LinkChildUnit(c, parent, child) ==
  Link(c, [tenant |-> owner[c], parent |-> parent, child |-> child, lot |-> None])

LinkLot(c, parent, lot) ==
  Link(c, [tenant |-> owner[c], parent |-> parent, child |-> None, lot |-> lot])

\* The partition a row is routed to: its month's, or the default one, None.
PartitionFor(month) == IF month \in months THEN month ELSE None

\* append_event and append_measurement under the lock of the unit, the steps of
\* which EvidenceStore has; the month is that of the device's clock, and the point
\* whatever the caller names: measurement.dcp_id references nothing.
AppendRow(c, unit, table, month, value, point) ==
  /\ MayWrite(c)
  /\ \A d \in Conns \ {c} : \A r \in draft[d].rows : r.unit # unit
  /\ draft' = [draft EXCEPT ![c].rows = @ \cup {
        [tenant |-> owner[c], unit |-> unit, table |-> table, month |-> month,
         seq  |-> Cardinality(RowsOf(c, unit, Tables)),
         part |-> PartitionFor(month),
         cols |-> IF table = "measurement" THEN Columns(value) ELSE None,
         point |-> point]}]
  /\ UNCHANGED <<committed, months, today, owner, setting, history>>

-----------------------------------------------------------------------------
(* Partitions. *)

\* Mutant: a month is covered although the default partition holds its rows.
EnsurePartitions_Unchecked ==
  /\ Drafted("rows") = {}
  /\ months' = months \cup Covered(today)
  /\ UNCHANGED <<committed, today, owner, setting, draft, history>>

\* ensure_partitions from last month on: one statement, which Postgres refuses
\* as a whole when the default partition holds a row of a month to create.  It
\* waits for the writers of the table.
EnsurePartitions ==
  /\ Drafted("rows") = {}
  /\ \A r \in rows : r.part = None => r.month \notin Covered(today)
  /\ months' = months \cup Covered(today)
  /\ UNCHANGED <<committed, today, owner, setting, draft, history>>

NextMonth ==
  /\ today < LastMonth
  /\ today' = today + 1
  /\ UNCHANGED <<committed, months, owner, setting, draft, history>>

-----------------------------------------------------------------------------
(* unit_history: four statements.  since is what was committed at the first. *)

\* The head of the history, of a unit of the tenant's.  One reading is followed
\* at a time: readings write nothing, so that two do not meet.
ReadHead(c, unit) ==
  /\ draft[c] = Nothing
  /\ \A d \in Conns : history[d] = None
  /\ history' = [history EXCEPT ![c] =
        [unit |-> unit, step |-> "events", events |-> {}, measurements |-> {},
         components |-> {},
         since |-> [rows |-> RowsOf(c, unit, Tables), 
                   components |-> Descendants(SeenLinks(c), unit)]]]
  /\ UNCHANGED <<committed, months, today, owner, setting, draft>>

Reads(c, step, next, field, found) ==
  /\ history[c].step = step
  /\ history' = [history EXCEPT ![c] = [@ EXCEPT !.step = next, ![field] = found]]
  /\ UNCHANGED <<committed, months, today, owner, setting, draft>>

\* Mutant: a chain is taken to begin at 1.
ReadEvents_FromOne(c) ==
  Reads(c, "events", "measurements", "events",
        {r \in RowsOf(c, history[c].unit, {"unit_event"}) : r.seq > 0})

ReadEvents(c) ==
  Reads(c, "events", "measurements", "events", RowsOf(c, history[c].unit, {"unit_event"}))

\* The points that a statement on c sees.
SeenPoints(c) == IF setting[c] = None THEN {} ELSE PointsOf[setting[c]]

\* The rows that have a point to be joined with.  Every value is decoded; one that
\* is not would end the reading.
ReadMeasurements(c) ==
  LET found == {r \in RowsOf(c, history[c].unit, {"measurement"}) : r.point \in SeenPoints(c)}
  IN  /\ \A r \in found : ValueFromColumns(r.cols) # None
      /\ Reads(c, "measurements", "components", "measurements", found)

ReadComponents(c) ==
  Reads(c, "components", "done", "components",
        Descendants(SeenLinks(c), history[c].unit))

-----------------------------------------------------------------------------
\* What a device may take for the month: the month, or the last by a clock
\* that runs ahead.
DeviceMonths == {today, LastMonth}

Work(c) ==
  \/ Commit(c)
  \/ Rollback(c)
  \/ \E t \in Tenants : Tenant(c, t) \/ ProvisionTenant(c, t)
  \/ /\ owner[c] \in Tenants
     /\ \E u \in UnitsOf[owner[c]] :
          \/ ReadHead(c, u)
          \/ \E child \in UnitsOf[owner[c]] : LinkChildUnit(c, u, child)
          \/ \E lot \in Lots : LinkLot(c, u, lot)
          \/ \E m \in DeviceMonths, v \in Values, p \in NamedBy[owner[c]] :
               AppendRow(c, u, "measurement", m, v, p)
          \/ AppendRow(c, u, "unit_event", today, None, None)
  \/ history[c] # None /\ (ReadEvents(c) \/ ReadMeasurements(c) \/ ReadComponents(c))

Next == EnsurePartitions \/ NextMonth \/ \E c \in Conns : Work(c)

Spec == Init /\ [][Next]_vars

-----------------------------------------------------------------------------
Units == UNION {UnitsOf[t] : t \in Tenants}
Points == UNION {NamedBy[t] : t \in Tenants}

LinkRecords == [tenant : Tenants, parent : Units, child : Units \cup {None},
                lot : Lots \cup {None}]
RowRecords ==
  [tenant : Tenants, unit : Units, table : Tables, month : Months, seq : Nat,
   part : Months \cup {None}, cols : {Columns(v) : v \in Values} \cup {None},
   point : Points \cup {None}]

\* The committed part of the state holds what the schema allows, each
\* connection a transaction or none, and no row is outside the partition of
\* its month while there is one.
TypeOK ==
  /\ links \subseteq LinkRecords /\ \A l \in links : Allowed(l)
  /\ rows \subseteq RowRecords
  /\ provisioned \subseteq Tenants /\ months \subseteq Months /\ today \in Months
  /\ owner \in [Conns -> Tenants \cup {Admin, None}]
  /\ setting \in [Conns -> Tenants \cup {None}]
  /\ \A c \in Conns : /\ draft[c].links \subseteq LinkRecords
                      /\ draft[c].rows \subseteq RowRecords
                      /\ owner[c] = None => setting[c] = None /\ draft[c] = Nothing
  /\ \A r \in rows : r.part = PartitionFor(r.month)

\* Whatever the order in which tenants and the administrator borrow the
\* connections of the pool, a statement sees nothing but what is its own
\* tenant's, and outside a tenant's transaction nothing at all (DECISIONS.md,
\* store.rs:45).
TenantsAreApart ==
  \A c \in Conns : \A x \in SeenLinks(c) \cup SeenRows(c) :
    owner[c] = x.tenant /\ x.tenant \in Tenants

\* The units a lot is in: the least set that holds the units it went into and
\* the parents of its members.
Implicated(of, lot) ==
  LET closed == {S \in SUBSET Units :
                   \A l \in of : l.lot = lot \/ l.child \in S => l.parent \in S}
  IN  {u \in Units : \A S \in closed : u \in S}

Committed(t, of) == {x \in of : x.tenant = t}

\* A recall by lot names no unit the lot is not in and misses none of them, unless
\* they are more than the cap on the depth explains; and a lot listed in the
\* history of a unit is one whose recall names the unit.
LotRecallIsExact(c) ==
  LET all == Committed(owner[c], links) \cup draft[c].links
  IN  \A lot \in Lots :
        LET held  == Implicated(all, lot)
            named == AffectedByLot(c, lot)
        IN  /\ named \subseteq held
            /\ named = held \/ Cardinality(held) > DepthCap + 1
            /\ \A u \in UnitsOf[owner[c]] :
                 (\E b \in Descendants(SeenLinks(c), u) : b.lot = lot) => u \in named

\* A unit is found above another exactly when that is found below it, at the same
\* depth.
TraceIsSymmetric(c) ==
  \A u, v \in UnitsOf[owner[c]], d \in 1..DepthCap :
    [depth |-> d, child |-> v, lot |-> None] \in Descendants(SeenLinks(c), u)
      <=> [depth |-> d, parent |-> u] \in Ancestors(SeenLinks(c), v)

\* A recall by device names exactly the units measured in the window, whatever
\* partition the rows are in.
DeviceRecallIsExact(c) ==
  \A from, to \in Months :
    MeasuredBetween(c, from, to) =
      {u \in UnitsOf[owner[c]] : \E r \in rows \cup draft[c].rows :
         r.unit = u /\ r.table = "measurement" /\ r.month \in from..(to - 1)}

\* Recalls are exact and the two directions of trace agree, whatever links the
\* stations have committed, diamonds and cycles of them included.
RecallIsExact ==
  \A c \in Conns : owner[c] \in Tenants =>
    LotRecallIsExact(c) /\ TraceIsSymmetric(c) /\ DeviceRecallIsExact(c)

\* A row that a history is to hold: the inner join of unit_history leaves a
\* measurement out whose point is not on record for its tenant.
Readable(r) == r.table = "measurement" => r.point \in PointsOf[r.tenant]

\* A history that was read while stations went on committing holds every readable
\* row and every component that was committed when it began, and nothing else
\* that is not committed and readable now; and no value that was stored keeps it
\* from being read.  It may hold a row without the one before it in the chain.
HistoryHoldsCommitted ==
  \A c \in Conns : history[c] # None =>
    LET h     == history[c]
        found == h.events \cup h.measurements
    IN  /\ \A r \in rows : r.table = "measurement" => ValueFromColumns(r.cols) \in Values
        /\ h.step = "done" =>
             /\ {r \in h.since.rows : Readable(r)} \subseteq found
             /\ found \subseteq {r \in rows : Readable(r)}
             /\ h.since.components \subseteq h.components
             /\ h.components \subseteq Descendants(links, h.unit)

\* What unit_history says of its field measurements, "Every reading."
\* (query.rs:111): the code leaves out those whose point is not on record.
HistoryHoldsEveryReading ==
  \A c \in Conns : history[c] # None /\ history[c].step = "done" =>
    {r \in history[c].since.rows : r.table = "measurement"} \subseteq history[c].measurements
=============================================================================
