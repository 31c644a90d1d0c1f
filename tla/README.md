# Verification of Traceability

TLA+ models of the Traceability production-traceability system (the Rust
workspace in `src/`), the TLC configurations that check them on small instances,
and TLAPS proofs. Paths below are relative to `src/`.

1. [The system](#1-the-system)
2. [Modules](#2-modules)
3. [Runs](#3-runs)
4. [Proofs](#4-proofs)
5. [What the checks found](#5-what-the-checks-found)
6. [Assumptions](#6-assumptions)
7. [Plan](#7-plan)

## 1. The system

A plant runs an *edge box* with a Postgres database; *stations* on the line ask a
*route engine* what to do with the unit in front of them, drive instruments,
mark the part and append evidence to a per-unit hash chain. Stations keep
working when the edge is down and spool events to a file. The box updates itself
over the air and is licensed by a signed file that billing issues.

| component | state it keeps | operations | who it meets | what makes it correct |
|---|---|---|---|---|
| Route model, `trace-core/route.rs` | none (a value) | `validate`, `assert_acyclic`, `ready_operations`, `predecessors_satisfied`, `is_complete` | the engine | validation accepts exactly the routes that can be walked; a unit is never stuck |
| Unit lifecycle, `trace-core/unit.rs` | state, current operation | `can_transition_to`, `transition_to` | engine, store | SCRAPPED is final, COMPLETED means done |
| Route engine, `trace-core/engine.rs`, `dcp.rs` | none | `resolve_operation`, `try_advance`, `apply_disposition` | stations, route-sim | nothing advances past a failed gate; failure paths end; order holds |
| Route simulator, `tools/route-sim` | the run of one unit | `run`, `main` | engine | a green run means the route works |
| Hash chain, `trace-core/hash.rs`, `query.rs` | chain links | `append`, `verify`, `verify_unit_chain` | store, auditor | intact chains pass, changed ones do not |
| Evidence store, `trace-store`, `migrations/` | units, events, measurements, retired uids, links, marks, outbox | tenant transactions: `insert_unit`, `append_*`, `set_unit_state`, `link_*`, `record_mark` | edge server, Postgres triggers | one chain per unit under concurrency; nothing taken back; a scrapped uid is gone |
| Offline spool, `apps/trace-station` | a file of JSON lines | `append`, `load`, `remove_acknowledged` | edge server (replay) | what was reported captured survives |
| Updater, `trace-updater` | release directories, two links | `update` (`verify`, `decide`, `fetch_artifact`, `stage`, `activate`, probe, roll back) | update source, the running service | `current` is always one whole release; a bad one goes away |
| Licensing, `trace-license` | high-water clock | `observe`, `bump`, `evaluate`, `verify` | edge server | production is never stopped; a clock set back buys at most the tolerance |
| Edge server, `apps/trace-edge` | licence status, store | HTTP handlers | stations, store, licensing | only configuration asks for the licence; a birth and its outbox row are one transaction |
| Billing, `trace-billing` | none (Stripe has it) | `fetch_subscription`, `issue`, `verify` of a webhook | Stripe, edge server | an entitlement is worth what was paid, no more and no less |
| Devices, `trace-devices` | connections, health, back-off, entries typed | `connect_all`, `read` with one retry, `submit` | instruments, the operator | a reading answers the poll that asked for it; a read ends |
| Recall and genealogy, `trace-store/query.rs`, `migrations/0003` | none | `unit_history`, `units_affected_by_lot`, `units_measured_by_device`, `genealogy_descendants`, `genealogy_ancestors` | the links and rows other connections write | a recall names every unit concerned and no other; a history misses nothing |
| Partitions, provisioning, tenants, `migrations/0001`, `0002`, `0004`, `store.rs` | partitions of a month, tenants, `app.tenant_id` of a connection | `ensure_partitions`, `provision_tenant`, `Store::tenant` | every statement | no tenant sees another; no row is lost between partitions |
| Marking, `trace-mark` | the marker's last mark | `bind`, `validate`, `render_zpl`, `send`, `mark`, `read_back` | printers, markers, the store, the engine's gate | a part carries its own identity; data is never a command |
| Signing, `trace-sign` | none | `canonical_json`, `sign`, `verify` | updater, licensing | one document, one text |
| Device simulator, `tools/device-sim` | none | the printer's `summarise`, an instrument | marking, devices | |
| Cloud, sync | placeholders | | | |

Interactions: engine calls are function calls on values the caller holds; the
caller persists the result through the store. Everything shared between
stations is in Postgres, guarded by row locks, unique indexes and triggers. The
spool and the install root are files, guarded by `fsync` and `rename`.

What is hard, and is what the properties aim at (the full list, each at its line,
is `hazards` in `PROJECT.json`): two stations appending to one chain; a state
read without a lock and written later; scrapping racing birth; power cuts
between any two file operations, and inside a line; acknowledgements that are
lost; instruments that answer late, unasked or in part; a licence that is
evaluated once and a clock that is set; tenants that share connections; labels
that are cut on their way or outlive the station that printed them; media whose names lead
elsewhere; long legal sequences of failure, rework,
hold and release that end in a COMPLETED unit with an operation missing; retry
counters at their limits.

## 2. Modules

```
DataCollection ─┐
Route ──────────┼─ RouteEngine ─┬─ Line ── LineMC      HashChain ─┐
Unit ───────────┘               ├─ RouteSim ── …MC     Unit ──────┴ EvidenceStore ── Audit ── EvidenceStoreMC
                                ├─ Gates ── GatesMC    Ledger ◁ refined by ┘
                                └─ (INSTANCE) Marking ── StationMC
                        Label ────────────┘            Genealogy ──────┬─ Recall ── RecallMC
                                                       DataCollection ─┘
Signing ─┬─ Manifest ── Updater ── UpdaterMC           Spool ── SpoolMC
         │              LiveRelease ◁ Updater          DurableQueue ◁ Spool
         └─ Entitlement ── Licensing ── BillingMC      Devices ── DevicesMC
                                                       Webhooks ── BillingMC
EngineMC  = RouteSimMC + GatesMC                       DiskMC    = UpdaterMC + SpoolMC
StationMC = Devices + Marking                          BillingMC = Licensing + Webhooks

Route ── RouteProofs ─┬─ LineProofs ── Line            Audit ── EvidenceStoreProofs
                      ├─ RouteSimProofs ─┬ RouteSim    Updater ─┬ DiskProofs
                      │                  └ Gates       Spool ───┘
                      ├─ RecallProofs ── Recall        Licensing ─┬ LicensingProofs
                      └─ DevicesProofs ─┬ Devices      Webhooks ──┘
                                        └ Marking
```

Three proof modules are about two components each. Where a module can be extended together
with another, its initial states, next-state relation and specification bear its own name
(`SpoolSpec`, `MarkingSpec`, `WebhookSpec`).

**Route** (`route.rs`), **Unit** (`unit.rs`), **RouteEngine** (`engine.rs`) and
**DataCollection** (`dcp.rs` and the columns of a value in `repo.rs`) are pure: one
operator per function, a route being a sequence of records in the order of the Rust
vector. A number is an integer or `NaN`. `AssertAcyclic` is Kahn's algorithm with the
successor counts of the code, duplicates included, as a recursive function; its queue is
the set of the nodes that have no count left, one of which is popped, so that what is
proved holds for any order of popping. `IsRoute` is what the types of a route say. An
error the caller can only give up on is a value (`None` of `ResolveOperation`, `FALSE` of
`DispositionApplies`).

**Line** puts the engine into a line: `Work(station, ev)` is `resolve_operation` followed
by `try_advance` and by what the docs ask of the caller (`Completes` records the
completion, `Fails` applies the disposition, voids completions, counts attempts); `Decide`
and `SendToRework` are a supervisor using `transition_to`. No program of the repository
drives the engine this way yet, so the callers are marked external; the decisions are the
code's. The constant `MovesToInProcess` says whether the caller moves the unit to
IN_PROCESS when an operation starts: nothing requires it to, and with FALSE `NeverStuck`
fails ([5](#5-what-the-checks-found)). `owed` and `refused` are history variables.

**RouteSim** is `tools/route-sim`: a step is one turn of its loop, the guard of
four turns per operation included; `report` is what it has printed, one entry a turn, and
`outcome` is how `run` returns. `CompletionIsEarned` reads the report: at each entry of a
completion its gates are green and what it waits for stands in front of it.

**Gates** evaluates one `try_advance` on each of a set of contexts, whose captures
are made from readings by `Evaluate` and keep the places of the readings; its
properties say what a gate is for, without using `EvaluateGate`, `Accepts` or `AppliesTo`.

**HashChain** is `hash.rs` and the SQL-side verification. A hash is the sequence
of the payloads it covers: SHA-256 over length-prefixed parts taken as
injective. `IsChain` and `Covered` are the reference notions.

**EvidenceStore** models tenant transactions statement by statement at READ
COMMITTED. A transaction has a program counter; `LockUnit`, `ReadTail`,
`InsertRow` are the three statements of `append_event` / `append_measurement`;
`RequestBirth` and `RequestUpdate` are what the caller decides before it may
have to wait, `InsertUnit` and `SetUnitState` the statement once it has the lock,
with the triggers of `0003_integrity.sql` applied to the row as it then is.
`pending` and `draft` are the uncommitted rows and states; `Commit` publishes
them at once, `Rollback` is also an error, a lost connection, a power cut or a
deadlock victim. `seen` is the caller's possibly stale copy of a unit.
**Ledger** is what the store promises: per unit an append-only log, a state, a
set of retired uids, changed a transaction at a time. The refinement maps `log`
to the history the chain of the unit covers. **Audit** adds what the two
verifications say of the stored rows and of rows changed behind the
application's back.

**Genealogy** has the walks over `genealogy_link`, each cut off at `DepthCap` levels.
**Recall** is the pool of connections: whose transaction each holds (`owner`), the tenant
set on it (`setting`), what it has written (`draft`) and the history it is in the middle
of reading (`history`, one statement a step). A measurement names a point, of those that
may be named (`NamedBy`), and a history joins it with those that are configured
(`PointsOf`), as the inner join of `unit_history` does: `dcp_id` has no foreign key. Every
statement sees `Visible`, which is the policy of row-level security. `AppendRow` is one
step here, since EvidenceStore has its statements; `EnsurePartitions` and `NextMonth` move
the partitions. The reference notions are `Implicated`, the least set closed under "went
into", and the rows that are committed.

**Label** is pure: templates as sequences of parts, `Bind`, `Valid`, `RenderZpl`, and what
a printer makes of a stream (external), whole or cut: the commands it executes, the fields
it prints, what came of one that was cut off (`CutFields`), and what the printer of
device-sim warns of (`Warnings`). A text is a sequence of tokens, a control character
being one of its own, so that no token of a text is a whole command (`TextAssumption`).
**Marking** is two stations that share a printer and a marker: they bind, send or mark,
stick a label of the pile on the part, read back, ask the engine's gate MARK_VERIFIED
(`INSTANCE RouteEngine`) and call `record_mark`. The order of these calls is the caller's,
as the docs tell it. A send that fails leaves any beginning of the label in the printer,
which prints it; a reader makes nothing of the code on a cut label, or what came of it
(`CodeRead`). `record_mark` is there for the attempts it counts; no property is about the
records.

**Spool** models the file as a sequence of symbols: two halves of a record's
JSON and line feeds, so that a cut can fall inside a record. `synced` is the
prefix `fsync` vouched for; `PowerCut` keeps it and any part of the rest. `Intact`
is the line-by-line parser, as the places where the lines start that it accepts, and
`Load` the records there in the order of the places; `Readable` is the UTF-8 check of
`read_to_string`, which half of a `Wide` record fails.
Replay and the edge's deduplication are external: `main.rs` leaves the loop to
be written. **DurableQueue** is the promise.

**Updater** has one action per step of `update` that touches the disk; a
`Fault` (error or power cut) may end an attempt after any of them and leaves
the disk as it is. **Manifest** is what `update` decides before and while it
downloads: the signature, schema and digests of a manifest, cohort, required
step and downgrade, paths, sizes and digests of artifacts. An artifact's name says where
`write_artifact` puts it: nothing looks at it, so that it may be another's or lead into a
release on disk, the live one included (`WriteArtifacts`). `NamesArePlain` is the discipline
of a vendor that signs no such manifest. **LiveRelease** is the promise: what `current` resolves to
goes from one whole release to another in one step.

**Signing** is the canonical text of a document, one slot for each name in the order of
the names, and the signature over it: a signature is the key and the bytes signed, and
what is verified is the document those bytes stand for. **Entitlement** is pure: `verify`
and `evaluate` of an entitlement, the two halves of `ClockGuard::observe` (the instant it
returns, the mark it leaves), and how `EntitlementIssuer::issue` turns a subscription into
an entitlement. **Licensing** puts them together: Stripe changes a subscription, billing
fetches it and issues later (`FetchSubscription`, `IssueEntitlement` are two steps, so
what is issued may be stale), any file, old and foreign ones included, is put on the box
(`InstallFile`), the server starts, which is when it reads the file and its clock
(`Start`), and serves `BirthUnit` (with `EnqueueOutbox`) and `CreateProduct`. `now` is the
control plane's time and `clock` the box's, which may be set to anything. The clock guard
has no caller in the repository; `Observe` and `Bump` are its operations on the box's
clock and on a trusted one, and its verdict on every entitlement is compared in
`WindingBackBuysNothing`. `sold`, `began` and `seen` are history.

**Devices** is a registry with a polled TCP instrument and the manual driver. A read goes
through `pc`: `read` (the driver is called and writes its poll, if there is room for it),
`await` (the poll is written and a line awaited), `backoff` (the one retry). The write has
no timeout: while the connection is open and full (`Blocked`) nothing goes on. The
instrument is external: it answers polls in order, as late as it likes, speaks unasked,
sends garbage and hangs up, in the middle of a line too. A line knows the poll it answers,
so that a sample can say how far behind it is; values typed are numbered in their order.

**Webhooks** is `stripe_webhook` with Stripe (which posts until it is answered well
and signs with each active secret), a network that loses, alters, delays and
repeats, a clock that is ahead or behind, and an operator who rotates the secret.
What the receiver takes it logs, and nobody acts on it: the model ends where the code does,
with the answer. A header is its parts at
places that are in their order, so that what is lost from one leaves the others where they
were.

Mutated forms of definitions (`X_Something`, commented "Mutant") stand beside
the originals and are used only to confirm that each property can fail.

## 3. Runs

Seven runs check what holds, five what the repository says and the code does not do
([5](#5-what-the-checks-found)).

| run | question | instance | states |
|---|---|---|---|
| `line` | order, completion, rework, retries, progress of a unit | 3 routes (diamond with an optional step and a duplicate predecessor; nested rework loops; retry and scrap paths), 4 stations (one retired), pass / fail / unscanned evidence | 7.6 k |
| `engine`: route-sim | is validation exact, is a green run earned, does a good one end? | all 4096 graphs on four operations, 3-operation routes with unknown, repeated and duplicate keys, 5 station lists, good and bad inputs | 60 k |
| `engine`: gates | does each gate stop what it is for? | every combination of relevant evidence per gate, attempts 1..3 around `max_attempts` 2, up to 2 readings of 2 points with every kind of limit and sampling rule, NaN and text included | |
| `store` | chain, audits and refinement under concurrency | 1 unit, 2 transactions, 2 payloads, up to 3 rows, scrap and quarantine | 220 k (symmetry) |
| `recall` | are recalls exact, histories complete, tenants apart? | 2 tenants of 3 and 1 units that share a lot number, 2 connections, 3 links or rows, 2 points of which 1 is configured, 3 months of which 2 have a partition, a depth cap of 1 | 1.2 M (symmetry) |
| `disk`: updater | atomic switch of genuine releases, rollback, no downgrade | 3 versions, 1 broken, 11 sources (4 of them not to be taken: another cohort, another key, wrong bytes, a path that leaves the medium; one too large), plain names, 3 faults | 141 k |
| `disk`: spool | is the spool a durable queue? | 3 records, one with a multi-byte character, 2 writers, 2 cuts or failed writes | |
| `station`: drivers | do readings answer their poll, does every read end? | 4 reads, room for 2 polls, 2 unasked lines per connection, 2 entries | 598 k |
| `station`: marking | does a part carry its own identity, and a label what was bound? | 5 units in 3 shifts of two: labels, one with control characters, one that lacks a name; a laser that may mark wrongly; 3 attempts in all; labels whole or cut 1, 3 or 12 tokens short | |
| `billing`: licence | is configuration what was paid for, production never stopped, the guard proof against a clock set back? | 1 entitlement issued from 2 statuses, 2 period ends and a listed or unlisted price, 2 foreign files (one tampered with), clocks 0..3, 1 restart or clock change, 1 unit, 1 model | 781 k |
| `billing`: webhooks | is what Stripe sent taken, and only that; is every event taken? | 2 events, a rotation, instants 0..2, a clock 2 behind or 1 ahead with a tolerance of 1, 2 faults | |
| `spool_loss` | is every captured record kept? | 3 records, 1 writer, 1 cut | violation |
| `updater_stray` | is the live release never changed in place? | 2 versions, the second with an artifact named into the first | violation |
| `devices_block` | does every read end? | 3 reads, room for 2 polls | violation |
| `recall_point` | is every reading in a history? | as `recall` | violation |
| `audit` | does the audit see an edited row? | as `store` | violation |

Four of the runs are of two components each, which share no state: a behaviour is one of
the one with the other at rest, or the reverse (`acts` says which and never changes), and
each property is of one of the two. So a run checks what two runs of the components would,
on the sum of their states, and where it states fairness it is that of the component, for
its own behaviours. A property of the component at rest holds there of its initial states
alone, and `EventsAreTaken` not at all, since the clock of a receiver at rest is out of
tolerance.

What the properties say stands above each of them in its module. The bounds:

* `line`: the routes contain every failure path, an optional step in the middle,
  joins and loops within loops; attempts are bounded by the code itself, so the
  state space is finite without a cap. Only one unit is modelled: the engine
  keeps no state and a unit's work depends on no other unit.
* Gates: the limits are 1 and 2 with values 0..3 and one side or both missing;
  two readings are one that is replaced and the one that replaces it.
* `store`: three rows are a first row, one after it, and one after a row of the
  other transaction; forks and gaps need two. Two transactions are enough for
  every race of a lock, since a third would wait as the second does. `MaxRows`
  bounds rows per unit. Audits are compared on every two changes to up to three rows.
* `recall`: three links are a lot in a chain that goes one level past the cap, in both
  halves of a fork, or in a cycle; `DepthCap` is 32 in the code and 1 here, so that the
  cap is met. Two connections are one that reads and one that writes meanwhile; a third
  would only write as the second does. The migration's months ahead are 0 here, so that
  rows with no partition and a partition that cannot be created both occur.
* Spool: the second cut meets the file the first left; three records are one
  before, in and after a torn line.
* Updater: three faults are enough for an attempt to meet what two broken ones
  left; three versions for a step back that is neither the last nor the next.
* Licence: the clocks reach past the end of the longest period and its grace,
  so every rung of the ladder is met with each entitlement; two instants a step
  apart tell `<` from `<=`. One entitlement is enough for the properties of the
  box, which holds one file; that old ones may be put back is in `InstallFile`,
  which needs no order. The day of `not_before`, the grace and the tolerance are 1.
* Drivers: two reads with their retries are enough for an answer of the first to
  meet the second, and four for that to happen after a reconnection; two
  unasked lines tell "behind by the lines sent unasked" from "behind by one". `Room` is what
  a connection takes before the instrument reads on; 2 lets one be full after it was not.
* Marking: two units at work share a printer or a marker, which is all they share; a
  second attempt meets the labels the first left on the pile, of its own unit or the
  other's, and a third what both left. A label may lose its end, half of the
  code, or all that follows an earlier field (`Cuts`).
* Webhooks: instants 0..2 let a request be older than the tolerance; two faults
  are a repeated delivery and a lost answer, or one of each kind of alteration.
* Symmetry is used for transactions and payloads in the store run and for the
  units of one tenant and the connections in the recall run, whose properties are
  all safety properties that treat them alike.
* `CHECK_DEADLOCK FALSE` is set where the system stops: a unit that is scrapped,
  a run that has ended, records, reads, rows or instants used up. The runs of the
  store do not set it.

Fairness. `Line!FairSpec` assumes weak fairness of `Work`: as long as some
station is offered an operation, some station attempts it. Operators do work
the units in front of them; nothing is assumed of the supervisor or of gates.
`Updater!FairSpec` assumes weak fairness of the next step of an update in
progress: `update` is a sequence of awaits on the disk, the medium and the probe, which
has a deadline. Nothing is assumed of new manifests. `Licensing!FairSpec` assumes
that the server is started when it is down (by the box's service manager, which
the repository leaves to the installation) and that a running one answers a
station that asks and asks again; nothing of files, clocks or billing.
`Devices!FairSpec` assumes weak fairness of the next step of a read in progress:
the connection and the line have timeouts, the delay a cap. The write of the poll has none,
and its step is not enabled while the connection is full and open, so that `ReadsEnd` has
the hypothesis that this does not last for ever (`[]<>~Blocked`); nothing else is assumed of
the instrument. `Webhooks!FairWebhookSpec` assumes that Stripe posts
an event again until it has a good answer (its documented retries), that what
the network does not lose arrives, and that an operator brings the receiver to
the newest secret; faults are bounded, nothing is assumed of their order.

## 4. Proofs

Each theorem holds for every value of the constants that satisfies the named
assumptions (below); a run shows the same property on its instance. Where the
property is not inductive, the module proves an invariant that is, first checked by
TLC, from three facts: it holds initially, every step keeps it, it implies the
property. "Inductive" below says what that invariant adds and what each part is for.

| module | theorem | property | about |
|---|---|---|---|
| `RouteProofs` | `ValidateMeansWalkable` | | `validate` accepts exactly the routes that can be walked |
| `LineProofs` | `TypeCorrect` | `TypeOK` | |
| | `CompletedMeansDone` | `CompletedIsDone` | COMPLETED or SHIPPED only with everything required done |
| | `RetriesStayBounded` | `RetriesAreBounded` | no retry beyond its path |
| | `StepsKeepTheirOrder` | `StepsAreInOrder` | what is completed was ready; SCRAPPED is final |
| | `NobodyIsStuck` | `NeverStuck` | an unfinished unit is offered work, no decision is refused |
| `RouteSimProofs` | `ValidationIsExact` | `ValidateIsExact` | the dry run refuses exactly what cannot be walked |
| | `CompletionMeansEarned` | `CompletionIsEarned` | a green run was earned, in the order of the route |
| | `GoodScenariosComplete` | `GoodScenarioCompletes` | a good scenario of any length completes |
| | `WrongStaysBack` | `WrongNeverAdvances` | no context advances on a wrong identity, mark, part, test or operator |
| | `DueReadingsPassed` | `DueReadingsPass` | whoever is due a reading has one, and the last is good |
| `EvidenceStoreProofs` | `TypeCorrect` | `TypeOK` | |
| | `Chained` | `EvidenceIsChained` | the rows of a unit are one chain, whatever is appended at once |
| | `NothingTakenBack` | `NothingIsTakenBack` | evidence stays, in place; SCRAPPED is final |
| | `LedgerIsImplemented` | `ImplementsLedger` | a commit is one transaction of the ledger, all else a stutter |
| | `VerificationIsExact` | `VerifyIsExact` | what the two audits accept after any two changes |
| `RecallProofs` | `TypeCorrect` | `TypeOK` | |
| | `TenantsStayApart` | `TenantsAreApart` | no statement sees another tenant |
| | `RecallTellsExactly` | `RecallIsExact` | recalls name exactly the units they should, for every genealogy and cap |
| | `HistoryIsWhole` | `HistoryHoldsCommitted` | a history misses nothing that was committed and is readable |
| `DiskProofs` | `TypeCorrect` | `TypeOK` of `Updater` | |
| | `RollbackStaysReady` | `RollbackIsReady` | what is replaced is whole and ready, if names are plain |
| | `NoDowngrade` | `NoUnforcedDowngrade` | only a rollback takes the box back |
| | `SwitchIsImplemented` | `ImplementsSwitch` | `current` goes from one whole genuine release to another, if names are plain |
| | `SpoolTypeCorrect` | `SpoolTypeOK` | what is captured was written, what is synced is in the file |
| | `LoadsKeepOrder` | `LoadsInOrder` of `Spool` | a load is in the order of the appends, none twice |
| | `QueueIsImplemented` | `ImplementsQueue` of `Spool` | the spool is a durable queue: a captured record is lost only to a line cut short, one to each |
| `LicensingProofs` | `PayingIsServed` | `PaidIsServed` | |
| | `WindingBackIsUseless` | `WindingBackBuysNothing` | a clock set back revives nothing |
| | `ConfigurationIsPaidFor` | `ConfigIsPaidFor` | configuration changes only on what was issued for this box |
| | `TakenIsSent` | `TakesWhatStripeSent` of `Webhooks` | the receiver takes exactly what was signed, in time |
| `DevicesProofs` | `TypeCorrect` | `TypeOK` | |
| | `ReadingsAnswer` | `ReadingsAnswerTheirPoll` | late by no more than the lines sent unasked |
| | `LastEntryIsRead` | `ReadsLastEntry` | the newest entry is read, none twice |
| | `CompletedIsItself` | `CompletedCarriesItsIdentity` of `Marking` | a unit that went on carries its own identity |
| | `LabelsSay` | `LabelSaysWhatIsBound` of `Marking` | a label, cut or whole, executes its template as far as it came and no data, and shows what was bound |

Every safety and action property, and every refinement, that a passing run checks is stated
by one of these theorems; what no theorem states is liveness ([below](#only-model-checked)).

### Assumptions

`StoreAssumption`, `RecallAssumption`, `DevicesAssumption`, `EntitlementAssumption`,
`LicensingAssumption`, `WebhooksAssumption`, `SpoolAssumption`, `DepthCapAssumption` and
those of the updater say that bounds are numbers and which sets the constants come from. The
`NoneAssumption`s say that "absent" is none of the values it stands beside. The ones with
content:

* `RoutesAreValid` (Line): the routes are of the type (`IsRoute`) and `validate`
  accepts them, which is what a released route is. `NobodyIsStuck` has two hypotheses
  of its own: some active station can do each operation (`LineIsEquipped`), and the
  caller moves units to IN_PROCESS; without the second it is false ([5](#5-what-the-checks-found)).
* `ScenariosAssumption`: a scenario's route is of the type; it need not be valid.
* `ContextsAssumption` (Gates): a point and a reading are of their types and points
  differ in their ids, which are primary keys.
* `ValuesAssumption` (Recall): a value is a number, a text, a barcode or a truth value.
* `SourcesAssumption` (Updater): what the vendor's key has signed is a manifest of one
  of the releases; `ForeignAssumption` (Licensing): it has signed no envelope from elsewhere
  for this box or for any.
  `NamesArePlain` is no assumption of the module but a hypothesis of the two theorems about
  what is whole on disk, `RollbackStaysReady` and `SwitchIsImplemented`: artifacts go to
  places of their own in their release. Nothing in the box sees to it
  ([5](#5-what-the-checks-found)); the `disk` run states it of its sources.
* `UidsAssumption` (Marking): no two units bear one uid, a constraint of the database.
* `TextAssumption` (Marking): the template and the data are of the types of the code, and
  no token of a text is a whole command: a `^XZ` in it is a `^` and an `XZ`. Data may hold any
  character, those that ZPL and the binding engine reserve included.

TLC evaluates each of them on the instance of its run.

### The arguments

* **Routes.** What Kahn's algorithm computes is a recursive function of the number of
  pops. Its invariant (what was popped is closed under predecessors, the counts are
  those of the edges that are left) is proved by induction on a *set* of numbers, the
  failures of which have a least element (`LeastNumber`); the library's induction
  theorems take an operator and are of no use here. `MissingIsReady` is what the line and
  the dry run need: on a walkable route, while a required operation is missing one is
  ready.
* **Line.** Inductive with `TypeOK`, which holds the unit to the table of the
  lifecycle; `NotRefused` adds the state the caller has moved it to.
* **RouteSim.** Adds that each entry of the report was ready at its turn, with its gates
  green on what stands before it (`Performed`), that a gate that is green stays green as what
  is completed grows (`GatesStayGreen`), and that the loop counts its turns by the operations done
  (`Running`), so that its guard never bites.
* **Gates.** Nothing to add: a context advances only with no failing entry gate. The work is
  in what the engine computes differently from the property: remainders for "a
  multiple of" (`DueIsAskedFor`), the last capture for "the reading that counts"
  (`LastCaptureIs`), bounds for "good" (`PassIsGood`).
* **EvidenceStore.** `EvidenceIsChained` is not inductive: a commit publishes rows
  chosen by earlier steps. `HeldByLock` says that a transaction with uncommitted rows of a
  unit holds its lock (so nobody else commits meanwhile); `SeenIsChained` that the
  committed rows *with those a transaction is about to add* are a chain (so a commit
  keeps it); `TailIsCurrent` that the tail an append has read is the last row it sees.
  `LedgerInv` adds, for the refinement and the action property, that pending rows follow
  the committed ones (`PendingFollows`), belong to units there are (`AppendsToBorn`)
  and hold no other state for a scrapped unit (`ScrapStands`).
* **Audit.** A hash of a chain counts the rows it covers (`HashCounts`), so rows that
  carry links of a chain, after whatever edits, losses, repetitions and
  renumberings, hold together only as its first rows (`LinksArePrefix`). The lemmas hold
  for any number of changes; the property says two.
* **Recall.** Each walk is a function of its depth; rises and falls without a cap
  exist because a step can be iterated (`Iterated`), and a query is one of them down to
  the cap, cycles included. For the tenants, the invariant says whose context each
  transaction runs in, that what it has written is its tenant's, and that a tenant
  being provisioned has no record; for histories, what was read so far.
* **Updater.** Follows an update through its steps: which release it replaces, that the
  one put in place is another, how much of each is on disk, and what the temporary link
  holds when it is renamed.
* **Spool.** Neither property is inductive. `WrittenOnce` says that a record is written
  once, by the one writer that has it; `FollowsWritten` that the places where records
  start follow the order of the writes, in torn lines too, since a cut further back or the
  next append may change which lines are intact; `CapturedIsSynced` that a record is
  reported captured only once its line is within what is synced, so that a power cut
  cannot reach it; `CompactionKeeps` that the file about to be renamed holds, each on a
  line of its own, every queued record that is not acknowledged, and none that is not
  queued. For the bound on losses the invariant counts what is *doomed*: captured records
  that are neither queued nor at the edge, and records on a line that was appended to a
  torn one, which are lost once their sync returns. `TearsCost` says that these, and one
  for a torn last line, are no more than the tears: an append to a torn line moves its
  debt from the line to the record. Each step then is one of the queue's or a stutter.
* **Licensing.** `SoldIsIssued`, `FileIsKnown` and `LicenseIsSold` follow an entitlement
  from the fetch through the file to the start; `MarkIsKept` says that the clock guard's
  mark is not behind what it was shown. `TextIsExact`, a lemma, says that
  `FromJson` undoes `CanonicalJson` in the model; what `write_canonical` does with nesting,
  escapes and sorting is not modelled.
* **Webhooks.** However a request was altered, each v1 in it is one Stripe made of the
  event it was sent with (`RequestOK`), and a digest says secret, time and body.
* **Devices.** `LinesInOrder` counts the lines still to be read against polls answered and
  lines sent unasked, and bounds how early the poll is that each answers; `EntriesInOrder` says
  that what is on its way from the operator ends with the newest entry.
* **Marking.** A marker reports the last mark it made, of whichever unit; that it tells the
  truth of the unit asked about holds because a marker that is not bad writes each unit
  its own (`LaserIsWritten`), and a bad one is caught by the gate.
* **Labels.** A label is commands, the elements in a row, and `^XZ`. `Executed`,
  `PrintedFields` and the counts of commands go through a concatenation (`ExecutedConcat`,
  `PrintedConcat`, `CountConcat`), the fields because each closes before the next begins
  (`Closed`); so what holds of an element (`ElementBlock`) holds of the row (`InARow`).
  `FlattenSeq` is defined by a function that chooses itself; `FlattenJoins` gives it as
  the last of the concatenations one after another, from which `FlattenConcat` and
  `FlattenRelated` follow by the induction on a set used for the routes. Escaped data has
  no command in it (`EscapedIsData`), and what was bound is in the field
  (`FieldShowsValue`). A label that is cut is the first part of a concatenation: what it
  executes is a beginning of what the whole one does (`PrintedSoFar`), a finished field
  stays as it is whatever follows (`FinishedStays`), and `^XZ`, the last token and no
  other, tells the whole ones. `LabelInv` carries this to the pile.

### Only model-checked

Liveness: `WorkEnds`, `BrokenIsReplaced`, `ProductionGoesOn`, `ReadsEnd`,
`EventsAreTaken`. They need ENABLED and fairness, which the prover does not treat.

## 5. What the checks found

* `spool_loss`: after a torn line the next record is appended to it; its
  `append` returns Ok and `load` skips it.
* `updater_stray`: `write_artifact` writes to `staging.join(&artifact.name)`
  (`apply.rs:278`) and nothing looks at the name: one that is absolute or has a `..` in it
  leads into the live release, which `lib.rs:20` says is never mutated in place. It takes a
  manifest the vendor has signed; with plain names the switch is what it should be.
* `devices_block`: the poll is written without a timeout (`tcp.rs:137`), so that a read waits
  without end for an instrument that stays connected and reads no more, where `lib.rs:13`
  says that a driver never blocks forever and every read has a deadline.
* `recall_point`: `unit_history` joins measurements with their points (`query.rs:190`), and
  `dcp_id` refers to nothing (`0002_runtime_and_partitions.sql:127`): a committed measurement
  without its point is in no history, where `query.rs:111` says "Every reading."
* `audit`: `verify_unit_chain` compares stored hashes with each other and never hashes a
  payload, where its doc says that "the chain is recomputed from the row contents rather than
  trusted" (`query.rs:348`); an edited row passes. The comment at `query.rs:375` leaves the
  contents to a report that is not in the repository. `hash::verify` does see edits.

Observed while modelling and not made into runs:

* Engine and line. A failed gate on a rework path gives a decision that
  `apply_disposition` cannot carry out for a unit that is BORN, MARKED or REWORKING,
  although `resolve_operation` offers work to such units (`NeverStuck` fails with
  `MovesToInProcess = FALSE`). An optional operation voids the order between a required
  one before and a required one after it. A released unit whose route is complete has no
  way back to COMPLETED. Nothing in the repository calls `DataCollectionPoint::evaluate`,
  and a numeric point without limits passes a NaN (`dcp.rs:118` refuses it only where
  there are limits).
* route-sim exits with 0 when no station can take the next operation, with the
  route not walked.
* Store. Neither verification can see that the last rows are missing;
  `set_unit_state` guards SCRAPPED only, so a caller's stale copy can bring a
  shipped unit back. `append_event` gives a fresh id to an event that is replayed,
  where `0002_runtime_and_partitions.sql:86` calls the id the idempotency key.
  `Measurement::canonical_payload` (`unit.rs:302`) covers neither the operator nor
  the time of receipt nor the reason of a correction, and joins free texts without
  a delimiter; an event without a detail and one with the detail "-" hash alike.
* Recall. A history read while a station commits may list a measurement without
  the event before it in the chain (`query.rs:88`); the recall by lot goes one level
  further than the trace downwards, since it counts the units a lot went into
  as depth 0. `ensure_partitions` is documented as "Called ahead of time by the
  edge service" (`0002_runtime_and_partitions.sql:363`) and only the migration
  calls it: when its months are over, rows go to the default partition, and no
  partition for their month can then be created.
* Spool. A line torn inside a multi-byte character makes `load` fail altogether,
  on every later start.
* Updater. A release that fails its probe is installed again at every poll. Power
  lost between the switch of `current` and the verdict of the probe leaves a
  release live that no later update probes (`apply.rs:192`), and `lib.rs:23` promises
  a rollback of what fails its probe. What a server sends without a
  Content-Length is not held to `max_artifact_bytes` while it is read; the digest
  then decides.
* Licensing. The licence is evaluated once, when the server starts, and nothing calls
  `set_license`: a server that keeps running past the end of grace goes on allowing
  configuration changes, where `entitlement.rs:142` says they are blocked
  (`ConfigIsPaidFor` therefore counts from the start), and a renewal needs a restart. The
  clock guard, which `DECISIONS.md` counts among what is enforced, has no caller:
  `load_license` trusts the clock. A lapsed subscription that is issued again
  gets a period of grace from each day of issue within the paid period; a clock
  that once jumped forward stays in the guard's mark.
* Billing. The ids of events are documented for idempotency and kept by nothing. An event
  that is accepted is logged and answered (`routes.rs:331`): nothing calls
  `subscription_id()` or issues anew, and Stripe does not send again what it has a good answer
  to, so a changed subscription reaches a box only when somebody issues.
* Devices. An instrument that closes the connection in the middle of a line leaves
  part of a number (12 of 12.1) that is parsed and returned (`tcp.rs:161`, where
  `tcp.rs:19` says newline-terminated). `connect` counts as a success, so
  `last_success` and `consecutive_failures` are reset by a reconnection that reads
  nothing, while a read without a connection and a failed write are not recorded;
  a retry that succeeds does not reset the back-off, whose delay the whole
  registry waits for; one unasked line puts every later reading behind by one
  until a reconnection.
* Marking. `escape_field` writes `_5E` for a `^`, which a printer decodes only after a
  `^FH` that `render_zpl` never sends: such a character is printed as its code.
  Data with a `{{` in it can never be printed (`zpl.rs:29`). The comment on the last
  field of `demo_sticker` promises the identity in plain text, and the field says
  MADE IN INDIA. `record_mark` takes a second label of a unit that the caller does
  not declare a reprint.

## 6. Assumptions

* SHA-256 is injective on what is hashed; a signature is made by whoever has the key.
* Postgres: READ COMMITTED as documented, row locks held to the end of the
  transaction, triggers run on the row as locked, deadlocks end in a rollback; row-level
  security adds its policy to every statement; `SET LOCAL` ends with the transaction.
* Files: what `sync_all` returned for survives, including the directory entry;
  `rename` is atomic, and renames and removals reach the disk in their order.
  The code does not sync directories; this is taken from the file system.
* One process compacts the spool, and not while it appends (the single writer
  of the module's docs).
* A health probe may fail for a good release that is slow, and never passes for
  a broken one.
* A subscription's paid period is never cut and its price does not change.
* An instrument answers polls in their order.
* A caller of `link_child_unit` and `link_lot` links units of its own tenant.
* A printer prints what it received, a beginning of a label too (`sink.rs:105`), and executes
  commands wherever they stand. A reader reads the part in front of it: of a code that was
  cut, nothing or the beginning that came.
* A connection takes a bounded number of polls that the instrument has not read.

## 7. Plan

Done, in order: Route, Unit, RouteEngine, Line (the core rules); RouteSim,
Gates; HashChain, EvidenceStore, Ledger, Audit and the proofs; Spool,
DurableQueue; Updater, LiveRelease; Entitlement, Licensing; Devices;
DataCollection, Genealogy, Recall; Label, Marking; Signing, Manifest; Webhooks.

The theorems of section 4: Route, Line, RouteSim, Gates; EvidenceStore, Ledger, Audit;
Recall; Updater and LiveRelease; Licensing, Signing; Devices; Marking; Webhooks; Spool and
DurableQueue; Label.

Open: the replay of the spool and the engine's caller, once the repository has them, in the
place of the external ones; the hazards no property covers, each with its reason in
`PROJECT.json`.

### Not modelled

* Configuration entities (`config.rs`, `jobcard.rs`, `id.rs`, `clock.rs`, `error.rs`): plain
  data with constructors and checks of a single value.
* Cloud and sync: placeholders that hold no code.
* The station's replay of the spool: `main.rs` leaves the loop to be written, so what
  is sent again, and what the edge compares, is not in the code.
* Tiers, limits and features of an entitlement: nothing in the repository asks for them.
* Checkout and portal sessions: requests to Stripe that change nothing here.
* Fonts, symbologies and pages; the parsing of JSON and of configuration files; key
  files; the length of a delay.
