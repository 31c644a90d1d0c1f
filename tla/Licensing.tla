------------------------------ MODULE Licensing ------------------------------
(***************************************************************************)
(* A subscription, the entitlements billing issues from it, and an edge    *)
(* box that starts with whichever of them is on its disk (apps/trace-edge, *)
(* trace-license, trace-billing).                                          *)
(*                                                                         *)
(* `now` is the control plane's clock, `clock` the box's, which may be     *)
(* wrong.  Who fetches, issues and carries the file, and who asks the      *)
(* clock guard, is outside the repository: the crates leave it to the      *)
(* caller, and nothing in src calls them.                                  *)
(***************************************************************************)
EXTENDS Entitlement, FiniteSets

CONSTANTS
  Node,            \* this box's node id
  Statuses,        \* what Stripe may say of the subscription
  PeriodEnds,
  Foreign,         \* envelopes from elsewhere that may be on the disk
  Units, Models,
  MaxNow,          \* bound: instants
  MaxIssued,       \* bound: entitlements issued
  MaxFaults        \* bound: stops of the server and changes of the box's clock

ASSUME LicensingAssumption ==
  /\ PeriodEnds \subseteq Nat
  /\ MaxNow \in Nat /\ MaxIssued \in Nat /\ MaxFaults \in Nat

\* Nobody but the vendor signs with its key, and what it signs for this box, or
\* for any, is what billing issues.
ASSUME ForeignAssumption ==
  \A e \in Foreign :
    e.signature = <<VendorKey, e.payload>> => FromJson(e.payload).node_id \notin {None, Node}

\* Nothing is none of what there is.
ASSUME NoneAssumption ==
  /\ \A s \in Statuses, t \in PeriodEnds, p \in DOMAIN Catalog \cup {"unlisted"} :
       None # [status |-> ParseStatus(s), current_period_end |-> t, price_id |-> p]
  /\ None \notin [schema : {SchemaVersion}, node_id : {Node}, issued_at : Nat,
                  not_before : Int, expires_at : Nat, grace_days : Nat]

VARIABLES
  now, clock,
  subscription,    \* what Stripe has
  fetched,         \* what billing last fetched of it, or None
  sold,            \* history: the payloads issued, from what and when
  file,            \* TRACE_LICENSE_FILE: an envelope, or None for nothing usable
  license,         \* AppState.license of the running server, None when it is down
  began,           \* history: what the clock said when the server started
  waiting, units, outbox,   \* units to be recorded, recorded, announced
  products,
  high_water,      \* the clock guard
  seen,            \* history: the latest instant it was shown
  faults

control == <<now, subscription, fetched, sold>>
box     == <<clock, file, license, began>>
plant   == <<waiting, units, outbox, products>>
guard   == <<high_water, seen>>
vars    == <<control, box, plant, guard, faults>>

Later(t, u) == IF t > u THEN t ELSE u

Subscriptions ==
  [status : Statuses, current_period_end : PeriodEnds, price_id : DOMAIN Catalog \cup {"unlisted"}]

Issued == {s.envelope : s \in sold}

\* What was sold.
Entitled(s) == FromJson(s.envelope.payload)

Init ==
  /\ now = 0 /\ clock = 0
  /\ subscription \in Subscriptions
  /\ fetched = None /\ sold = {}
  /\ file \in Foreign \cup {None}
  /\ license = None /\ began = 0
  /\ waiting = {} /\ units = {} /\ outbox = {} /\ products = {}
  /\ high_water = 0 /\ seen = 0
  /\ faults = 0

-----------------------------------------------------------------------------
\* The world.
Tick ==
  /\ now < MaxNow
  /\ now' = now + 1
  /\ clock' = clock + 1
  /\ UNCHANGED <<subscription, fetched, sold, file, license, began, plant, guard, faults>>

\* The battery of the clock dies, or someone sets it, or NTP puts it right.
SetClock ==
  /\ faults < MaxFaults
  /\ faults' = faults + 1
  /\ clock' \in 0..MaxNow
  /\ UNCHANGED <<control, file, license, began, plant, guard>>

\* A renewal, a failed payment, a cancellation: the paid period is never cut.
StripeChange ==
  /\ \E s \in Subscriptions :
       /\ s.current_period_end >= subscription.current_period_end
       /\ s.price_id = subscription.price_id
       /\ subscription' = s
  /\ UNCHANGED <<now, fetched, sold, box, plant, guard, faults>>

-----------------------------------------------------------------------------
\* Billing.  fetch_subscription and into_state, for an entitlement to be issued.
FetchSubscription ==
  /\ fetched = None /\ Cardinality(sold) < MaxIssued
  /\ fetched' = [subscription EXCEPT !.status = ParseStatus(@)]
  /\ UNCHANGED <<now, subscription, sold, box, plant, guard, faults>>

\* EntitlementIssuer::issue, of what was fetched some time before; an error for
\* a price that is not in the catalog.
IssueEntitlement ==
  /\ fetched # None
  /\ fetched' = None
  /\ sold' = IF CanIssue(fetched)
             THEN sold \cup {[envelope |-> Issue(fetched, Node, now), from |-> fetched, at |-> now]}
             ELSE sold
  /\ UNCHANGED <<now, subscription, box, plant, guard, faults>>

-----------------------------------------------------------------------------
\* The edge box.  Any file may be put on it at any time, old ones included.
InstallFile ==
  /\ file' \in Issued \cup Foreign \cup {None}
  /\ UNCHANGED <<control, clock, license, began, plant, guard, faults>>

LoadLicense ==
  IF file # None /\ Verify(file, Node, clock) # None THEN Verify(file, Node, clock)
                                                    ELSE Unlicensed

\* Mutant: the server does not come up on a licence that does not verify.
Start_Licensed ==
  /\ license = None
  /\ LoadLicense # Unlicensed
  /\ license' = LoadLicense
  /\ began' = clock
  /\ UNCHANGED <<control, clock, file, plant, guard, faults>>

Start ==
  /\ license = None
  /\ license' = LoadLicense
  /\ began' = clock
  /\ UNCHANGED <<control, clock, file, plant, guard, faults>>

\* A shutdown, an update or a power cut; a request in progress is rolled back.
Stop ==
  /\ license # None /\ faults < MaxFaults
  /\ faults' = faults + 1
  /\ license' = None
  /\ UNCHANGED <<control, clock, file, began, plant, guard>>

\* A unit is on the line and its station asks for it to be recorded.
UnitArrives(u) ==
  /\ u \notin waiting \cup units
  /\ waiting' = waiting \cup {u}
  /\ UNCHANGED <<control, box, units, outbox, products, guard, faults>>

\* enqueue_outbox: a row for the cloud, which nothing drains yet.
EnqueueOutbox(u) == outbox' = outbox \cup {u}

\* Mutant: the row is left for later.
BirthUnit_Unannounced(u) ==
  /\ license # None /\ u \in waiting
  /\ waiting' = waiting \ {u}
  /\ units' = units \cup {u}
  /\ UNCHANGED <<control, box, outbox, products, guard, faults>>

\* birth_unit: the unit and its outbox row in one transaction.
BirthUnit(u) ==
  /\ license # None /\ u \in waiting
  /\ waiting' = waiting \ {u}
  /\ units' = units \cup {u}
  /\ EnqueueOutbox(u)
  /\ UNCHANGED <<control, box, products, guard, faults>>

RequireConfigChange == license # None /\ AllowsConfigurationChange(license.enforcement)

\* insert_product: the unique index refuses a model that exists.
InsertProduct(m) ==
  /\ m \notin products
  /\ products' = products \cup {m}

CreateProduct(m) ==
  /\ RequireConfigChange
  /\ InsertProduct(m)
  /\ UNCHANGED <<control, box, waiting, units, outbox, guard, faults>>

-----------------------------------------------------------------------------
\* The clock guard, by a caller that keeps it on disk.
Observe ==
  /\ high_water' = HighWater(high_water, clock)
  /\ seen' = Later(seen, clock)
  /\ UNCHANGED <<control, box, plant, faults>>

\* After a trusted NTP sync.
Bump ==
  /\ high_water' = Later(now, high_water)
  /\ seen' = Later(seen, now)
  /\ UNCHANGED <<control, box, plant, faults>>

Next ==
  \/ Tick \/ SetClock \/ StripeChange
  \/ FetchSubscription \/ IssueEntitlement
  \/ InstallFile \/ Start \/ Stop
  \/ \E u \in Units : UnitArrives(u) \/ BirthUnit(u)
  \/ \E m \in Models : CreateProduct(m)
  \/ Observe \/ Bump

Spec == Init /\ [][Next]_vars

\* The service is restarted when it is down, and a running one answers a station
\* that asks and asks again.
FairSpec == Spec /\ WF_vars(Start) /\ \A u \in Units : WF_vars(BirthUnit(u))

-----------------------------------------------------------------------------
\* Configuration changes only on an entitlement that billing issued for this box,
\* and only on a server that started no later than the end of grace after what
\* was paid: the period's end, and for a lapsed subscription not beyond the day
\* of issue (issue.rs, "expire at the end of what was actually paid for, never
\* later").
ConfigIsPaidFor ==
  [][products' # products =>
       \E s \in sold :
         LET end_of_grace == began - Entitled(s).grace_days
         IN  /\ license.entitlement = Entitled(s)
             /\ end_of_grace <= s.from.current_period_end
             /\ IsEntitled(s.from.status) \/ end_of_grace <= s.at]_vars

\* Who pays is served: a box that starts on an entitlement issued from a
\* subscription in good standing, its clock not more than a day behind the issue
\* and not past the paid period and its grace, may be configured.
PaidIsServed ==
  \A s \in sold :
    /\ license # None /\ license.entitlement = Entitled(s)
    /\ IsEntitled(s.from.status)
    /\ began \in (s.at - Backdate)..(s.from.current_period_end + Entitled(s).grace_days)
    => AllowsConfigurationChange(license.enforcement)

\* "A licence check never stops production" (trace-license/lib.rs): whatever is
\* on the disk and whatever the clock says, a unit that waits is recorded, and
\* announced to the cloud.
ProductionGoesOn == \A u \in Units : u \in waiting ~> u \in units \cap outbox

\* A clock that goes back buys at most the tolerance, however often and in
\* however small steps it goes: once the guard was shown an instant by more than
\* that past the grace of an entitlement, no reported time revives it
\* (clockguard.rs, "the licence neither silently extends nor stops the line").
WindingBackBuysNothing ==
  \A s \in sold, reported \in 0..MaxNow :
    LET used == Observed(high_water, reported)
        e    == Entitled(s)
    IN  e.expires_at + e.grace_days < seen - Tolerance =>
          ~AllowsConfigurationChange(Evaluate(e, used).enforcement)
=============================================================================
