----------------------------- MODULE Entitlement -----------------------------
(***************************************************************************)
(* Entitlements and the clock guard (crates/trace-license), and how billing *)
(* turns a subscription into one (crates/trace-billing).  No state.        *)
(*                                                                         *)
(* Instants are numbers.  An entitlement is a record [schema, node_id,     *)
(* issued_at, not_before, expires_at, grace_days], signed; tiers, limits   *)
(* and features are left out, since nothing in the edge server asks for    *)
(* them.                                                                   *)
(***************************************************************************)
EXTENDS Signing

CONSTANTS
  SchemaVersion,   \* the newest schema this build understands
  Backdate,        \* how far issue dates not_before back (a day)
  Tolerance,       \* the guard's tolerance_secs
  Catalog,         \* the plan catalog: price -> [grace_days]
  VendorKey        \* the control plane's, whose public half a box trusts

ASSUME EntitlementAssumption ==
  /\ SchemaVersion \in Nat /\ Backdate \in Nat /\ Tolerance \in Nat
  /\ Catalog \in [DOMAIN Catalog -> [grace_days : Nat]]
  /\ None \notin Int

Enforcements == {"Full", "Grace", "Restricted"}

AllowsConfigurationChange(enforcement) == enforcement \in {"Full", "Grace"}

LicenseStatus(entitlement, enforcement) ==
  [entitlement |-> entitlement, enforcement |-> enforcement]

Unlicensed == LicenseStatus(None, "Restricted")

Evaluate(ent, now) ==
  LicenseStatus(ent,
    CASE now < ent.not_before -> "Restricted"
      [] now >= ent.not_before /\ now <= ent.expires_at -> "Full"
      [] now >= ent.not_before /\ now > ent.expires_at
           /\ now <= ent.expires_at + ent.grace_days -> "Grace"
      [] OTHER -> "Restricted")

\* Mutant: an entitlement for another box will do.
Verify_AnyNode(envelope, node, now) ==
  LET ent == Verified(VendorKey, envelope)
  IN  IF ent # None /\ ent.schema <= SchemaVersion THEN Evaluate(ent, now) ELSE None

\* Entitlement::verify: the signature, a schema this build knows, and this box's
\* id if the entitlement names one; None is an error.
Verify(envelope, node, now) ==
  LET ent == Verified(VendorKey, envelope)
  IN  IF /\ ent # None
         /\ ent.schema <= SchemaVersion
         /\ ent.node_id \in {None, node}
      THEN Evaluate(ent, now) ELSE None

-----------------------------------------------------------------------------
\* ClockGuard: `high_water` is its only state.  observe returns the instant to
\* use and leaves the mark at HighWater.
Observed(high_water, reported) ==
  IF high_water - reported <= Tolerance THEN reported ELSE high_water

\* Mutant: a small step back lowers the mark.
HighWater_Lowered(high_water, reported) ==
  IF high_water - reported <= Tolerance THEN reported ELSE high_water

HighWater(high_water, reported) ==
  IF reported >= high_water THEN reported ELSE high_water

-----------------------------------------------------------------------------
\* client.rs, parse_status: a status this build does not know is incomplete.
ParseStatus(status) ==
  IF status \in {"active", "trialing", "past_due", "unpaid", "canceled", "paused"}
  THEN status ELSE "incomplete"

IsEntitled(status) == status \in {"active", "trialing", "past_due"}

\* Mutant: a lapsed subscription is paid to the end of its period.
ExpiresAt_Period(subscription, now) == subscription.current_period_end

ExpiresAt(subscription, now) ==
  IF \/ IsEntitled(subscription.status)
     \/ subscription.current_period_end <= now
  THEN subscription.current_period_end
  ELSE now

\* The envelope EntitlementIssuer::issue signs; it refuses a price that is not
\* in the catalog.
CanIssue(subscription) == subscription.price_id \in DOMAIN Catalog

\* Mutant: not dated back, but ahead.
Issue_Ahead(subscription, node, now) ==
  Sign(VendorKey,
    [schema |-> SchemaVersion, node_id |-> node, issued_at |-> now,
     not_before |-> now + Backdate, expires_at |-> ExpiresAt(subscription, now),
     grace_days |-> Catalog[subscription.price_id].grace_days])

Issue(subscription, node, now) ==
  Sign(VendorKey,
    [schema |-> SchemaVersion, node_id |-> node, issued_at |-> now,
     not_before |-> now - Backdate, expires_at |-> ExpiresAt(subscription, now),
     grace_days |-> Catalog[subscription.price_id].grace_days])
=============================================================================
