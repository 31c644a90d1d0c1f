------------------------------ MODULE BillingMC ------------------------------
(* The licence and the webhooks.  They share no state: a behaviour is one  *)
(* of the licence with the receiver at rest, which then has nothing to     *)
(* promise, or one of the receiver with the licence at rest.  A receiver   *)
(* whose clock is two behind is no longer within the tolerance.            *)
EXTENDS Licensing, Webhooks

Plans == [pro |-> [grace_days |-> 1]]

Elsewhere(schema, node, key) ==
  Sign(key, [schema |-> schema, node_id |-> node, issued_at |-> 0, not_before |-> 0,
             expires_at |-> MaxNow, grace_days |-> 1])

\* Another box's, as it was and with the payload of one for this box.
Others == {Elsewhere(SchemaVersion, "other", VendorKey),
           [Elsewhere(SchemaVersion, "other", VendorKey) EXCEPT
              !.payload = Elsewhere(SchemaVersion, "this", VendorKey).payload]}

Ahead == {-2, 1}

-----------------------------------------------------------------------------
VARIABLE acts   \* whose behaviour it is

MCInit ==
  /\ acts \in {"licence", "receiver"} /\ Init /\ WebhookInit
  /\ acts = "licence" => skew = -2 /\ secret = Old
  /\ acts = "receiver" => file = None /\ subscription = CHOOSE s \in Subscriptions : TRUE

MCNext ==
  /\ UNCHANGED acts
  /\ \/ acts = "licence" /\ Next /\ UNCHANGED webhookVars
     \/ acts = "receiver" /\ WebhookNext /\ UNCHANGED vars

MCSpec ==
  /\ MCInit /\ [][MCNext]_<<acts, vars, webhookVars>>
  /\ WF_vars(acts = "licence" /\ Start)
  /\ \A u \in Units : WF_vars(acts = "licence" /\ BirthUnit(u))
  /\ WF_webhookVars(acts = "receiver" /\ Configure)
  /\ WF_webhookVars(acts = "receiver" /\ \E e \in pending : Post(e))
  /\ WF_webhookVars(acts = "receiver" /\ \E r \in net : Receive(r))
=============================================================================
