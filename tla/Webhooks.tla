------------------------------ MODULE Webhooks ------------------------------
(***************************************************************************)
(* The receiver of Stripe's webhooks (crates/trace-billing/src/webhook.rs, *)
(* stripe_webhook of apps/trace-edge), with Stripe, the network between    *)
(* them and a rotation of the endpoint's secret.                           *)
(*                                                                         *)
(* A body is an event or Altered.  A header has parts <<key, value>> at    *)
(* places that are in their order; the value of a t is an instant or       *)
(* Absent, of a v1 the digest [secret, t, body].  What an event says is    *)
(* left out: the receiver writes a log line and answers, and nothing in    *)
(* the repository acts on an event or asks which subscription it is about. *)
(***************************************************************************)
EXTENDS Integers, SequencesExt

CONSTANTS
  Events,         \* what happens at Stripe
  Old, New,       \* the endpoint's secret and the one that takes its place
  Skews,          \* how far the receiver's clock may be ahead of Stripe's
  ToleranceSecs,  \* tolerance_secs
  MaxClock,       \* bound: instants
  MaxLosses,      \* bound: requests that are lost, altered or delivered twice
                  \* and answers that are lost
  Altered, Absent

ASSUME WebhooksAssumption ==
  /\ ToleranceSecs \in Nat /\ MaxClock \in Nat /\ MaxLosses \in Nat
  /\ Skews \subseteq Int
  /\ Absent \notin Int \cup {Old, New}
  /\ Altered \notin Events

VARIABLES
  stripe_clock, \* Stripe's clock
  skew,
  active,       \* the secrets Stripe signs with
  pending,      \* the events Stripe has had no good answer for
  net,          \* requests on their way: [header, body, sent], sent as Stripe made it
  secret,       \* stripe_webhook_secret, Absent where billing is not enabled
  losses        \* of the bound above, those there were

webhookVars == <<stripe_clock, skew, active, pending, net, secret, losses>>

WebhookInit ==
  /\ stripe_clock = 0 /\ skew \in Skews
  /\ active = <<Old>>
  /\ pending = Events
  /\ net = {}
  /\ secret \in {Absent, Old}
  /\ losses = 0

-----------------------------------------------------------------------------
(* webhook.rs. *)

Digest(key, t, body) == [secret |-> key, t |-> t, body |-> body]

Places(header, key) == {i \in DOMAIN header : header[i][1] = key}

\* SignatureHeader::parse: the last t counts, and every v1.
Timestamp(header) == header[Max(Places(header, "t"))][2]
V1(header) == {header[i][2] : i \in Places(header, "v1")}
Parses(header) ==
  /\ Places(header, "t") # {} /\ Timestamp(header) # Absent
  /\ V1(header) # {}

Recent_Past(t, instant) == instant - t <= ToleranceSecs   \* Mutant: no bound ahead

Recent(t, instant) == instant - t \in -ToleranceSecs..ToleranceSecs

\* Mutant: only the first v1 is looked at.
Matches_First(header, key, t, body) ==
  header[Min(Places(header, "v1"))][2] = Digest(key, t, body)

Matches(header, key, t, body) == Digest(key, t, body) \in V1(header)

\* WebhookVerifier::verify; a body that is no event has no signature.
VerifySignature(header, key, body, instant) ==
  /\ Parses(header)
  /\ Recent(Timestamp(header), instant)
  /\ Matches(header, key, Timestamp(header), body)

-----------------------------------------------------------------------------
(* Stripe and the network. *)

StripeTick ==
  /\ stripe_clock < MaxClock
  /\ stripe_clock' = stripe_clock + 1
  /\ UNCHANGED <<skew, active, pending, net, secret, losses>>

\* The secret is rolled, and after a while the old one expires.
Roll ==
  /\ active' = CASE active = <<Old>>      -> <<Old, New>>
                 [] active = <<Old, New>> -> <<New>>
                 [] OTHER                 -> active
  /\ UNCHANGED <<stripe_clock, skew, pending, net, secret, losses>>

\* One v1 for each secret.
Header(e, t, secrets) ==
  <<<<"t", t>>>>
    \o [i \in DOMAIN secrets |-> <<"v1", Digest(secrets[i], t, e)>>]
    \o <<<<"v0", e>>>>

\* An event that has had no good answer is sent, and sent again.
Post(e) ==
  /\ \A r \in net : r.body # e
  /\ LET header == Header(e, stripe_clock, active)
     IN  net' = net \cup
           {[header |-> header, body |-> e,
             sent |-> [header |-> header, body |-> e, at |-> stripe_clock,
                       secrets |-> Range(active)]]}
  /\ UNCHANGED <<stripe_clock, skew, active, pending, secret, losses>>

Fault == losses < MaxLosses /\ losses' = losses + 1

Lose(r) ==
  /\ Fault
  /\ net' = net \ {r}
  /\ UNCHANGED <<stripe_clock, skew, active, pending, secret>>

Without(header, key) == [i \in DOMAIN header \ Places(header, key) |-> header[i]]

With(header, part) ==
  LET last == 1 + Max(DOMAIN header)
  IN  [i \in DOMAIN header \cup {last} |-> IF i = last THEN part ELSE header[i]]

\* A proxy writes the body anew, loses parts of the header or spoils the time.
Alter(r) ==
  /\ Fault
  /\ \E changed \in
       {[r EXCEPT !.body = Altered],
        [r EXCEPT !.header = Without(@, "v1")],
        [r EXCEPT !.header = Without(@, "t")],
        [r EXCEPT !.header = With(@, <<"t", Absent>>)],
        [r EXCEPT !.header = With(@, <<"t", stripe_clock + 1>>)]} :
       net' = (net \ {r}) \cup {changed}
  /\ UNCHANGED <<stripe_clock, skew, active, pending, secret>>

-----------------------------------------------------------------------------
(* The receiver. *)

\* Started anew with the newest secret there is.
Configure ==
  /\ secret' = Last(active)
  /\ UNCHANGED <<stripe_clock, skew, active, pending, net, losses>>

\* What stripe_webhook answers well.
Accepts(r) == secret # Absent /\ VerifySignature(r.header, secret, r.body, stripe_clock + skew)

\* stripe_webhook, for a request that may come again: it changes nothing here, and
\* its answer may not reach Stripe.
Receive(r) ==
  /\ \E net1 \in {net, net \ {r}}, pending1 \in {pending, pending \ {r.body}} :
       /\ net' = net1
       /\ pending' = pending1
       /\ ~Accepts(r) => pending1 = pending
       /\ IF net1 = net \/ (Accepts(r) /\ r.body \in pending1)
          THEN Fault ELSE UNCHANGED losses
  /\ UNCHANGED <<stripe_clock, skew, active, secret>>

WebhookNext ==
  \/ StripeTick \/ Roll \/ Configure
  \/ \E e \in pending : Post(e)
  \/ \E r \in net : Lose(r) \/ Alter(r) \/ Receive(r)

WebhookSpec == WebhookInit /\ [][WebhookNext]_webhookVars

\* Stripe tries again, what is not lost arrives, and an operator brings the
\* receiver to the newest secret.
FairWebhookSpec ==
  /\ WebhookSpec
  /\ WF_webhookVars(Configure)
  /\ WF_webhookVars(\E e \in pending : Post(e))
  /\ WF_webhookVars(\E r \in net : Receive(r))

-----------------------------------------------------------------------------
\* Only what Stripe signed with the secret configured here is taken, not
\* changed and no further from the receiver's clock than the tolerance, and all
\* of that is, in a rotation too.
TakesWhatStripeSent ==
  \A r \in net :
    LET timely == /\ stripe_clock + skew - r.sent.at \in -ToleranceSecs..ToleranceSecs
                  /\ secret \in r.sent.secrets
    IN  /\ Accepts(r) => timely /\ r.body = r.sent.body
        /\ timely /\ r.body = r.sent.body /\ r.header = r.sent.header => Accepts(r)

\* Stripe never gives up on an event for good: each has a good answer at last,
\* whatever is lost, altered or late and whenever the secret changes, if the
\* receiver's clock is no further from Stripe's than the tolerance.
EventsAreTaken ==
  skew \in -ToleranceSecs..ToleranceSecs => \A e \in Events : <>(e \notin pending)
=============================================================================
