--------------------------- MODULE LicensingProofs ---------------------------
(***************************************************************************)
(* Proofs about Licensing, for any subscriptions, catalogue, foreign       *)
(* files, clocks and bounds, and about Webhooks, for any events, clocks,   *)
(* secrets and faults.                                                     *)
(*                                                                         *)
(* What a box may be configured on is not inductive: it says nothing of    *)
(* the file the next start reads. SoldIsIssued says how each entitlement   *)
(* was made and from what was fetched, FileIsKnown that the file on the    *)
(* disk is one of those or foreign, LicenseIsSold that the server runs on  *)
(* one that was sold, since a foreign file bears no signature for this box *)
(* (ForeignAssumption). MarkIsKept says that the mark of the clock guard   *)
(* is not behind anything it was shown.                                    *)
(*                                                                         *)
(* What the receiver of webhooks takes is decided by the v1 of a request:  *)
(* however altered, each is one Stripe made of its event (RequestOK).      *)
(***************************************************************************)
EXTENDS Licensing, Webhooks, TLAPS

-----------------------------------------------------------------------------
(* Signing. *)

NameSet == {"artifacts", "cohorts", "expires_at", "grace_days", "issued_at",
            "min_installed_version", "node_id", "not_before", "rollback",
            "schema", "version"}

LEMMA NamesAreNames ==
  /\ DOMAIN Names = 1..11
  /\ \A i \in 1..11 : Names[i] \in NameSet
  /\ \A n \in NameSet : \E i \in 1..11 : Names[i] = n
<1>1. DOMAIN Names = 1..11
  BY DEF Names
<1>2. \A i \in 1..11 : Names[i] \in NameSet
  BY DEF Names, NameSet
<1>3. \A n \in NameSet : \E i \in 1..11 : Names[i] = n
  <2>1. /\ Names[1] = "artifacts" /\ Names[2] = "cohorts" /\ Names[3] = "expires_at"
        /\ Names[4] = "grace_days" /\ Names[5] = "issued_at"
        /\ Names[6] = "min_installed_version" /\ Names[7] = "node_id"
        /\ Names[8] = "not_before" /\ Names[9] = "rollback" /\ Names[10] = "schema"
        /\ Names[11] = "version"
    BY DEF Names
  <2>2. \A i \in {1, 2, 3, 4, 5, 6, 7, 8, 9, 10, 11} : i \in 1..11
    OBVIOUS
  <2> QED  BY <2>1, <2>2 DEF NameSet
<1> QED  BY <1>1, <1>2, <1>3

\* What is read from the text of a document is that document.
LEMMA TextIsExact ==
  ASSUME NEW doc, doc = [n \in DOMAIN doc |-> doc[n]], DOMAIN doc \subseteq NameSet
  PROVE  FromJson(CanonicalJson(doc)) = doc
<1> DEFINE text  == CanonicalJson(doc)
           pairs == Range(text) \ {<<>>}
           Pair(n) == <<n, doc[n]>>
<1>1. /\ DOMAIN text = 1..11
      /\ \A i \in 1..11 : text[i] = IF Names[i] \in DOMAIN doc THEN Pair(Names[i]) ELSE <<>>
  BY NamesAreNames DEF CanonicalJson
<1>2. \A n : Pair(n) # <<>> /\ Pair(n)[1] = n /\ Pair(n)[2] = doc[n]
  OBVIOUS
<1>3. ASSUME NEW p
      PROVE  p \in pairs <=> \E n \in DOMAIN doc : p = Pair(n)
  <2>1. p \in pairs <=> p # <<>> /\ \E i \in 1..11 : text[i] = p
    BY <1>1 DEF Range
  <2> HIDE DEF text, Pair, pairs
  <2>2. ASSUME p \in pairs
        PROVE  \E n \in DOMAIN doc : p = Pair(n)
    BY <1>1, <2>1, <2>2
  <2>3. ASSUME NEW n \in DOMAIN doc, p = Pair(n)
        PROVE  p \in pairs
    <3>1. PICK i \in 1..11 : Names[i] = n
      BY NamesAreNames
    <3> QED  BY <1>1, <1>2, <2>1, <2>3, <3>1
  <2> QED  BY <2>2, <2>3
<1>4. {pair[1] : pair \in pairs} = DOMAIN doc
  <2> HIDE DEF Pair, pairs
  <2>1. \A pair \in pairs : pair[1] \in DOMAIN doc
    BY <1>2, <1>3
  <2>2. ASSUME NEW n \in DOMAIN doc
        PROVE  \E pair \in pairs : n = pair[1]
    <3>1. Pair(n) \in pairs /\ n = Pair(n)[1]
      BY <1>2, <1>3
    <3> QED  BY <3>1
  <2>3. \A n : n \in {pair[1] : pair \in pairs} <=> \E pair \in pairs : n = pair[1]
    OBVIOUS
  <2> QED  BY <2>1, <2>2, <2>3
<1>5. ASSUME NEW n \in DOMAIN doc
      PROVE  (CHOOSE pair \in pairs : pair[1] = n)[2] = doc[n]
  <2> HIDE DEF Pair, pairs
  <2>1. Pair(n) \in pairs /\ Pair(n)[1] = n
    BY <1>2, <1>3
  <2>2. \A p \in pairs : p[1] = n => p = Pair(n)
    BY <1>2, <1>3
  <2>3. (CHOOSE pair \in pairs : pair[1] = n) = Pair(n)
    BY <2>1, <2>2
  <2> QED  BY <1>2, <2>3
<1>6. FromJson(text) = [n \in DOMAIN doc |-> doc[n]]
  <2>1. FromJson(text) = [n \in {pair[1] : pair \in pairs} |->
                            (CHOOSE pair \in pairs : pair[1] = n)[2]]
    BY DEF FromJson
  <2> HIDE DEF pairs, text
  <2> QED  BY <1>4, <1>5, <2>1
<1> QED  BY <1>6

-----------------------------------------------------------------------------
(* The invariant. *)

\* The subscriptions billing fetches.
Fetched ==
  [status : {ParseStatus(s) : s \in Statuses}, current_period_end : PeriodEnds,
   price_id : DOMAIN Catalog \cup {"unlisted"}]

Types ==
  /\ now \in Nat /\ clock \in Nat /\ began \in Nat
  /\ high_water \in Nat /\ seen \in Nat
  /\ subscription \in Subscriptions
  /\ fetched \in Fetched \cup {None}

\* What is sold was issued, from something fetched.
SoldIsIssued ==
  \A s \in sold :
    /\ s.from \in Fetched /\ s.at \in Nat /\ CanIssue(s.from)
    /\ s.envelope = Issue(s.from, Node, s.at)

FileIsKnown == file \in Issued \cup Foreign \cup {None}

\* What the server runs on is what it made, when it began, of something sold.
LicenseIsSold ==
  license \notin {None, Unlicensed} =>
    \E s \in sold : license = Evaluate(Entitled(s), began)

MarkIsKept == seen <= high_water

Inv == SoldIsIssued /\ FileIsKnown /\ LicenseIsSold /\ MarkIsKept

IInv == Types /\ Inv

-----------------------------------------------------------------------------
(* What an entitlement says. *)

EntitlementFor(subscr, at) ==
  [schema |-> SchemaVersion, node_id |-> Node, issued_at |-> at,
   not_before |-> at - Backdate, expires_at |-> ExpiresAt(subscr, at),
   grace_days |-> Catalog[subscr.price_id].grace_days]

LEMMA EntitlementIsTyped ==
  ASSUME NEW subscr \in Fetched, CanIssue(subscr), NEW at \in Nat,
         NEW e, e = EntitlementFor(subscr, at)
  PROVE  /\ e # None /\ e.node_id = Node /\ e.schema = SchemaVersion
         /\ e.not_before \in Int /\ e.expires_at \in Nat /\ e.grace_days \in Nat
         /\ e.not_before = at - Backdate /\ e.expires_at = ExpiresAt(subscr, at)
<1>1. /\ SchemaVersion \in Nat /\ Backdate \in Nat
      /\ Catalog \in [DOMAIN Catalog -> [grace_days : Nat]] /\ PeriodEnds \subseteq Nat
  BY EntitlementAssumption, LicensingAssumption
<1>2. subscr.current_period_end \in Nat
  BY <1>1 DEF Fetched
<1>3. ExpiresAt(subscr, at) \in Nat
  BY <1>2 DEF ExpiresAt
<1>4. Catalog[subscr.price_id].grace_days \in Nat
  BY <1>1 DEF CanIssue
<1>5. at - Backdate \in Int
  BY <1>1
<1>6. e \in [schema : {SchemaVersion}, node_id : {Node}, issued_at : Nat,
             not_before : Int, expires_at : Nat, grace_days : Nat]
  BY <1>3, <1>4, <1>5 DEF EntitlementFor
<1>7. e # None
  BY <1>6, NoneAssumption
<1> QED  BY <1>3, <1>4, <1>5, <1>7 DEF EntitlementFor

\* What the text of the envelope that was issued stands for.
LEMMA IssuedIsEntitlement ==
  ASSUME NEW subscr, NEW at, NEW env, env = Issue(subscr, Node, at)
  PROVE  /\ env.payload = CanonicalJson(EntitlementFor(subscr, at))
         /\ FromJson(env.payload) = EntitlementFor(subscr, at)
<1> PICK doc : doc = EntitlementFor(subscr, at)
  OBVIOUS
<1>1. DOMAIN doc = {"schema", "node_id", "issued_at", "not_before", "expires_at", "grace_days"}
  BY DEF EntitlementFor
<1>2. doc = [n \in DOMAIN doc |-> doc[n]]
  BY DEF EntitlementFor
<1>3. DOMAIN doc \subseteq NameSet
  BY <1>1 DEF NameSet
<1>4. FromJson(CanonicalJson(doc)) = doc
  BY <1>2, <1>3, TextIsExact
<1>5. env.payload = CanonicalJson(doc)
  BY DEF Issue, Sign, EntitlementFor
<1> QED  BY <1>4, <1>5

LEMMA SoldIsTyped ==
  ASSUME SoldIsIssued, NEW s \in sold
  PROVE  /\ s.from \in Fetched /\ s.at \in Nat
         /\ s.from.current_period_end \in Nat
         /\ Entitled(s) # None
         /\ Entitled(s).not_before = s.at - Backdate
         /\ Entitled(s).expires_at = ExpiresAt(s.from, s.at)
         /\ Entitled(s).not_before \in Int /\ Entitled(s).expires_at \in Nat
         /\ Entitled(s).grace_days \in Nat
<1>1. /\ s.from \in Fetched /\ s.at \in Nat /\ CanIssue(s.from)
      /\ s.envelope = Issue(s.from, Node, s.at)
  BY DEF SoldIsIssued
<1>2. Entitled(s) = EntitlementFor(s.from, s.at)
  BY <1>1, IssuedIsEntitlement DEF Entitled
<1>3. PeriodEnds \subseteq Nat
  BY LicensingAssumption
<1>4. s.from.current_period_end \in Nat
  BY <1>1, <1>3 DEF Fetched
<1> PICK e : e = EntitlementFor(s.from, s.at)
  OBVIOUS
<1>5. /\ e # None
      /\ e.not_before \in Int /\ e.expires_at \in Nat /\ e.grace_days \in Nat
      /\ e.not_before = s.at - Backdate /\ e.expires_at = ExpiresAt(s.from, s.at)
  BY <1>1, EntitlementIsTyped
<1> QED  BY <1>1, <1>2, <1>4, <1>5

\* An entitlement is in force from its day to the end of its grace, on a license
\* that names it.
LEMMA EvaluateIsExact ==
  ASSUME NEW e, e.not_before \in Int, e.expires_at \in Nat, e.grace_days \in Nat,
         NEW at \in Nat
  PROVE  /\ Evaluate(e, at).entitlement = e
         /\ AllowsConfigurationChange(Evaluate(e, at).enforcement) <=>
              e.not_before <= at /\ at <= e.expires_at + e.grace_days
<1>1. Evaluate(e, at).entitlement = e
  BY DEF Evaluate, LicenseStatus
<1>2. CASE at < e.not_before
  <2>1. Evaluate(e, at).enforcement = "Restricted"
    BY <1>2 DEF Evaluate, LicenseStatus
  <2> QED  BY <1>1, <1>2, <2>1 DEF AllowsConfigurationChange
<1>3. CASE at >= e.not_before /\ at <= e.expires_at
  <2>1. Evaluate(e, at).enforcement = "Full"
    BY <1>3 DEF Evaluate, LicenseStatus
  <2> QED  BY <1>1, <1>3, <2>1 DEF AllowsConfigurationChange
<1>4. CASE at >= e.not_before /\ at > e.expires_at /\ at <= e.expires_at + e.grace_days
  <2>1. Evaluate(e, at).enforcement = "Grace"
    BY <1>4 DEF Evaluate, LicenseStatus
  <2> QED  BY <1>1, <1>4, <2>1 DEF AllowsConfigurationChange
<1>5. CASE at >= e.not_before /\ at > e.expires_at /\ ~(at <= e.expires_at + e.grace_days)
  <2>1. Evaluate(e, at).enforcement = "Restricted"
    BY <1>5 DEF Evaluate, LicenseStatus
  <2> QED  BY <1>1, <1>5, <2>1 DEF AllowsConfigurationChange
<1> QED  BY <1>2, <1>3, <1>4, <1>5

-----------------------------------------------------------------------------
(* The invariant is kept. *)

LEMMA ConstantsAreNumbers ==
  /\ MaxNow \in Nat /\ Tolerance \in Nat /\ Backdate \in Nat /\ PeriodEnds \subseteq Nat
BY LicensingAssumption, EntitlementAssumption

\* A server starts on nothing, or on what it makes of something sold.
LEMMA LoadedIsSold ==
  ASSUME IInv
  PROVE  LoadLicense # Unlicensed => \E s \in sold : LoadLicense = Evaluate(Entitled(s), clock)
<1> SUFFICES ASSUME LoadLicense # Unlicensed
             PROVE  \E s \in sold : LoadLicense = Evaluate(Entitled(s), clock)
  OBVIOUS
<1>1. /\ file # None /\ Verify(file, Node, clock) # None
      /\ LoadLicense = Verify(file, Node, clock)
  BY DEF LoadLicense
<1> PICK ent : ent = Verified(VendorKey, file)
  OBVIOUS
<1>2. /\ ent # None /\ ent.node_id \in {None, Node}
      /\ LoadLicense = Evaluate(ent, clock)
  BY <1>1 DEF Verify
<1>3. ent = FromJson(file.payload) /\ file.signature = <<VendorKey, file.payload>>
  BY <1>2 DEF Verified
<1>4. file \notin Foreign
  BY <1>2, <1>3, ForeignAssumption
<1>5. PICK s \in sold : file = s.envelope
  BY <1>1, <1>4 DEF IInv, Inv, FileIsKnown, Issued
<1>6. ent = Entitled(s)
  BY <1>3, <1>5 DEF Entitled
<1> QED  BY <1>2, <1>6

LEMMA StepsKeepInv == ASSUME IInv, [Next]_vars PROVE IInv'
<1>1. /\ now \in Nat /\ clock \in Nat /\ began \in Nat /\ high_water \in Nat /\ seen \in Nat
      /\ subscription \in Subscriptions /\ fetched \in Fetched \cup {None}
      /\ SoldIsIssued /\ FileIsKnown /\ LicenseIsSold /\ seen <= high_water
      /\ MaxNow \in Nat
  BY ConstantsAreNumbers DEF IInv, Types, Inv, MarkIsKept
<1>2. CASE Tick
  BY <1>1, <1>2 DEF Tick, IInv, Types, Inv, SoldIsIssued, FileIsKnown, LicenseIsSold,
     MarkIsKept, Issued, guard
<1>3. CASE SetClock
  BY <1>1, <1>3 DEF SetClock, IInv, Types, Inv, SoldIsIssued, FileIsKnown, LicenseIsSold,
     MarkIsKept, Issued, control, guard
<1>4. CASE StripeChange
  BY <1>1, <1>4 DEF StripeChange, IInv, Types, Inv, SoldIsIssued, FileIsKnown,
     LicenseIsSold, MarkIsKept, Issued, box, guard
<1>5. CASE FetchSubscription
  <2>1. fetched' \in Fetched
    <3> PICK sub : sub = subscription
      OBVIOUS
    <3>1. sub.status \in Statuses /\ sub.current_period_end \in PeriodEnds
          /\ sub.price_id \in DOMAIN Catalog \cup {"unlisted"}
      BY <1>1 DEF Subscriptions
    <3>2. fetched' = [status |-> ParseStatus(sub.status),
                      current_period_end |-> sub.current_period_end,
                      price_id |-> sub.price_id]
      BY <1>1, <1>5 DEF FetchSubscription, Subscriptions
    <3> QED  BY <3>1, <3>2 DEF Fetched
  <2> QED  BY <1>1, <1>5, <2>1 DEF FetchSubscription, IInv, Types, Inv, SoldIsIssued,
           FileIsKnown, LicenseIsSold, MarkIsKept, Issued, box, guard
<1>6. CASE IssueEntitlement
  <2>1. fetched \in Fetched /\ sold \subseteq sold'
    BY <1>1, <1>6 DEF IssueEntitlement
  <2>2. SoldIsIssued'
    <3> SUFFICES ASSUME NEW s \in sold'
                 PROVE  /\ s.from \in Fetched /\ s.at \in Nat /\ CanIssue(s.from)
                        /\ s.envelope = Issue(s.from, Node, s.at)
      BY DEF SoldIsIssued
    <3>1. CASE s \in sold
      BY <1>1, <3>1 DEF SoldIsIssued
    <3>2. CASE s \notin sold
      <4>1. /\ CanIssue(fetched)
            /\ s = [envelope |-> Issue(fetched, Node, now), from |-> fetched, at |-> now]
        BY <1>6, <3>2 DEF IssueEntitlement
      <4>2. s.envelope = Issue(fetched, Node, now) /\ s.from = fetched /\ s.at = now
        BY <4>1
      <4> QED  BY <1>1, <2>1, <4>1, <4>2
    <3> QED  BY <3>1, <3>2
  <2>3. FileIsKnown' /\ LicenseIsSold'
    BY <1>1, <1>6, <2>1 DEF IssueEntitlement, FileIsKnown, LicenseIsSold, Issued, box
  <2> QED  BY <1>1, <1>6, <2>2, <2>3 DEF IssueEntitlement, IInv, Types, Inv, MarkIsKept,
           box, guard
<1>7. CASE InstallFile
  BY <1>1, <1>7 DEF InstallFile, IInv, Types, Inv, SoldIsIssued, FileIsKnown, LicenseIsSold,
     MarkIsKept, Issued, control, guard
<1>8. CASE Start
  <2>1. LicenseIsSold'
    <3>1. license' = LoadLicense /\ began' = clock /\ sold' = sold
      BY <1>8 DEF Start, control
    <3> QED  BY <3>1, LoadedIsSold DEF LicenseIsSold
  <2> QED  BY <1>1, <1>8, <2>1 DEF Start, IInv, Types, Inv, SoldIsIssued, FileIsKnown,
           MarkIsKept, Issued, control, guard
<1>9. CASE Stop
  BY <1>1, <1>9 DEF Stop, IInv, Types, Inv, SoldIsIssued, FileIsKnown, LicenseIsSold,
     MarkIsKept, Issued, control, guard
<1>10. CASE UNCHANGED <<control, box, guard>>
  BY <1>1, <1>10 DEF IInv, Types, Inv, SoldIsIssued, FileIsKnown, LicenseIsSold,
     MarkIsKept, Issued, control, box, guard
<1>11. CASE Observe \/ Bump
  <2>1. high_water' \in Nat /\ seen' \in Nat /\ seen' <= high_water'
    BY <1>1, <1>11 DEF Observe, Bump, HighWater, Later
  <2> QED  BY <1>1, <1>11, <2>1 DEF Observe, Bump, IInv, Types, Inv, SoldIsIssued,
           FileIsKnown, LicenseIsSold, MarkIsKept, Issued, control, box
<1>12. ASSUME NEW u \in Units, UnitArrives(u) \/ BirthUnit(u)
       PROVE  IInv'
  BY <1>10, <1>12 DEF UnitArrives, BirthUnit
<1>13. ASSUME NEW m \in Models, CreateProduct(m)
       PROVE  IInv'
  BY <1>10, <1>13 DEF CreateProduct
<1>14. CASE UNCHANGED vars
  BY <1>10, <1>14 DEF vars
<1> QED
  BY <1>2, <1>3, <1>4, <1>5, <1>6, <1>7, <1>8, <1>9, <1>11, <1>12, <1>13, <1>14 DEF Next

LEMMA InitIsOK == Init => IInv
BY DEF Init, IInv, Types, Inv, SoldIsIssued, FileIsKnown, LicenseIsSold, MarkIsKept

LEMMA AlwaysIInv == Spec => []IInv
BY InitIsOK, StepsKeepInv, PTL DEF Spec

-----------------------------------------------------------------------------
(* What follows. *)

\* What a running server makes of an entitlement it names.
LEMMA LicenseIsEvaluated ==
  ASSUME IInv, NEW s \in sold, license # None, license.entitlement = Entitled(s)
  PROVE  license = Evaluate(Entitled(s), began)
<1>1. Entitled(s) # None
  BY SoldIsTyped DEF IInv, Inv
<1>2. license # Unlicensed
  BY <1>1 DEF Unlicensed, LicenseStatus
<1>3. PICK t \in sold : license = Evaluate(Entitled(t), began)
  BY <1>2 DEF IInv, Inv, LicenseIsSold
<1>4. license.entitlement = Entitled(t)
  BY <1>3 DEF Evaluate, LicenseStatus
<1> QED  BY <1>3, <1>4

\* A box that starts within the paid period and its grace on an entitlement from a
\* subscription in good standing may be configured, whatever else was issued, put
\* on its disk or done to its clock (entitlement.rs, evaluate; issue.rs, expires_at).
THEOREM PayingIsServed == Spec => []PaidIsServed
<1>1. IInv => PaidIsServed
  <2> SUFFICES ASSUME IInv, NEW s \in sold, license # None,
                      license.entitlement = Entitled(s), IsEntitled(s.from.status),
                      began \in (s.at - Backdate)..
                                  (s.from.current_period_end + Entitled(s).grace_days)
               PROVE  AllowsConfigurationChange(license.enforcement)
    BY DEF PaidIsServed
  <2> PICK e : e = Entitled(s)
    OBVIOUS
  <2>1. /\ s.at \in Nat /\ s.from.current_period_end \in Nat
        /\ e.not_before = s.at - Backdate /\ e.expires_at = s.from.current_period_end
        /\ e.not_before \in Int /\ e.expires_at \in Nat /\ e.grace_days \in Nat
    BY SoldIsTyped DEF IInv, Inv, ExpiresAt
  <2>2. e.not_before <= began /\ began <= e.expires_at + e.grace_days /\ began \in Nat
    BY <2>1 DEF IInv, Types
  <2>3. license = Evaluate(e, began)
    BY LicenseIsEvaluated
  <2> QED  BY <2>1, <2>2, <2>3, EvaluateIsExact
<1> QED  BY <1>1, AlwaysIInv, PTL

\* The mark of the guard is never behind an instant it was shown, so no clock that
\* goes back, in however small steps, revives an entitlement whose grace ended more
\* than the tolerance before that (clockguard.rs, observe).
THEOREM WindingBackIsUseless == Spec => []WindingBackBuysNothing
<1>1. IInv => WindingBackBuysNothing
  <2> SUFFICES ASSUME IInv, NEW s \in sold, NEW reported \in 0..MaxNow,
                      Entitled(s).expires_at + Entitled(s).grace_days < seen - Tolerance
               PROVE  ~AllowsConfigurationChange(
                         Evaluate(Entitled(s), Observed(high_water, reported)).enforcement)
    BY DEF WindingBackBuysNothing
  <2> PICK e, at : e = Entitled(s) /\ at = Observed(high_water, reported)
    OBVIOUS
  <2>1. e.not_before \in Int /\ e.expires_at \in Nat /\ e.grace_days \in Nat
    BY SoldIsTyped DEF IInv, Inv
  <2>2. /\ high_water \in Nat /\ seen \in Nat /\ seen <= high_water
        /\ reported \in Nat /\ Tolerance \in Nat
    BY ConstantsAreNumbers DEF IInv, Types, Inv, MarkIsKept
  <2>3. at \in Nat /\ at >= seen - Tolerance
    BY <2>2 DEF Observed
  <2>4. ~(at <= e.expires_at + e.grace_days)
    BY <2>1, <2>2, <2>3
  <2> QED  BY <2>1, <2>3, <2>4, EvaluateIsExact
<1> QED  BY <1>1, AlwaysIInv, PTL

\* A product is created only by a server that runs on an entitlement billing issued
\* for this box and that began before the end of what was paid and its grace, or for
\* a lapsed subscription of the day of issue and its grace (routes.rs,
\* require_config_change; main.rs, load_license; issue.rs, issue).
THEOREM ConfigurationIsPaidFor == Spec => ConfigIsPaidFor
<1>1. ASSUME IInv, [Next]_vars, products' # products
      PROVE  \E s \in sold :
               LET end_of_grace == began - Entitled(s).grace_days
               IN  /\ license.entitlement = Entitled(s)
                   /\ end_of_grace <= s.from.current_period_end
                   /\ IsEntitled(s.from.status) \/ end_of_grace <= s.at
  <2>1. RequireConfigChange
    BY <1>1 DEF Next, Tick, SetClock, StripeChange, FetchSubscription, IssueEntitlement,
       InstallFile, Start, Stop, UnitArrives, BirthUnit, CreateProduct, Observe, Bump,
       vars, plant
  <2>2. license \notin {None, Unlicensed}
    BY <2>1 DEF RequireConfigChange, AllowsConfigurationChange, Unlicensed, LicenseStatus
  <2>3. PICK s \in sold : license = Evaluate(Entitled(s), began)
    BY <1>1, <2>2 DEF IInv, Inv, LicenseIsSold
  <2> PICK e, end, at : e = Entitled(s) /\ end = s.from.current_period_end /\ at = s.at
    OBVIOUS
  <2>4. /\ e.not_before \in Int /\ e.expires_at \in Nat /\ e.grace_days \in Nat
        /\ at \in Nat /\ end \in Nat /\ began \in Nat
        /\ e.expires_at = ExpiresAt(s.from, s.at)
    BY <1>1, SoldIsTyped DEF IInv, Inv, Types
  <2>5. /\ began <= e.expires_at + e.grace_days
        /\ license.entitlement = e
    BY <2>1, <2>3, <2>4, EvaluateIsExact DEF RequireConfigChange
  <2>6. e.expires_at <= end /\ (IsEntitled(s.from.status) \/ e.expires_at <= at)
    BY <2>4 DEF ExpiresAt
  <2>7. began - e.grace_days <= e.expires_at
    BY <2>4, <2>5
  <2>8. /\ began - e.grace_days <= end
        /\ IsEntitled(s.from.status) \/ began - e.grace_days <= at
    BY <2>4, <2>6, <2>7
  <2> QED  BY <2>5, <2>8
<1>2. IInv /\ [Next]_vars =>
        [products' # products =>
           \E s \in sold :
             LET end_of_grace == began - Entitled(s).grace_days
             IN  /\ license.entitlement = Entitled(s)
                 /\ end_of_grace <= s.from.current_period_end
                 /\ IsEntitled(s.from.status) \/ end_of_grace <= s.at]_vars
  BY <1>1
<1> QED  BY <1>2, AlwaysIInv, PTL DEF Spec, ConfigIsPaidFor

-----------------------------------------------------------------------------
(* Webhooks. *)

\* What two sequences in a row hold.
LEMMA ConcatIs ==
  ASSUME NEW T, NEW a \in Seq(T), NEW b \in Seq(T)
  PROVE  /\ a \o b \in Seq(T) /\ Len(a \o b) = Len(a) + Len(b)
         /\ \A j \in 1..Len(a) : (a \o b)[j] = a[j]
         /\ \A j \in 1..Len(b) : (a \o b)[Len(a) + j] = b[j]
<1> PICK n, m : n = Len(a) /\ m = Len(b)
  OBVIOUS
<1>1. n \in Nat /\ m \in Nat /\ a \o b \in Seq(T) /\ Len(a \o b) = n + m
  OBVIOUS
<1>2. ASSUME NEW j \in 1..n PROVE (a \o b)[j] = a[j]
  OBVIOUS
<1>3. ASSUME NEW j \in 1..m PROVE (a \o b)[n + j] = b[j]
  <2>1. n + j \in 1..(n + m) /\ ~(n + j <= n) /\ (n + j) - n = j
    BY <1>1
  <2> QED  BY <1>1, <2>1
<1> QED  BY <1>1, <1>2, <1>3

\* What a header holds.
LEMMA HeaderIs ==
  ASSUME NEW e, NEW t, NEW secrets \in Seq({Old, New})
  PROVE  LET h == Header(e, t, secrets)
         IN  /\ Places(h, "t") = {1} /\ h[1] = <<"t", t>>
             /\ V1(h) = {Digest(k, t, e) : k \in Range(secrets)}
<1> DEFINE Part == {<<"t", t>>, <<"v0", e>>}
                     \cup {<<"v1", Digest(k, t, e)>> : k \in {Old, New}}
           a == <<<<"t", t>>>>
           b == [i \in DOMAIN secrets |-> <<"v1", Digest(secrets[i], t, e)>>]
           c == <<<<"v0", e>>>>
<1> PICK n : n = Len(secrets)
  OBVIOUS
<1>1. n \in Nat /\ DOMAIN secrets = 1..n /\ \A i \in 1..n : secrets[i] \in {Old, New}
  OBVIOUS
<1>2. a \in Seq(Part) /\ c \in Seq(Part) /\ Len(a) = 1 /\ Len(c) = 1
      /\ a[1] = <<"t", t>> /\ c[1] = <<"v0", e>>
  <2>1. <<"t", t>> \in Part /\ <<"v0", e>> \in Part
    OBVIOUS
  <2> HIDE DEF Part
  <2> QED  BY <2>1
<1>3. b \in Seq(Part) /\ Len(b) = n
      /\ \A i \in 1..n : b[i] = <<"v1", Digest(secrets[i], t, e)>>
  <2>1. \A i \in 1..n : <<"v1", Digest(secrets[i], t, e)>> \in Part
    BY <1>1
  <2> HIDE DEF Part
  <2> QED  BY <1>1, <2>1
<1> HIDE DEF Part, a, b, c
<1>4. /\ a \o b \in Seq(Part) /\ Len(a \o b) = 1 + n /\ (a \o b)[1] = a[1]
      /\ \A j \in 1..n : (a \o b)[1 + j] = b[j]
  <2>1. /\ a \o b \in Seq(Part) /\ Len(a \o b) = Len(a) + Len(b)
        /\ \A j \in 1..Len(a) : (a \o b)[j] = a[j]
        /\ \A j \in 1..Len(b) : (a \o b)[Len(a) + j] = b[j]
    <3>1. a \in Seq(Part) /\ b \in Seq(Part)
      BY ONLY <1>2, <1>3
    <3> QED  BY ONLY <3>1, ConcatIs
  <2>2. 1 \in 1..1
    OBVIOUS
  <2> QED  BY ONLY <1>2, <1>3, <2>1, <2>2, Zenon
<1> PICK d : d = a \o b
  OBVIOUS
<1>5. d \in Seq(Part) /\ Len(d) = 1 + n /\ d[1] = a[1] /\ \A j \in 1..n : d[1 + j] = b[j]
  BY <1>4
<1>6. /\ d \o c \in Seq(Part) /\ Len(d \o c) = Len(d) + 1
      /\ \A j \in 1..Len(d) : (d \o c)[j] = d[j]
      /\ \A j \in 1..1 : (d \o c)[Len(d) + j] = c[j]
  <2>1. /\ d \o c \in Seq(Part) /\ Len(d \o c) = Len(d) + Len(c)
        /\ \A j \in 1..Len(d) : (d \o c)[j] = d[j]
        /\ \A j \in 1..Len(c) : (d \o c)[Len(d) + j] = c[j]
    <3>1. d \in Seq(Part) /\ c \in Seq(Part)
      BY ONLY <1>2, <1>5
    <3> QED  BY ONLY <3>1, ConcatIs
  <2> QED  BY ONLY <1>2, <2>1, Zenon
<1> PICK h : h = d \o c
  OBVIOUS
<1>7. /\ DOMAIN h = 1..(n + 2)
      /\ h[1] = <<"t", t>> /\ h[n + 2] = <<"v0", e>>
      /\ \A j \in 1..n : h[1 + j] = <<"v1", Digest(secrets[j], t, e)>>
  <2>1. h \in Seq(Part) /\ Len(h) = n + 2
    BY <1>1, <1>5, <1>6
  <2>2. DOMAIN h = 1..(n + 2)
    BY <2>1
  <2>3. \A j \in 1..(n + 1) : h[j] = d[j]
    BY <1>1, <1>5, <1>6
  <2>4. 1 \in 1..(n + 1) /\ \A j \in 1..n : 1 + j \in 1..(n + 1)
    BY <1>1
  <2>5. h[n + 2] = c[1]
    <3>1. Len(d) + 1 = n + 2 /\ 1 \in 1..1
      BY <1>1, <1>5
    <3> QED  BY <1>6, <3>1
  <2> QED  BY <1>2, <1>3, <1>5, <2>2, <2>3, <2>4, <2>5
<1>8. \A i \in 1..(n + 2) : i = 1 \/ i = n + 2 \/ \E j \in 1..n : i = 1 + j
  <2> TAKE i \in 1..(n + 2)
  <2>1. i # 1 /\ i # n + 2 => i - 1 \in 1..n /\ i = 1 + (i - 1)
    BY <1>1
  <2> QED  BY <2>1
<1>9. /\ h[1][1] = "t" /\ h[n + 2][1] = "v0"
      /\ \A j \in 1..n : h[1 + j][1] = "v1" /\ h[1 + j][2] = Digest(secrets[j], t, e)
  <2>1. \A x, y : <<x, y>>[1] = x /\ <<x, y>>[2] = y
    OBVIOUS
  <2>2. h[1][1] = "t"
    BY ONLY <1>7, <2>1
  <2>3. h[n + 2][1] = "v0"
    BY ONLY <1>7, <2>1
  <2>4. ASSUME NEW j \in 1..n
        PROVE  h[1 + j][1] = "v1" /\ h[1 + j][2] = Digest(secrets[j], t, e)
    <3>1. h[1 + j] = <<"v1", Digest(secrets[j], t, e)>>
      BY ONLY <1>7, j \in 1..n
    <3> QED  BY ONLY <2>1, <3>1
  <2> QED  BY ONLY <2>2, <2>3, <2>4, Zenon
<1>10. Places(h, "t") = {1}
  <2>1. 1 \in 1..(n + 2)
    BY <1>1
  <2>2. \A i \in 1..(n + 2) : h[i][1] = "t" <=> i = 1
    BY ONLY <1>8, <1>9
  <2> QED  BY ONLY <1>7, <2>1, <2>2 DEF Places
<1>11. Places(h, "v1") = {1 + j : j \in 1..n}
  <2>1. \A j \in 1..n : 1 + j \in 1..(n + 2)
    BY <1>1
  <2>2. \A i \in 1..(n + 2) : h[i][1] = "v1" <=> \E j \in 1..n : i = 1 + j
    BY ONLY <1>8, <1>9
  <2> QED  BY ONLY <1>7, <2>1, <2>2 DEF Places
<1>12. V1(h) = {Digest(secrets[j], t, e) : j \in 1..n}
  BY ONLY <1>9, <1>11 DEF V1
<1>13. Range(secrets) = {secrets[j] : j \in 1..n}
  BY <1>1 DEF Range
<1>14. Header(e, t, secrets) = h
  BY DEF Header, a, b, c
<1>15. V1(h) = {Digest(k, t, e) : k \in Range(secrets)}
  BY ONLY <1>12, <1>13
<1> QED  BY ONLY <1>7, <1>10, <1>14, <1>15

\* Every v1 a request bears is one Stripe made of its event, and what it was sent
\* with verifies with each of the secrets it was signed with.
RequestOK(r) ==
  /\ DOMAIN r = {"header", "body", "sent"}
  /\ r.sent.at \in Nat /\ r.sent.secrets \subseteq {Old, New}
  /\ V1(r.header) \subseteq {Digest(k, r.sent.at, r.sent.body) : k \in r.sent.secrets}
  /\ Places(r.sent.header, "t") = {1} /\ r.sent.header[1] = <<"t", r.sent.at>>
  /\ V1(r.sent.header) = {Digest(k, r.sent.at, r.sent.body) : k \in r.sent.secrets}

WebhooksInv ==
  /\ stripe_clock \in Nat /\ skew \in Int
  /\ active \in {<<Old>>, <<Old, New>>, <<New>>}
  /\ \A r \in net : RequestOK(r)

\* No way of altering a header gives it a v1.
LEMMA AlteredBearsNoOther ==
  /\ \A h, key : V1(Without(h, key)) \subseteq V1(h)
  /\ \A h, x : V1(With(h, <<"t", x>>)) \subseteq V1(h)
<1>1. ASSUME NEW h, NEW key PROVE V1(Without(h, key)) \subseteq V1(h)
  <2>1. PICK g : g = Without(h, key)
    OBVIOUS
  <2>2. DOMAIN g \subseteq DOMAIN h /\ \A i \in DOMAIN g : g[i] = h[i]
    BY <2>1 DEF Without
  <2>3. V1(g) \subseteq V1(h)
    BY <2>2 DEF V1, Places
  <2> QED  BY <2>1, <2>3
<1>2. ASSUME NEW h, NEW x PROVE V1(With(h, <<"t", x>>)) \subseteq V1(h)
  <2>1. PICK g : g = With(h, <<"t", x>>)
    OBVIOUS
  <2>2. \A i \in DOMAIN g : g[i] = <<"t", x>> \/ (i \in DOMAIN h /\ g[i] = h[i])
    BY <2>1 DEF With
  <2>3. \A i \in Places(g, "v1") : i \in Places(h, "v1") /\ g[i] = h[i]
    BY <2>2 DEF Places
  <2>4. V1(g) \subseteq V1(h)
    BY <2>3 DEF V1
  <2> QED  BY <2>1, <2>4
<1> QED  BY <1>1, <1>2

LEMMA InitIsWebhooks == WebhookInit => WebhooksInv
BY WebhooksAssumption DEF WebhookInit, WebhooksInv

LEMMA WebhooksStep ==
  ASSUME WebhooksInv, [WebhookNext]_(webhookVars)
  PROVE  WebhooksInv'
<1> USE DEF WebhooksInv
<1>0. \A r : RequestOK(r)' = RequestOK(r)
  BY DEF RequestOK, V1, Places, Digest
<1>1. CASE UNCHANGED webhookVars
  BY <1>0, <1>1 DEF webhookVars
<1>2. CASE StripeTick
  BY <1>0, <1>2 DEF StripeTick
<1>3. CASE Roll
  <2>1. <<Old>> # <<Old, New>> /\ <<New>> # <<Old, New>>
    OBVIOUS
  <2>2. active' \in {<<Old>>, <<Old, New>>, <<New>>}
    BY <1>3, <2>1 DEF Roll
  <2> QED  BY <1>0, <1>3, <2>2 DEF Roll
<1>4. CASE Configure
  BY <1>0, <1>4 DEF Configure
<1>5. ASSUME NEW e \in pending, Post(e) PROVE WebhooksInv'
  <2>1. PICK h : h = Header(e, stripe_clock, active)
    OBVIOUS
  <2>2. PICK r : r = [header |-> h, body |-> e,
                      sent |-> [header |-> h, body |-> e, at |-> stripe_clock,
                                secrets |-> Range(active)]]
    OBVIOUS
  <2>3. net' = net \cup {r} /\ UNCHANGED <<stripe_clock, skew, active>>
    BY <1>5, <2>1, <2>2 DEF Post
  <2>4. active \in Seq({Old, New}) /\ Range(active) \subseteq {Old, New}
    <3>1. active \in Seq({Old, New})
      <4>1. CASE active = <<Old>>
        BY ONLY <4>1
      <4>2. CASE active = <<Old, New>>
        BY ONLY <4>2
      <4>3. CASE active = <<New>>
        BY ONLY <4>3
      <4> QED  BY <4>1, <4>2, <4>3
    <3>2. \A i \in DOMAIN active : active[i] \in {Old, New}
      BY <3>1
    <3> QED  BY <3>1, <3>2 DEF Range
  <2>5. RequestOK(r)
    <3>1. r.sent.at \in Nat /\ r.sent.at = stripe_clock /\ r.sent.body = e /\ r.header = h
          /\ r.sent.header = h /\ r.sent.secrets = Range(active)
          /\ DOMAIN r = {"header", "body", "sent"}
      BY <2>2
    <3>2. /\ Places(h, "t") = {1} /\ h[1] = <<"t", stripe_clock>>
          /\ V1(h) = {Digest(k, stripe_clock, e) : k \in Range(active)}
      BY <2>1, <2>4, HeaderIs
    <3> QED  BY <2>4, <3>1, <3>2 DEF RequestOK
  <2> QED  BY <1>0, <2>3, <2>5
<1>6. ASSUME NEW r \in net, Lose(r) PROVE WebhooksInv'
  BY <1>0, <1>6 DEF Lose
<1>7. ASSUME NEW r \in net, Alter(r) PROVE WebhooksInv'
  <2>1. PICK changed : /\ net' = (net \ {r}) \cup {changed}
                       /\ changed \in {[r EXCEPT !.body = Altered],
                                      [r EXCEPT !.header = Without(@, "v1")],
                                      [r EXCEPT !.header = Without(@, "t")],
                                      [r EXCEPT !.header = With(@, <<"t", Absent>>)],
                                      [r EXCEPT !.header = With(@, <<"t", stripe_clock + 1>>)]}
    BY <1>7 DEF Alter
  <2>2. /\ DOMAIN changed = {"header", "body", "sent"} /\ changed.sent = r.sent
        /\ V1(changed.header) \subseteq V1(r.header)
    <3>1. DOMAIN r = {"header", "body", "sent"}
      BY DEF RequestOK
    <3> PICK h1, h2, h3, h4 : /\ h1 = Without(r.header, "v1")
                              /\ h2 = Without(r.header, "t")
                              /\ h3 = With(r.header, <<"t", Absent>>)
                              /\ h4 = With(r.header, <<"t", stripe_clock + 1>>)
      OBVIOUS
    <3>2. V1(h1) \subseteq V1(r.header) /\ V1(h2) \subseteq V1(r.header)
          /\ V1(h3) \subseteq V1(r.header) /\ V1(h4) \subseteq V1(r.header)
      BY AlteredBearsNoOther
    <3>3. \/ changed = [r EXCEPT !.body = Altered]
          \/ changed = [r EXCEPT !.header = h1] \/ changed = [r EXCEPT !.header = h2]
          \/ changed = [r EXCEPT !.header = h3] \/ changed = [r EXCEPT !.header = h4]
      BY <2>1
    <3> QED  BY <3>1, <3>2, <3>3
  <2>3. RequestOK(changed)
    BY <2>2 DEF RequestOK
  <2>4. UNCHANGED <<stripe_clock, skew, active>>
    BY <1>7 DEF Alter
  <2> QED  BY <1>0, <2>1, <2>3, <2>4
<1>8. ASSUME NEW r \in net, Receive(r) PROVE WebhooksInv'
  BY <1>0, <1>8 DEF Receive
<1> QED  BY <1>1, <1>2, <1>3, <1>4, <1>5, <1>6, <1>7, <1>8 DEF WebhookNext

\* Only what Stripe signed with the secret configured here is taken, unchanged and no
\* further from the receiver's clock than the tolerance, and all of that is, for any
\* number of requests lost, altered, delayed and repeated, in a rotation too
\* (webhook.rs, parse and verify; routes.rs, stripe_webhook).
THEOREM TakenIsSent == WebhookSpec => []TakesWhatStripeSent
<1>1. ASSUME WebhooksInv PROVE TakesWhatStripeSent
  <2> SUFFICES ASSUME NEW r \in net
               PROVE  LET timely == /\ stripe_clock + skew - r.sent.at \in -ToleranceSecs..ToleranceSecs
                                    /\ secret \in r.sent.secrets
                      IN  /\ Accepts(r) => timely /\ r.body = r.sent.body
                          /\ timely /\ r.body = r.sent.body /\ r.header = r.sent.header
                               => Accepts(r)
    BY DEF TakesWhatStripeSent
  <2>1. RequestOK(r)
    BY <1>1 DEF WebhooksInv
  <2>2. stripe_clock \in Int /\ skew \in Int /\ r.sent.at \in Int /\ ToleranceSecs \in Int
    BY <1>1, <2>1, WebhooksAssumption DEF WebhooksInv, RequestOK
  <2>3. ASSUME Accepts(r)
        PROVE  /\ stripe_clock + skew - r.sent.at \in -ToleranceSecs..ToleranceSecs
               /\ secret \in r.sent.secrets /\ r.body = r.sent.body
    <3>1. PICK t : t = Timestamp(r.header)
      OBVIOUS
    <3>2. Recent(t, stripe_clock + skew) /\ Matches(r.header, secret, t, r.body)
      <4>1. VerifySignature(r.header, secret, r.body, stripe_clock + skew)
        BY <2>3 DEF Accepts
      <4> QED  BY <3>1, <4>1 DEF VerifySignature
    <3>3. Digest(secret, t, r.body) \in V1(r.header)
      BY <3>2, Zenon DEF Matches
    <3>4. PICK k \in r.sent.secrets :
            Digest(secret, t, r.body) = Digest(k, r.sent.at, r.sent.body)
      BY <2>1, <3>3 DEF RequestOK
    <3>5. secret = k /\ t = r.sent.at /\ r.body = r.sent.body
      BY <3>4 DEF Digest
    <3>6. (stripe_clock + skew) - r.sent.at \in -ToleranceSecs..ToleranceSecs
      BY <3>2, <3>5, Zenon DEF Recent
    <3> QED  BY <2>2, <3>5, <3>6
  <2>4. ASSUME stripe_clock + skew - r.sent.at \in -ToleranceSecs..ToleranceSecs, secret \in r.sent.secrets,
               r.body = r.sent.body, r.header = r.sent.header
        PROVE  Accepts(r)
    <3>1. Max({1}) = 1
      BY DEF Max
    <3>2. Places(r.header, "t") = {1} /\ Timestamp(r.header) = r.sent.at
      <4>1. Places(r.header, "t") = {1} /\ r.header[1] = <<"t", r.sent.at>>
        BY <2>1, <2>4 DEF RequestOK
      <4>2. Timestamp(r.header) = r.header[1][2]
        BY <3>1, <4>1 DEF Timestamp
      <4> QED  BY <4>1, <4>2
    <3>3. Digest(secret, r.sent.at, r.body) \in V1(r.header)
      BY <2>1, <2>4 DEF RequestOK
    <3>4. secret # Absent /\ r.sent.at # Absent
      BY <2>1, <2>4, WebhooksAssumption DEF RequestOK
    <3>5. Parses(r.header)
      BY <3>2, <3>3, <3>4 DEF Parses
    <3>6. Recent(r.sent.at, stripe_clock + skew) /\ Matches(r.header, secret, r.sent.at, r.body)
      <4>1. Recent(r.sent.at, stripe_clock + skew)
        <5>1. (stripe_clock + skew) - r.sent.at \in -ToleranceSecs..ToleranceSecs
          BY <2>2, <2>4
        <5> QED  BY <5>1, Zenon DEF Recent
      <4>2. Matches(r.header, secret, r.sent.at, r.body)
        BY <3>3, Zenon DEF Matches
      <4> QED  BY <4>1, <4>2
    <3>7. VerifySignature(r.header, secret, r.body, stripe_clock + skew)
      BY <3>2, <3>5, <3>6 DEF VerifySignature
    <3> QED  BY <3>4, <3>7 DEF Accepts
  <2> QED  BY <2>3, <2>4
<1> QED  BY <1>1, InitIsWebhooks, WebhooksStep, PTL DEF WebhookSpec
=============================================================================
