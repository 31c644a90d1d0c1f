-------------------------------- MODULE Line --------------------------------
(***************************************************************************)
(* One unit on a production line: stations that ask the engine what to do  *)
(* and whether the unit may advance, and a supervisor who moves it through *)
(* the lifecycle.  The engine, the route and the lifecycle table are the   *)
(* code's; the repository has no station program that calls them yet       *)
(* (route-sim, modelled in RouteSim, is a dry run), so what the caller is  *)
(* asked to do by their docs is marked external: it counts attempts from 1 *)
(* at each operation, voids the completions a rework disposition names,    *)
(* and, when MovesToInProcess, moves the unit to IN_PROCESS as it starts   *)
(* an operation.  Nothing in the repository does the last of these.        *)
(***************************************************************************)
EXTENDS RouteEngine

CONSTANTS
  Routes,            \* the routes considered
  Stations,          \* the stations of the line, records [active, operations]
  Evidence,          \* what a station may have gathered: contexts without the
                     \* fields the line supplies
  MovesToInProcess   \* whether a caller moves a unit to IN_PROCESS at a start

ASSUME RoutesAreValid == \A r \in Routes : IsRoute(r) /\ Validate(r)
ASSUME NoneAssumption == \A r \in Routes : \A i \in DOMAIN r : r[i] # None
ASSUME ProtocolAssumption == MovesToInProcess \in BOOLEAN

VARIABLES
  route,       \* the route the unit follows
  unit,        \* [uid, state, index_in_job, current_operation]
  completed,   \* the operations done
  attempt,     \* the attempt number at each operation
  owed,        \* history: operations voided by rework and not done again
  refused      \* history: a decision of the engine was refused by the lifecycle

vars == <<route, unit, completed, attempt, owed, refused>>

NewUnit == [uid |-> "unit", state |-> "BORN", index_in_job |-> 0,
            current_operation |-> None]

Init ==
  /\ route \in Routes
  /\ unit = NewUnit
  /\ completed = {}
  /\ attempt = [s \in Seqs(route) |-> 1]
  /\ owed = {}
  /\ refused = FALSE

-----------------------------------------------------------------------------
(* A station works on the unit in front of it. *)

\* The state a caller brings the unit to before it performs the operation.
StartState ==
  IF MovesToInProcess THEN TransitionTo(unit.state, "IN_PROCESS") ELSE unit.state

\* The context a station assembles: what the line knows and what it gathered.
ContextOf(op, ev) ==
  [unit              |-> [unit EXCEPT !.state = StartState],
   revision          |-> ev.revision,
   route             |-> route,
   operation         |-> op,
   required_skill    |-> ev.required_skill,
   operator          |-> ev.operator,
   completed         |-> completed,
   scanned_identity  |-> ev.scanned_identity,
   component_scans   |-> ev.component_scans,
   captured          |-> ev.captured,
   dcps              |-> ev.dcps,
   test_verdicts     |-> ev.test_verdicts,
   mark_verification |-> ev.mark_verification,
   attempt           |-> attempt[op.seq]]

\* Every gate is green: the completion is recorded, and the unit is COMPLETED
\* when the route is.
Completes(op, adv) ==
  LET done == [unit EXCEPT !.state = StartState, !.current_operation = op.seq]
  IN  /\ adv.kind = "COMPLETED"
      /\ completed' = completed \cup {op.seq}
      /\ owed' = owed \ {op.seq}
      /\ attempt' = [attempt EXCEPT ![op.seq] = 1]
      /\ IF adv.route_complete
         THEN /\ unit' = [done EXCEPT !.state = TransitionTo(@, "COMPLETED")]
              /\ refused' = (refused \/ ~CanTransitionTo(done.state, "COMPLETED"))
         ELSE unit' = done /\ UNCHANGED refused

\* Mutant: the completions a rework invalidates are left standing.
Fails_NotVoided(op, adv) ==
  LET at      == [unit EXCEPT !.state = StartState]
      applies == DispositionApplies(at, adv.disposition)
      voided  == IF adv.disposition.kind = "REWORK" /\ applies
                 THEN adv.disposition.invalidates \cap completed ELSE {}
  IN  /\ adv.kind = "BLOCKED"
      /\ unit' = ApplyDisposition(at, adv.disposition)
      /\ refused' = (refused \/ ~applies)
      /\ completed' = completed
      /\ owed' = owed \cup voided
      /\ attempt' = [attempt EXCEPT ![op.seq] =
                       IF adv.disposition.kind = "RETRY" THEN @ + 1 ELSE 1]

\* Mutant: attempts start over from 0.
Fails_FromZero(op, adv) ==
  LET at      == [unit EXCEPT !.state = StartState]
      applies == DispositionApplies(at, adv.disposition)
      voided  == IF adv.disposition.kind = "REWORK" /\ applies
                 THEN adv.disposition.invalidates \cap completed ELSE {}
  IN  /\ adv.kind = "BLOCKED"
      /\ unit' = ApplyDisposition(at, adv.disposition)
      /\ refused' = (refused \/ ~applies)
      /\ completed' = completed \ voided
      /\ owed' = owed \cup voided
      /\ attempt' = [attempt EXCEPT ![op.seq] =
                       IF adv.disposition.kind = "RETRY" THEN @ + 1 ELSE 0]

\* A gate failed: the unit takes the failure path of the operation.
Fails(op, adv) ==
  LET at      == [unit EXCEPT !.state = StartState]
      applies == DispositionApplies(at, adv.disposition)
      voided  == IF adv.disposition.kind = "REWORK" /\ applies
                 THEN adv.disposition.invalidates \cap completed ELSE {}
  IN  /\ adv.kind = "BLOCKED"
      /\ unit' = ApplyDisposition(at, adv.disposition)
      /\ refused' = (refused \/ ~applies)
      /\ completed' = completed \ voided
      /\ owed' = owed \cup voided
      /\ attempt' = [attempt EXCEPT ![op.seq] =
                       IF adv.disposition.kind = "RETRY" THEN @ + 1 ELSE 1]

Work(station, ev) ==
  /\ \E op \in {ResolveOperation(route, unit, station, completed)} \ {None} :
       \E adv \in {TryAdvance(ContextOf(op, ev))} :
         Completes(op, adv) \/ Fails(op, adv)
  /\ UNCHANGED route

-----------------------------------------------------------------------------
(* The supervisor, within what the lifecycle allows. *)

\* Mark, hold, quarantine, release, scrap or ship.
Decide(next) ==
  /\ next \notin {"COMPLETED", "REWORKING"}
  /\ next # unit.state
  /\ CanTransitionTo(unit.state, next)
  /\ unit' = [unit EXCEPT !.state = TransitionTo(@, next)]
  /\ UNCHANGED <<route, completed, attempt, owed, refused>>

\* Send a unit no station works on back for rework of operations it has done.
SendToRework(invalidates) ==
  /\ ~AcceptsWork(unit.state)
  /\ invalidates # {}
  /\ invalidates \subseteq completed
  /\ CanTransitionTo(unit.state, "REWORKING")
  /\ unit' = [unit EXCEPT !.state = TransitionTo(@, "REWORKING")]
  /\ completed' = completed \ invalidates
  /\ owed' = owed \cup invalidates
  /\ UNCHANGED <<route, attempt, refused>>

Next ==
  \/ \E station \in Stations, ev \in Evidence : Work(station, ev)
  \/ \E next \in UnitStates : Decide(next)
  \/ \E invalidates \in SUBSET Seqs(route) : SendToRework(invalidates)

Spec == Init /\ [][Next]_vars

\* A station in front of which a unit that accepts work stands does attempt it.
FairSpec == Spec /\ WF_vars(\E station \in Stations, ev \in Evidence : Work(station, ev))

-----------------------------------------------------------------------------
\* The operations the rework paths of a route lead to; validate does not look for
\* them among its operations.
ReworkTargets(of) ==
  {of[i].failure_path.to_operation :
     i \in {j \in DOMAIN of : of[j].failure_path.kind = "REWORK"}}

TypeOK ==
  /\ route \in Routes
  /\ unit \in [uid : {"unit"}, state : UnitStates, index_in_job : {0},
               current_operation : Seqs(route) \cup ReworkTargets(route) \cup {None}]
  /\ completed \subseteq Seqs(route)
  /\ attempt \in [Seqs(route) -> Nat \ {0}]
  /\ owed \subseteq Seqs(route)
  /\ refused \in BOOLEAN

\* A unit is COMPLETED or SHIPPED only while every required operation of its
\* route stands completed (unit.rs, "All required operations complete"), and what
\* a rework voided does not count before it is done again (route.rs, "Rework loops
\* must re-run the operations they invalidated"): no voiding, release or rework
\* gets a unit there with an operation missing or owed.
CompletedIsDone ==
  /\ owed \cap completed = {}
  /\ unit.state \in {"COMPLETED", "SHIPPED"} =>
       \A i \in DOMAIN route : route[i].requirement = "REQUIRED" =>
                                 route[i].seq \in completed

\* A retry path never lets an operation be attempted more than max_attempts
\* times in a row (disposition_for: "a quarantine rather than an infinite loop").
RetriesAreBounded ==
  \A i \in DOMAIN route :
    route[i].failure_path.kind = "RETRY" =>
      attempt[route[i].seq] <= Max({1, route[i].failure_path.max_attempts})

\* As long as a required operation is missing, some station of a line that is
\* equipped for every operation is offered one, and the lifecycle accepts every
\* decision of the engine (route.rs, "Every failure produces a defect and routes
\* the unit down one of these paths"): no order of completions, optional steps,
\* failures and voided operations leaves the unit with nowhere to go.
NeverStuck ==
  /\ ~refused
  /\ AcceptsWork(unit.state) /\ ~IsComplete(route, completed) =>
       \E station \in Stations :
         ResolveOperation(route, unit, station, completed) # None

\* An operation gets completed only when its required predecessors are, and
\* only while the unit accepts work; a scrapped unit never changes again.
StepsAreInOrder ==
  [][/\ \A s \in completed' \ completed :
          /\ AcceptsWork(unit.state)
          /\ \A p \in Predecessors(Operation(route, s)) :
               Operation(route, p).requirement = "REQUIRED" => p \in completed
     /\ unit.state = "SCRAPPED" => UNCHANGED <<unit, completed>>]_vars

\* Stations that keep working get a unit out of its unfinished state: it is
\* completed, quarantined, scrapped or taken away by the supervisor, never
\* attempted forever.  A rework path has no limit of attempts, so this is said
\* of routes without one.
WorkEnds ==
  LET LoopFree   == \A i \in DOMAIN route : route[i].failure_path.kind # "REWORK"
      Unfinished == AcceptsWork(unit.state) /\ ~IsComplete(route, completed)
  IN  LoopFree /\ Unfinished ~> ~Unfinished
=============================================================================
