------------------------------ MODULE RouteSim ------------------------------
(***************************************************************************)
(* The dry run of a route (tools/route-sim/src/main.rs): one unit is       *)
(* pushed through a scenario, the only program of the repository that      *)
(* drives the engine.  A scenario is a record                              *)
(*   route       the route, not validated yet                              *)
(*   defs        the templates known: a function from their ids to the     *)
(*               skill each requires                                       *)
(*   stations    the sequence of stations, in the order they are asked     *)
(*   operator, revision                                                    *)
(*   inputs      a function from some seqs to what a station has gathered: *)
(*               [identity_scanned, component_scans, captured,             *)
(*                test_verdicts, mark_verification]                        *)
(*   dcps        a function from some seqs to data collection points       *)
(* The report is wording; what is kept of it are the operations it says    *)
(* PASSED of, in order, whether it says BLOCKED and the exit status that   *)
(* follows.                                                                *)
(***************************************************************************)
EXTENDS RouteEngine

CONSTANT Scenarios

\* What the types of a scenario say of it.
ASSUME ScenariosAssumption ==
  \A s \in Scenarios :
    /\ IsRoute(s.route)
    /\ s.stations \in Seq({s.stations[k] : k \in DOMAIN s.stations})
    /\ \A i \in DOMAIN s.route : s.route[i] # None

VARIABLES
  scenario,    \* the scenario being run
  pc,          \* "validate", "loop" or "done"
  unit,        \* [uid, state, index_in_job, current_operation]
  completed,   \* the operations done
  guard,       \* turns of the loop
  report,      \* the seqs of the operations reported PASSED, in order
  outcome      \* how the run ended, None while it runs

vars == <<scenario, pc, unit, completed, guard, report, outcome>>

\* "blocked" is a report with BLOCKED in it, "reported" one without, with which
\* alone main exits with 0; the others are errors `run` returns.
Outcomes == {"invalid_route", "not_converged", "unknown_def", "refused",
             "blocked", "reported"}

ASSUME NoneAssumption == None \notin Outcomes

Init ==
  /\ scenario \in Scenarios
  /\ pc = "validate"
  /\ unit = [uid |-> "SIM", state |-> "IN_PROCESS", index_in_job |-> 0,
             current_operation |-> None]
  /\ completed = {}
  /\ guard = 0
  /\ report = <<>>
  /\ outcome = None

End(how) == pc' = "done" /\ outcome' = how

ValidateRoute ==
  /\ pc = "validate"
  /\ IF Validate(scenario.route)
     THEN pc' = "loop" /\ UNCHANGED outcome
     ELSE End("invalid_route")
  /\ UNCHANGED <<scenario, unit, completed, guard, report>>

\* OperationInput::default: nothing gathered.  serde's `yes` is for an input
\* that leaves identity_scanned out, not for an operation without an input.
NoInput == [identity_scanned |-> FALSE, component_scans |-> {}, captured |-> <<>>,
            test_verdicts |-> <<>>, mark_verification |-> None]

ContextOf(op) ==
  LET input == IF op.seq \in DOMAIN scenario.inputs
               THEN scenario.inputs[op.seq] ELSE NoInput
  IN  [unit              |-> unit,
       revision          |-> scenario.revision,
       route             |-> scenario.route,
       operation         |-> op,
       required_skill    |-> scenario.defs[op.def],
       operator          |-> scenario.operator,
       completed         |-> completed,
       scanned_identity  |-> IF input.identity_scanned THEN unit.uid ELSE None,
       component_scans   |-> input.component_scans,
       captured          |-> input.captured,
       dcps              |-> IF op.seq \in DOMAIN scenario.dcps
                             THEN scenario.dcps[op.seq] ELSE {},
       test_verdicts     |-> input.test_verdicts,
       mark_verification |-> input.mark_verification,
       attempt           |-> 1]

\* Mutant: only the first station is asked.
NextOperation_FirstStation ==
  IF scenario.stations = <<>> THEN None
  ELSE ResolveOperation(scenario.route, unit, scenario.stations[1], completed)

\* The operation of the first station, in scenario order, that resolves one.
NextOperation ==
  LET offers == [k \in DOMAIN scenario.stations |->
                   ResolveOperation(scenario.route, unit, scenario.stations[k], completed)]
      takers == {k \in DOMAIN offers : offers[k] # None}
  IN  IF takers = {} THEN None ELSE offers[Min(takers)]

\* Mutant: nothing is recorded.
Completes_Unrecorded(op, adv) ==
  /\ adv.kind = "COMPLETED"
  /\ report' = Append(report, op.seq)
  /\ UNCHANGED completed
  /\ IF adv.route_complete
     THEN /\ unit' = [unit EXCEPT !.current_operation = op.seq,
                                  !.state = TransitionTo(@, "COMPLETED")]
          /\ End(IF CanTransitionTo(unit.state, "COMPLETED") THEN "reported" ELSE "refused")
     ELSE /\ unit' = [unit EXCEPT !.current_operation = op.seq]
          /\ UNCHANGED <<pc, outcome>>

Completes(op, adv) ==
  /\ adv.kind = "COMPLETED"
  /\ report' = Append(report, op.seq)
  /\ completed' = completed \cup {op.seq}
  /\ IF adv.route_complete
     THEN /\ unit' = [unit EXCEPT !.current_operation = op.seq,
                                  !.state = TransitionTo(@, "COMPLETED")]
          /\ End(IF CanTransitionTo(unit.state, "COMPLETED") THEN "reported" ELSE "refused")
     ELSE /\ unit' = [unit EXCEPT !.current_operation = op.seq]
          /\ UNCHANGED <<pc, outcome>>

Blocks(adv) ==
  /\ adv.kind = "BLOCKED"
  /\ unit' = ApplyDisposition(unit, adv.disposition)
  /\ End(IF DispositionApplies(unit, adv.disposition) THEN "blocked" ELSE "refused")
  /\ UNCHANGED <<completed, report>>

\* One turn of the loop; the guard is counted before anything else.
Turn ==
  /\ pc = "loop"
  /\ guard' = guard + 1
  /\ UNCHANGED scenario
  /\ IF guard' > 4 * Len(scenario.route)
     THEN End("not_converged") /\ UNCHANGED <<unit, completed, report>>
     ELSE IF NextOperation = None
     THEN End("reported") /\ UNCHANGED <<unit, completed, report>>
     ELSE IF NextOperation.def \notin DOMAIN scenario.defs
     THEN End("unknown_def") /\ UNCHANGED <<unit, completed, report>>
     ELSE LET op == NextOperation
              adv == TryAdvance(ContextOf(op))
          IN  Completes(op, adv) \/ Blocks(adv)

Next == ValidateRoute \/ Turn

Spec == Init /\ [][Next]_vars

-----------------------------------------------------------------------------
\* validate refuses exactly the routes that cannot be walked: Kahn's counting
\* neither misses a cycle nor takes a predecessor listed twice for one
\* (route.rs, "so a bad route can never be handed to the engine").
ValidateIsExact ==
  (outcome = "invalid_route") <=> (pc = "done" /\ ~Walkable(scenario.route))

\* The operations reported PASSED before the n-th line of the report.
Before(n) == {report[m] : m \in 1..(n - 1)}

Required == {i \in DOMAIN scenario.route : scenario.route[i].requirement = "REQUIRED"}

\* What the operation at i has to wait for once those of `done` have passed.
Awaited(i, done) ==
  {j \in Required : scenario.route[j].seq \in Predecessors(scenario.route[i]) \ done}

\* The n-th line was earned when it was written: by an operation that had not
\* passed yet, after every required one it lists, with its entry gates green.
IsEarned(n) ==
  \E i \in DOMAIN scenario.route :
    /\ scenario.route[i].seq = report[n]
    /\ report[n] \notin Before(n)
    /\ Awaited(i, Before(n)) = {}
    /\ Failures([ContextOf(scenario.route[i]) EXCEPT !.completed = Before(n)]) = {}

\* What the exit status is believed to prove of a route.  Every PASSED was earned
\* in its turn; a unit is COMPLETED only when every required operation has passed;
\* and a run that exits with 0 although its unit is not COMPLETED stopped short
\* because no active station is equipped for anything the unit could go on with.
CompletionIsEarned ==
  LET route  == scenario.route
      passed == Before(Len(report) + 1)
  IN  /\ \A n \in DOMAIN report : IsEarned(n)
      /\ unit.state = "COMPLETED" => \A i \in Required : route[i].seq \in passed
      /\ outcome = "reported" /\ unit.state # "COMPLETED" =>
           \A i \in DOMAIN route, k \in DOMAIN scenario.stations :
             /\ scenario.stations[k].active
             /\ route[i].def \in scenario.stations[k].operations
             => route[i].seq \in passed \/ Awaited(i, passed) # {}

\* The loop guard is never what ends a run and the lifecycle never refuses one,
\* and a good scenario is reported complete: when the route can be walked, some
\* station is equipped for each operation, every template is known and every
\* operation's gates would be green, the run does not stop short.
GoodScenarioCompletes ==
  LET route == scenario.route
      Good  == /\ Walkable(route)
               /\ \A i \in DOMAIN route :
                    /\ route[i].def \in DOMAIN scenario.defs
                    /\ \E k \in DOMAIN scenario.stations :
                         /\ scenario.stations[k].active
                         /\ route[i].def \in scenario.stations[k].operations
                    /\ Failures([ContextOf(route[i]) EXCEPT
                                   !.completed = Seqs(route)]) = {}
  IN  /\ outcome \notin {"not_converged", "refused"}
      /\ pc = "done" /\ Good => unit.state = "COMPLETED"
=============================================================================
