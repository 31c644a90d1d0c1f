----------------------------- MODULE RouteEngine -----------------------------
(***************************************************************************)
(* The route engine (crates/trace-core/src/engine.rs): pure functions from *)
(* an operation context to a decision.  It keeps no state; the line and    *)
(* the simulator call it.                                                  *)
(*                                                                         *)
(* A context is a record with the fields of OperationContext a gate reads: *)
(*   unit               [uid, state, index_in_job]                         *)
(*   revision           [mark_method, min_mark_grade]                      *)
(*   route, operation   see Route                                          *)
(*   required_skill     of the operation's template, or None               *)
(*   operator           [active, certifications] or None                   *)
(*   completed          the set of seqs done                               *)
(*   scanned_identity   a uid or None                                      *)
(*   component_scans    the set of BOM lines matched, None for no match    *)
(*   captured           the captures [dcp, verdict], in order of numbers   *)
(*   dcps               the set of points [id, sample_rule, mandatory]     *)
(*   test_verdicts      a function from the tests that ran to verdicts     *)
(*   mark_verification  [decoded, grade] or None                           *)
(*   attempt            from 1                                             *)
(* A grade is a number, 1 for A, so that a larger one is a worse mark; a   *)
(* missing grade or minimum is None.  The reasons of a GateResult are      *)
(* wording and left out: a gate is a boolean.                              *)
(***************************************************************************)
EXTENDS Route, Unit, DataCollection

-----------------------------------------------------------------------------
(* Gates. *)

\* Mutant: the first capture of a point stands for it.
LastCapture_First(captured, dcp) ==
  LET of == {i \in DOMAIN captured : captured[i].dcp = dcp}
  IN  IF of = {} THEN None ELSE captured[Min(of)].verdict

\* The BTreeMap of captures: the last capture of a point stands for it.
LastCapture(captured, dcp) ==
  LET of == {i \in DOMAIN captured : captured[i].dcp = dcp}
  IN  IF of = {} THEN None ELSE captured[Max(of)].verdict

OperatorAuth(ctx) ==
  /\ ctx.operator # None
  /\ ctx.operator.active
  /\ ctx.required_skill # None => ctx.required_skill \in ctx.operator.certifications

ComponentVerify(gate, ctx) ==
  /\ None \notin ctx.component_scans
  /\ gate.bom_line_ids \subseteq ctx.component_scans

\* A point the sampling rule excuses is not looked at, captured or not.
DataCapture(ctx) ==
  \A dcp \in ctx.dcps :
    AppliesTo(dcp.sample_rule, ctx.unit.index_in_job) =>
      LET verdict == LastCapture(ctx.captured, dcp.id)
      IN  /\ verdict # "FAIL"
          /\ dcp.mandatory => verdict # None

TestPass(gate, ctx) ==
  /\ gate.test_name \in DOMAIN ctx.test_verdicts
  /\ ctx.test_verdicts[gate.test_name] = "PASS"

\* Mutant: grade A is the largest.
MarkVerified_Ascending(ctx) ==
  \/ ctx.revision.mark_method = "NONE"
  \/ LET v == ctx.mark_verification
         min == ctx.revision.min_mark_grade
     IN  /\ v # None
         /\ v.decoded = ctx.unit.uid
         /\ min # None => v.grade # None /\ v.grade >= min

MarkVerified(ctx) ==
  \/ ctx.revision.mark_method = "NONE"
  \/ LET v == ctx.mark_verification
         min == ctx.revision.min_mark_grade
     IN  /\ v # None
         /\ v.decoded = ctx.unit.uid
         /\ min # None => v.grade # None /\ v.grade <= min

\* evaluate_gate.
EvaluateGate(gate, ctx) ==
  CASE gate.kind = "IDENTITY"         -> ctx.scanned_identity = ctx.unit.uid
    [] gate.kind = "OPERATOR_AUTH"    -> OperatorAuth(ctx)
    [] gate.kind = "PRECONDITION"     ->
         PredecessorsSatisfied(ctx.route, ctx.operation, ctx.completed)
    [] gate.kind = "COMPONENT_VERIFY" -> ComponentVerify(gate, ctx)
    [] gate.kind = "DATA_CAPTURE"     -> DataCapture(ctx)
    [] gate.kind = "TEST_PASS"        -> TestPass(gate, ctx)
    [] gate.kind = "MARK_VERIFIED"    -> MarkVerified(ctx)
    [] gate.kind = "INTERLOCK_OUT"    -> TRUE

-----------------------------------------------------------------------------
(* Dispositions. *)

\* Mutant: one retry too many.
DispositionFor_OneMore(path, attempt) ==
  CASE path.kind = "RETRY" ->
         IF attempt <= path.max_attempts
         THEN [kind |-> "RETRY", attempts_remaining |-> path.max_attempts - attempt]
         ELSE [kind |-> "QUARANTINE"]
    [] path.kind = "REWORK" ->
         [kind |-> "REWORK", to_operation |-> path.to_operation,
          invalidates |-> path.invalidates]
    [] OTHER -> [kind |-> path.kind]

\* disposition_for: a retry path out of attempts is a quarantine.
DispositionFor(path, attempt) ==
  CASE path.kind = "RETRY" ->
         IF attempt < path.max_attempts
         THEN [kind |-> "RETRY", attempts_remaining |-> path.max_attempts - attempt]
         ELSE [kind |-> "QUARANTINE"]
    [] path.kind = "REWORK" ->
         [kind |-> "REWORK", to_operation |-> path.to_operation,
          invalidates |-> path.invalidates]
    [] OTHER -> [kind |-> path.kind]

\* The state apply_disposition asks for; None when it asks for none.
DispositionState(disposition) ==
  CASE disposition.kind = "RETRY"      -> None
    [] disposition.kind = "REWORK"     -> "REWORKING"
    [] disposition.kind = "QUARANTINE" -> "QUARANTINED"
    [] disposition.kind = "SCRAP"      -> "SCRAPPED"

\* Whether apply_disposition returns Ok.
DispositionApplies(unit, disposition) ==
  LET next == DispositionState(disposition)
  IN  next = None \/ CanTransitionTo(unit.state, next)

\* apply_disposition on a unit [state, current_operation, ...]: an error from
\* transition_to leaves the unit alone.  Completions are not its business.
ApplyDisposition(unit, disposition) ==
  IF DispositionState(disposition) = None \/ ~DispositionApplies(unit, disposition)
  THEN unit
  ELSE [unit EXCEPT !.state = DispositionState(disposition),
                    !.current_operation =
                      IF disposition.kind = "REWORK"
                      THEN disposition.to_operation ELSE @]

-----------------------------------------------------------------------------
(* The two questions the engine answers. *)

\* Mutant: only operations that come after the current one are offered.
ResolveOperation_Forward(route, unit, station, completed) ==
  LET can == {i \in ReadyPositions(route, completed) :
                /\ route[i].def \in station.operations
                /\ unit.current_operation # None => route[i].seq > unit.current_operation}
  IN  IF AcceptsWork(unit.state) /\ station.active /\ can # {}
      THEN route[Min(can)]
      ELSE None

\* resolve_operation: the operation this station should perform, None for
\* either error.  A station is [active, operations].
ResolveOperation(route, unit, station, completed) ==
  LET can == {i \in ReadyPositions(route, completed) :
                route[i].def \in station.operations}
  IN  IF AcceptsWork(unit.state) /\ station.active /\ can # {}
      THEN route[Min(can)]
      ELSE None

\* The entry gates of the context's operation that fail.
Failures(ctx) ==
  {gate \in ctx.operation.gates : ~IsOutput(gate) /\ ~EvaluateGate(gate, ctx)}

\* try_advance: Blocked with a disposition when an entry gate fails; otherwise
\* Completed, with the effects of the output gates.
TryAdvance(ctx) ==
  LET completed_after == ctx.completed \cup {ctx.operation.seq}
  IN  IF Failures(ctx) # {}
      THEN [kind        |-> "BLOCKED",
            failures    |-> Failures(ctx),
            disposition |-> DispositionFor(ctx.operation.failure_path, ctx.attempt)]
      ELSE [kind           |-> "COMPLETED",
            effects        |-> {gate.device_id : gate \in {g \in ctx.operation.gates :
                                                             IsOutput(g)}},
            next_ready     |-> {ctx.route[i].seq :
                                  i \in ReadyPositions(ctx.route, completed_after)},
            route_complete |-> IsComplete(ctx.route, completed_after)]
=============================================================================
