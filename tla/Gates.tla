-------------------------------- MODULE Gates --------------------------------
(***************************************************************************)
(* One call of RouteEngine::try_advance on a context, for checking what    *)
(* the gates let through.  The only step is the call.  The context carries *)
(* the readings [dcp, value] its captures are judged from.                 *)
(***************************************************************************)
EXTENDS RouteEngine

CONSTANT Contexts

\* A point, and a reading of one: what their types say.
IsPoint(point) ==
  /\ point.limits.min \in Int \cup {None} /\ point.limits.max \in Int \cup {None}
  /\ point.sample_rule.kind \in {"EVERY", "FIRST_OFF", "EVERY_NTH"}
  /\ point.sample_rule.kind = "EVERY_NTH" => point.sample_rule.n \in Nat

IsReading(reading) ==
  /\ IsValue(reading.value)
  /\ reading.value.datatype = "NUMERIC" /\ reading.value # NaN => reading.value.n \in Int

\* A point has an id of its own.
ASSUME ContextsAssumption ==
  \A c \in Contexts :
    /\ {"unit", "revision", "route", "operation", "required_skill", "operator", "completed",
        "scanned_identity", "component_scans", "captured", "dcps", "test_verdicts",
        "mark_verification", "attempt"} \subseteq DOMAIN c
    /\ c.unit.index_in_job \in Nat
    /\ \A gate \in c.operation.gates : gate.kind \in GateKinds
    /\ \A point \in c.dcps : IsPoint(point)
    /\ \A d, e \in c.dcps : d.id = e.id => d = e
    /\ c.captured \in Seq({c.captured[i] : i \in DOMAIN c.captured})
    /\ \A i \in DOMAIN c.captured : IsReading(c.captured[i])

VARIABLES ctx, answer

callVars == <<ctx, answer>>

CallInit == ctx \in Contexts /\ answer = None

\* The captures the readings make, in their places: each is judged by its point's
\* evaluate; one that is in error is not captured.
Captures(readings, dcps) ==
  LET Verdict(r) == Evaluate(CHOOSE d \in dcps : d.id = r.dcp, r.value)
  IN  [i \in {j \in DOMAIN readings : Verdict(readings[j]) # "MISMATCH"} |->
         [dcp |-> readings[i].dcp, verdict |-> Verdict(readings[i])]]

Call ==
  /\ answer = None
  /\ answer' = TryAdvance([ctx EXCEPT !.captured = Captures(ctx.captured, ctx.dcps)])
  /\ UNCHANGED ctx

CallSpec == CallInit /\ [][Call]_callVars

-----------------------------------------------------------------------------
Advanced == answer # None /\ answer.kind = "COMPLETED"

Guarded(kind) == \E gate \in ctx.operation.gates : gate.kind = kind

\* Whether the unit with this index in its job is due a capture, without
\* division: one of the multiples of n, every unit for n = 0.
Due(rule, index) ==
  CASE rule.kind = "EVERY"     -> TRUE
    [] rule.kind = "FIRST_OFF" -> index = 0
    [] rule.kind = "EVERY_NTH" -> \E k \in 0..index : k * rule.n = index \/ rule.n = 0

\* Whether this value is a good one for the point: of its kind, and a number
\* between the limits it has.
Good(point, value) ==
  /\ value.datatype = point.datatype
  /\ point.datatype = "NUMERIC" /\ {point.limits.min, point.limits.max} # {None} =>
       /\ value # NaN
       /\ \A bound \in {point.limits.min} \ {None} : ~(value.n < bound)
       /\ \A bound \in {point.limits.max} \ {None} : ~(bound < value.n)

\* The readings of a point that are of its kind.
ReadingsOf(point) ==
  {i \in DOMAIN ctx.captured : /\ ctx.captured[i].dcp = point.id
                               /\ ctx.captured[i].value.datatype = point.datatype}

\* A unit that advances past a data capture has the readings it was due: each
\* mandatory one is there, and the reading that counts, the last, is within the
\* limits of its point, so never out of a broken instrument when there are any.
DueReadingsPass ==
  Advanced /\ Guarded("DATA_CAPTURE") =>
    \A dcp \in {d \in ctx.dcps : Due(d.sample_rule, ctx.unit.index_in_job)} :
      \/ ReadingsOf(dcp) = {} /\ ~dcp.mandatory
      \/ \E i \in ReadingsOf(dcp) :
           /\ Good(dcp, ctx.captured[i].value)
           /\ \A j \in ReadingsOf(dcp) : j <= i

\* A unit never advances on another unit's identity, a mark that names another
\* unit, a mark worse than the revision allows, a part that is not on the bill
\* of materials, or the work of an operator who may not do it.
WrongNeverAdvances ==
  LET mark == ctx.mark_verification
  IN  Advanced =>
        /\ Guarded("IDENTITY") => ctx.scanned_identity = ctx.unit.uid
        /\ Guarded("MARK_VERIFIED") /\ ctx.revision.mark_method # "NONE" =>
             /\ mark # None
             /\ mark.decoded = ctx.unit.uid
             /\ \/ ctx.revision.min_mark_grade = None
                \/ mark.grade # None /\ mark.grade <= ctx.revision.min_mark_grade
        /\ \A gate \in ctx.operation.gates : gate.kind = "COMPONENT_VERIFY" =>
             /\ None \notin ctx.component_scans
             /\ \A line \in gate.bom_line_ids : line \in ctx.component_scans
        /\ Guarded("OPERATOR_AUTH") =>
             /\ ctx.operator # None
             /\ ctx.operator.active
             /\ ctx.required_skill \in ctx.operator.certifications \cup {None}
        /\ \A gate \in ctx.operation.gates : gate.kind = "TEST_PASS" =>
             gate.test_name \in DOMAIN ctx.test_verdicts
               /\ ctx.test_verdicts[gate.test_name] = "PASS"
=============================================================================
