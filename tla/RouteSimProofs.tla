--------------------------- MODULE RouteSimProofs ---------------------------
(***************************************************************************)
(* Proofs about the dry run, for every scenario, and about the gates, for  *)
(* every context.                                                          *)
(*                                                                         *)
(* A line of the report was earned when it was written: that it stays so   *)
(* follows because the gates of its operation read nothing that changes    *)
(* but what was completed, which the line remembers (LineStays).  That a   *)
(* good scenario does not stop short needs what the loop has left to do:   *)
(* Running says that it counts its turns by the operations done, so the    *)
(* guard never bites, and that a required one is still missing, so that    *)
(* one is ready (MissingIsReady).                                          *)
(*                                                                         *)
(* A context that advances has no entry gate that fails (AdvancedIsGreen): *)
(* what each lets through is in its definition, but for data captures,     *)
(* where the engine finds the points due by remainders and their readings  *)
(* by the last capture (DueIsAskedFor, LastCaptureIs).                     *)
(***************************************************************************)
EXTENDS RouteSim, Gates, RouteProofs

LEMMA ScenarioIs ==
  ASSUME NEW s \in Scenarios
  PROVE  /\ IsRoute(s.route)
         /\ Len(s.route) \in Nat /\ DOMAIN s.route = 1..Len(s.route)
         /\ \A i \in DOMAIN s.route : s.route[i] # None
         /\ DOMAIN s.stations \subseteq Nat
<1>1. IsRoute(s.route) /\ \A i \in DOMAIN s.route : s.route[i] # None
  BY ScenariosAssumption
<1>2. PICK stations : stations = s.stations
  OBVIOUS
<1>3. stations \in Seq({stations[k] : k \in DOMAIN stations})
  BY <1>2, ScenariosAssumption
<1>4. DOMAIN stations = 1..Len(stations) /\ Len(stations) \in Nat
  BY <1>3
<1>5. DOMAIN s.stations \subseteq Nat
  BY <1>2, <1>4
<1> QED  BY <1>1, <1>5, RoutesAreSequences

-----------------------------------------------------------------------------
(* What a station is offered. *)

LEMMA OffersAreReady ==
  ASSUME NEW r, IsRoute(r), NEW u, NEW station, NEW done,
         NEW op, op = ResolveOperation(r, u, station, done), op # None
  PROVE  \E i \in ReadyPositions(r, done) : i \in DOMAIN r /\ op = r[i]
<1> DEFINE can == {i \in ReadyPositions(r, done) : r[i].def \in station.operations}
<1>1. can # {} /\ op = r[Min(can)]
  BY DEF ResolveOperation
<1>2. can \in SUBSET Nat
  BY RoutesAreSequences DEF ReadyPositions
<1>3. Min(can) \in can
  BY <1>1, <1>2, MinIsLeast
<1> QED  BY <1>1, <1>3 DEF ReadyPositions

\* The operation the loop takes is ready.
LEMMA NextIsReady ==
  ASSUME scenario \in Scenarios, NextOperation # None
  PROVE  \E i \in ReadyPositions(scenario.route, completed) :
           i \in DOMAIN scenario.route /\ NextOperation = scenario.route[i]
<1> DEFINE offers == [k \in DOMAIN scenario.stations |->
                        ResolveOperation(scenario.route, unit, scenario.stations[k], completed)]
           takers == {k \in DOMAIN offers : offers[k] # None}
<1>1. takers # {} /\ NextOperation = offers[Min(takers)]
  BY DEF NextOperation
<1>2. takers \in SUBSET Nat
  BY ScenarioIs
<1>3. Min(takers) \in takers
  <2> HIDE DEF takers
  <2> QED  BY <1>1, <1>2, MinIsLeast
<1>4. PICK k \in DOMAIN scenario.stations :
        /\ NextOperation = ResolveOperation(scenario.route, unit, scenario.stations[k], completed)
        /\ NextOperation # None
  BY <1>1, <1>3
<1> QED  BY <1>4, OffersAreReady, ScenarioIs

\* When something is ready that an active station is equipped for, the loop takes
\* one.
LEMMA ReadyIsTaken ==
  ASSUME scenario \in Scenarios, AcceptsWork(unit.state),
         NEW i \in ReadyPositions(scenario.route, completed),
         NEW k \in DOMAIN scenario.stations, scenario.stations[k].active,
         scenario.route[i].def \in scenario.stations[k].operations
  PROVE  NextOperation # None
<1> DEFINE offers == [m \in DOMAIN scenario.stations |->
                        ResolveOperation(scenario.route, unit, scenario.stations[m], completed)]
           takers == {m \in DOMAIN offers : offers[m] # None}
           can == {j \in ReadyPositions(scenario.route, completed) :
                     scenario.route[j].def \in scenario.stations[k].operations}
<1>1. i \in can /\ can \subseteq DOMAIN scenario.route /\ can \in SUBSET Nat
  BY ScenarioIs DEF ReadyPositions
<1>2. Min(can) \in DOMAIN scenario.route
  <2> HIDE DEF can
  <2> QED  BY <1>1, MinIsLeast
<1>3. offers[k] = scenario.route[Min(can)]
  BY <1>1 DEF ResolveOperation
<1>4. offers[k] # None
  BY <1>2, <1>3, ScenarioIs
<1>5. k \in takers
  BY <1>4
<1>6. takers \in SUBSET Nat
  BY ScenarioIs
<1>7. Min(takers) \in takers
  <2> HIDE DEF takers
  <2> QED  BY <1>5, <1>6, MinIsLeast
<1>8. NextOperation = IF takers = {} THEN None ELSE offers[Min(takers)]
  BY DEF NextOperation
<1> QED  BY <1>5, <1>7, <1>8

-----------------------------------------------------------------------------
(* The gates. *)

\* What a gate reads besides what is completed.
SameEvidence(c, d) ==
  /\ d.unit.uid = c.unit.uid /\ d.unit.index_in_job = c.unit.index_in_job
  /\ d.revision = c.revision /\ d.route = c.route /\ d.operation = c.operation
  /\ d.required_skill = c.required_skill /\ d.operator = c.operator
  /\ d.scanned_identity = c.scanned_identity /\ d.component_scans = c.component_scans
  /\ d.captured = c.captured /\ d.dcps = c.dcps
  /\ d.test_verdicts = c.test_verdicts /\ d.mark_verification = c.mark_verification

\* Green gates stay green as long as the operation's predecessors are satisfied.
LEMMA GatesStayGreen ==
  ASSUME NEW c, NEW d, SameEvidence(c, d),
         \A gate \in c.operation.gates : gate.kind \in GateKinds,
         PredecessorsSatisfied(d.route, d.operation, d.completed),
         Failures(c) = {}
  PROVE  Failures(d) = {}
<1> SUFFICES ASSUME NEW gate \in d.operation.gates, ~IsOutput(gate)
             PROVE  EvaluateGate(gate, d)
  BY DEF Failures
<1>1. gate \in c.operation.gates /\ gate.kind \in GateKinds /\ EvaluateGate(gate, c)
  BY DEF Failures, SameEvidence
<1>2. CASE gate.kind = "IDENTITY"
  BY <1>1, <1>2 DEF EvaluateGate, SameEvidence
<1>3. CASE gate.kind = "OPERATOR_AUTH"
  BY <1>1, <1>3 DEF EvaluateGate, SameEvidence, OperatorAuth
<1>4. CASE gate.kind = "PRECONDITION"
  BY <1>4 DEF EvaluateGate
<1>5. CASE gate.kind = "COMPONENT_VERIFY"
  BY <1>1, <1>5 DEF EvaluateGate, SameEvidence, ComponentVerify
<1>6. CASE gate.kind = "DATA_CAPTURE"
  BY <1>1, <1>6 DEF EvaluateGate, SameEvidence, DataCapture
<1>7. CASE gate.kind = "TEST_PASS"
  BY <1>1, <1>7 DEF EvaluateGate, SameEvidence, TestPass
<1>8. CASE gate.kind = "MARK_VERIFIED"
  BY <1>1, <1>8 DEF EvaluateGate, SameEvidence, MarkVerified
<1> QED  BY <1>1, <1>2, <1>3, <1>4, <1>5, <1>6, <1>7, <1>8 DEF GateKinds, IsOutput

-----------------------------------------------------------------------------
(* The invariant. *)

UnitRecords == [uid : {"SIM"}, state : UnitStates, index_in_job : {0},
                current_operation : Nat \cup {None}]

TypeOK ==
  /\ scenario \in Scenarios
  /\ pc \in {"validate", "loop", "done"}
  /\ unit \in UnitRecords
  /\ completed \subseteq Seqs(scenario.route)
  /\ guard \in Nat
  /\ outcome \in Outcomes \cup {None}

\* The line was written for an operation that was ready, with its gates green.
LineHolds(n) ==
  \E i \in DOMAIN scenario.route :
    /\ scenario.route[i].seq = report[n]
    /\ i \in ReadyPositions(scenario.route, Before(n))
    /\ Failures([ContextOf(scenario.route[i]) EXCEPT !.completed = Before(n)]) = {}

Performed ==
  /\ report \in Seq(Nat)
  /\ completed = Before(Len(report) + 1)
  /\ \A n \in 1..Len(report) : LineHolds(n)

\* Nothing that is ready has an active station that is equipped for it.
Stranded ==
  \A i \in ReadyPositions(scenario.route, completed), k \in DOMAIN scenario.stations :
    ~(scenario.stations[k].active /\ scenario.route[i].def \in scenario.stations[k].operations)

Running ==
  /\ pc = "validate" => completed = {} /\ guard = 0 /\ report = <<>>
  /\ pc = "loop" => /\ Walkable(scenario.route)
                    /\ guard = Cardinality(completed)
                    /\ completed = {} \/ ~IsComplete(scenario.route, completed)
  /\ pc # "done" => outcome = None /\ unit.state = "IN_PROCESS"

Ended ==
  /\ pc = "done" => outcome \in Outcomes \ {"not_converged", "refused"}
  /\ pc = "done" => (outcome = "invalid_route" <=> ~Walkable(scenario.route))
  /\ outcome = "invalid_route" => completed = {}
  /\ unit.state = "COMPLETED" =>
       Walkable(scenario.route) /\ IsComplete(scenario.route, completed)
  /\ outcome = "reported" /\ unit.state # "COMPLETED" => Walkable(scenario.route) /\ Stranded

IInv == TypeOK /\ Performed /\ Running /\ Ended /\ GoodScenarioCompletes

LEMMA InitInv ==
  ASSUME Init
  PROVE  IInv
<1>1. TypeOK
  <2>1. unit \in UnitRecords
    BY DEF Init, UnitRecords, UnitStates
  <2> QED  BY <2>1 DEF Init, TypeOK
<1>2. Performed
  BY DEF Init, Performed, Before
<1>3. unit.state = "IN_PROCESS"
  BY DEF Init
<1>4. Running /\ Ended
  BY <1>3, NoneAssumption DEF Init, Running, Ended, Outcomes
<1>5. GoodScenarioCompletes
  BY NoneAssumption DEF Init, GoodScenarioCompletes, Outcomes
<1> QED  BY <1>1, <1>2, <1>4, <1>5 DEF IInv

LEMMA ValidateKeepsInv ==
  ASSUME IInv, ValidateRoute
  PROVE  IInv'
<1>1. scenario \in Scenarios /\ IsRoute(scenario.route)
  BY ScenarioIs DEF IInv, TypeOK
<1>2. Validate(scenario.route) <=> Walkable(scenario.route)
  BY <1>1, ValidateMeansWalkable
<1>3. /\ UNCHANGED <<scenario, unit, completed, guard, report>> /\ completed = {} /\ guard = 0
      /\ unit.state = "IN_PROCESS" /\ outcome = None
  BY DEF ValidateRoute, IInv, Running
<1>4. \/ Walkable(scenario.route) /\ pc' = "loop" /\ outcome' = outcome
      \/ ~Walkable(scenario.route) /\ pc' = "done" /\ outcome' = "invalid_route"
  BY <1>2 DEF ValidateRoute, End
<1>5. TypeOK'
  BY <1>3, <1>4 DEF IInv, TypeOK, Outcomes
<1>6. Performed'
  <2>1. report = <<>>
    BY DEF ValidateRoute, IInv, Running
  <2> QED  BY <1>3, <2>1 DEF Performed, Before, IInv
<1>7. Running'
  <2>1. Cardinality({}) = 0
    BY FS_EmptySet
  <2> QED  BY <1>3, <1>4, <2>1 DEF Running
<1>8. Ended'
  BY <1>3, <1>4, NoneAssumption DEF Ended, Outcomes
<1>9. GoodScenarioCompletes'
  BY <1>3, <1>4, NoneAssumption DEF GoodScenarioCompletes, Outcomes
<1> QED  BY <1>5, <1>6, <1>7, <1>8, <1>9 DEF IInv

-----------------------------------------------------------------------------
(* One turn of the loop. *)

LEMMA ContextStays ==
  ASSUME UNCHANGED <<scenario, unit, completed>>
  PROVE  \A op : ContextOf(op)' = ContextOf(op)
<1> TAKE op
<1>1. scenario' = scenario /\ unit' = unit /\ completed' = completed
  OBVIOUS
<1> QED  BY <1>1, Zenon DEF ContextOf

\* The good scenarios of GoodScenarioCompletes.
IsGood ==
  LET route == scenario.route
  IN  /\ Walkable(route)
      /\ \A i \in DOMAIN route :
           /\ route[i].def \in DOMAIN scenario.defs
           /\ \E k \in DOMAIN scenario.stations :
                /\ scenario.stations[k].active
                /\ route[i].def \in scenario.stations[k].operations
           /\ Failures([ContextOf(route[i]) EXCEPT !.completed = Seqs(route)]) = {}

LEMMA GoodMeansCompletes ==
  GoodScenarioCompletes <=> /\ outcome \notin {"not_converged", "refused"}
                            /\ pc = "done" /\ IsGood => unit.state = "COMPLETED"
BY DEF GoodScenarioCompletes, IsGood

LEMMA GatesAreKnown ==
  ASSUME scenario \in Scenarios, NEW i \in DOMAIN scenario.route
  PROVE  \A gate \in ContextOf(scenario.route[i]).operation.gates : gate.kind \in GateKinds
<1>1. ContextOf(scenario.route[i]).operation = scenario.route[i]
  BY DEF ContextOf
<1> QED  BY <1>1, ScenarioIs DEF IsRoute

\* A context differs from one with other completed operations in those only.
ContextFields == {"unit", "revision", "route", "operation", "required_skill", "operator",
                  "completed", "scanned_identity", "component_scans", "captured", "dcps",
                  "test_verdicts", "mark_verification", "attempt"}

LEMMA ContextIsRecord == \A op : DOMAIN ContextOf(op) = ContextFields
BY DEF ContextOf, ContextFields

LEMMA ContextIsRecordNext == \A op : DOMAIN (ContextOf(op)') = ContextFields
BY DEF ContextOf, ContextFields

LEMMA WithOtherCompleted ==
  ASSUME NEW c0, NEW s, NEW c, c = [c0 EXCEPT !.completed = s], DOMAIN c0 = ContextFields
  PROVE  SameEvidence(c, c0) /\ SameEvidence(c0, c)
<1> USE DEF ContextFields
<1>1. \A field \in DOMAIN c0 \ {"completed"} : c[field] = c0[field]
  OBVIOUS
<1>2. /\ c.unit = c0.unit /\ c.revision = c0.revision
      /\ c.route = c0.route /\ c.operation = c0.operation
  BY <1>1
<1>3. /\ c.required_skill = c0.required_skill /\ c.operator = c0.operator
      /\ c.scanned_identity = c0.scanned_identity
  BY <1>1
<1>4. /\ c.component_scans = c0.component_scans /\ c.captured = c0.captured
      /\ c.dcps = c0.dcps
  BY <1>1
<1>5. c.test_verdicts = c0.test_verdicts /\ c.mark_verification = c0.mark_verification
  BY <1>1
<1> QED  BY <1>2, <1>3, <1>4, <1>5 DEF SameEvidence

\* Gates that were green stay so while nothing but what is completed changes.
LEMMA GreenStays ==
  ASSUME scenario \in Scenarios, scenario' = scenario,
         unit'.uid = unit.uid, unit'.index_in_job = unit.index_in_job,
         NEW i \in DOMAIN scenario.route, NEW done,
         PredecessorsSatisfied(scenario.route, scenario.route[i], done),
         NEW c, SameEvidence(ContextOf(scenario.route[i]), c), Failures(c) = {}
  PROVE  Failures([ContextOf(scenario.route[i])' EXCEPT !.completed = done]) = {}
<1>1. PICK c0 : c0 = ContextOf(scenario.route[i])
  OBVIOUS
<1>2. PICK d0 : d0 = ContextOf(scenario.route[i])'
  OBVIOUS
<1>3. PICK d : d = [d0 EXCEPT !.completed = done]
  OBVIOUS
<1>4. SameEvidence(c0, d0)
  BY <1>1, <1>2 DEF SameEvidence, ContextOf
<1>5. SameEvidence(d0, d)
  BY <1>2, <1>3, ContextIsRecordNext, WithOtherCompleted
<1>6. SameEvidence(c0, c)
  BY <1>1
<1>7. SameEvidence(c, d) /\ c.operation = c0.operation
  BY <1>4, <1>5, <1>6 DEF SameEvidence
<1>8. d.route = scenario.route /\ d.operation = scenario.route[i] /\ d.completed = done
  BY <1>2, <1>3 DEF ContextOf
<1>9. \A gate \in c.operation.gates : gate.kind \in GateKinds
  BY <1>1, <1>7, GatesAreKnown
<1>10. Failures(d) = {}
  BY <1>7, <1>8, <1>9, GatesStayGreen
<1> QED  BY <1>2, <1>3, <1>10

\* A line that holds goes on holding.
LEMMA LineStays ==
  ASSUME scenario \in Scenarios, scenario' = scenario,
         unit'.uid = unit.uid, unit'.index_in_job = unit.index_in_job,
         NEW n, LineHolds(n), report'[n] = report[n], Before(n)' = Before(n)
  PROVE  LineHolds(n)'
<1>1. PICK i \in DOMAIN scenario.route :
        /\ scenario.route[i].seq = report[n]
        /\ i \in ReadyPositions(scenario.route, Before(n))
        /\ Failures([ContextOf(scenario.route[i]) EXCEPT !.completed = Before(n)]) = {}
  BY DEF LineHolds
<1>2. PICK done : done = Before(n)
  OBVIOUS
<1>3. PICK c0 : c0 = ContextOf(scenario.route[i])
  OBVIOUS
<1>4. PICK c : c = [c0 EXCEPT !.completed = done]
  OBVIOUS
<1>5. SameEvidence(c0, c) /\ Failures(c) = {}
  BY <1>1, <1>2, <1>3, <1>4, ContextIsRecord, WithOtherCompleted
<1>6. PredecessorsSatisfied(scenario.route, scenario.route[i], done)
  BY <1>1, <1>2 DEF ReadyPositions
<1>7. Failures([ContextOf(scenario.route[i])' EXCEPT !.completed = done]) = {}
  BY <1>3, <1>5, <1>6, GreenStays
<1> QED  BY <1>1, <1>2, <1>7 DEF LineHolds

LEMMA PerformedStays ==
  ASSUME scenario \in Scenarios, Performed, UNCHANGED <<scenario, completed, report>>,
         unit'.uid = unit.uid, unit'.index_in_job = unit.index_in_job
  PROVE  Performed'
<1>1. \A n : Before(n)' = Before(n)
  BY DEF Before
<1>2. \A n \in 1..Len(report) : LineHolds(n)'
  BY <1>1, LineStays DEF Performed
<1> QED  BY <1>1, <1>2 DEF Performed

\* A line more.
LEMMA BeforeAppended ==
  ASSUME report \in Seq(Nat), NEW seq \in Nat, report' = Append(report, seq),
         NEW l \in Nat, l = Len(report)
  PROVE  /\ report' \in Seq(Nat) /\ Len(report') = l + 1 /\ report'[l + 1] = seq
         /\ \A n \in 1..l : report'[n] = report[n]
         /\ \A n \in 1..(l + 1) : Before(n)' = Before(n)
         /\ Before(l + 2)' = Before(l + 1) \cup {seq}
<1>1. /\ report' \in Seq(Nat) /\ Len(report') = l + 1 /\ report'[l + 1] = seq
      /\ \A n \in 1..l : report'[n] = report[n]
  OBVIOUS
<1>2. ASSUME NEW n \in 1..(l + 1) PROVE Before(n)' = Before(n)
  <2>1. \A m \in 1..(n - 1) : m \in 1..l
    OBVIOUS
  <2> QED  BY <1>1, <2>1 DEF Before
<1>3. Before(l + 2)' = Before(l + 1) \cup {seq}
  <2>1. (l + 2) - 1 = l + 1 /\ (l + 1) - 1 = l /\ 1..(l + 1) = (1..l) \cup {l + 1}
    OBVIOUS
  <2> QED  BY <1>1, <2>1 DEF Before
<1> QED  BY <1>1, <1>2, <1>3

\* In a good scenario the gates of an operation that is ready are green.
LEMMA GoodIsGreen ==
  ASSUME scenario \in Scenarios, IsGood, NEW i \in ReadyPositions(scenario.route, completed)
  PROVE  Failures(ContextOf(scenario.route[i])) = {}
<1>1. i \in DOMAIN scenario.route
  BY DEF ReadyPositions
<1>2. PICK d : d = ContextOf(scenario.route[i])
  OBVIOUS
<1>3. PICK c : c = [d EXCEPT !.completed = Seqs(scenario.route)]
  OBVIOUS
<1>4. SameEvidence(c, d) /\ c.operation = d.operation
  <2>1. SameEvidence(c, d)
    BY <1>2, <1>3, ContextIsRecord, WithOtherCompleted
  <2> QED  BY <2>1 DEF SameEvidence
<1>5. Failures(c) = {}
  BY <1>1, <1>2, <1>3 DEF IsGood
<1>6. PredecessorsSatisfied(d.route, d.operation, d.completed)
  BY <1>2 DEF ContextOf, ReadyPositions
<1>7. \A gate \in c.operation.gates : gate.kind \in GateKinds
  BY <1>1, <1>2, <1>4, GatesAreKnown
<1> QED  BY <1>2, <1>4, <1>5, <1>6, <1>7, GatesStayGreen

\* Whether a scenario is good does not depend on how far it got.
LEMMA GoodStaysGood ==
  ASSUME scenario \in Scenarios, scenario' = scenario, IsGood',
         unit'.uid = unit.uid, unit'.index_in_job = unit.index_in_job
  PROVE  IsGood
<1>1. Walkable(scenario.route)
  BY DEF IsGood
<1>2. ASSUME NEW i \in DOMAIN scenario.route
      PROVE  Failures([ContextOf(scenario.route[i]) EXCEPT
                         !.completed = Seqs(scenario.route)]) = {}
  <2>1. PICK c0 : c0 = ContextOf(scenario.route[i])'
    OBVIOUS
  <2>2. PICK d0 : d0 = ContextOf(scenario.route[i])
    OBVIOUS
  <2>3. PICK c : c = [c0 EXCEPT !.completed = Seqs(scenario.route)]
    OBVIOUS
  <2>4. PICK d : d = [d0 EXCEPT !.completed = Seqs(scenario.route)]
    OBVIOUS
  <2>5. SameEvidence(c0, d0) /\ c0.operation = d0.operation
    BY <2>1, <2>2 DEF SameEvidence, ContextOf
  <2>6. SameEvidence(c, d) /\ c.operation = d0.operation
    <3>1. SameEvidence(c, c0)
      BY <2>1, <2>3, ContextIsRecordNext, WithOtherCompleted
    <3>2. SameEvidence(d0, d)
      BY <2>2, <2>4, ContextIsRecord, WithOtherCompleted
    <3> QED  BY <2>5, <3>1, <3>2 DEF SameEvidence
  <2>7. Failures(c) = {}
    BY <2>1, <2>3 DEF IsGood
  <2>8. d.route = scenario.route /\ d.operation = scenario.route[i]
        /\ d.completed = Seqs(scenario.route)
    BY <2>2, <2>4 DEF ContextOf
  <2>9. PredecessorsSatisfied(d.route, d.operation, d.completed)
    BY <1>1, <2>8 DEF PredecessorsSatisfied, Walkable
  <2>10. \A gate \in c.operation.gates : gate.kind \in GateKinds
    BY <2>2, <2>6, GatesAreKnown
  <2>11. Failures(d) = {}
    BY <2>6, <2>7, <2>9, <2>10, GatesStayGreen
  <2> QED  BY <2>2, <2>4, <2>11
<1> QED  BY <1>1, <1>2 DEF IsGood

\* The guard of the loop never bites.
LEMMA GuardIsSlack ==
  ASSUME IInv, pc = "loop"
  PROVE  /\ Sound(scenario.route) /\ IsFiniteSet(completed) /\ Cardinality(completed) \in Nat
         /\ guard = Cardinality(completed) /\ guard + 1 <= 4 * Len(scenario.route)
<1>1. Sound(scenario.route) /\ scenario.route # <<>> /\ guard = Cardinality(completed)
  BY ScenarioIs, WalkableIsSound DEF IInv, TypeOK, Running, Walkable
<1>2. Len(scenario.route) \in Nat /\ Len(scenario.route) # 0
  BY <1>1, ScenarioIs DEF IInv, TypeOK, Sound, IsRoute
<1>3. IsFiniteSet(Seqs(scenario.route)) /\ completed \in SUBSET Seqs(scenario.route)
  BY <1>1, SeqsAreFinite DEF Sound, IInv, TypeOK
<1>4. IsFiniteSet(completed) /\ Cardinality(completed) <= Len(scenario.route)
  BY <1>1, <1>3, FS_Subset DEF Sound
<1>5. Cardinality(completed) \in Nat
  BY <1>4, FS_CardinalityType
<1> QED  BY <1>1, <1>2, <1>4, <1>5

\* In a good scenario the loop finds an operation, and knows its template.
LEMMA GoodGoesOn ==
  ASSUME IInv, pc = "loop", IsGood
  PROVE  /\ NextOperation # None
         /\ NextOperation.def \in DOMAIN scenario.defs
         /\ Failures(ContextOf(NextOperation)) = {}
<1>1. scenario \in Scenarios /\ IsRoute(scenario.route) /\ Walkable(scenario.route)
  BY ScenarioIs DEF IInv, TypeOK, IsGood
<1>2. AcceptsWork(unit.state)
  BY DEF IInv, Running, AcceptsWork
<1>3. ReadyPositions(scenario.route, completed) # {}
  BY <1>1, EntryIsReady, MissingIsReady DEF IInv, Running
<1>4. PICK i \in ReadyPositions(scenario.route, completed) : TRUE
  BY <1>3
<1>5. PICK k \in DOMAIN scenario.stations :
        scenario.stations[k].active /\ scenario.route[i].def \in scenario.stations[k].operations
  BY <1>4 DEF IsGood, ReadyPositions
<1>6. NextOperation # None
  BY <1>1, <1>2, <1>4, <1>5, ReadyIsTaken
<1>7. PICK j \in ReadyPositions(scenario.route, completed) :
        j \in DOMAIN scenario.route /\ NextOperation = scenario.route[j]
  BY <1>1, <1>6, NextIsReady
<1>8. NextOperation.def \in DOMAIN scenario.defs
  BY <1>7 DEF IsGood
<1> QED  BY <1>1, <1>6, <1>7, <1>8, GoodIsGreen

\* The loop ends without a step: nothing to offer, or a template nobody defined.
LEMMA EndsEarly ==
  ASSUME IInv, pc = "loop", guard' = guard + 1, UNCHANGED <<scenario, unit, completed, report>>,
         NEW how \in {"reported", "unknown_def"}, End(how), ~IsGood,
         how = "reported" => Stranded
  PROVE  IInv'
<1>1. TypeOK'
  BY GuardIsSlack DEF IInv, TypeOK, End, Outcomes
<1>2. ~(IsGood')
  BY GoodStaysGood DEF IInv, TypeOK
<1>3. GoodScenarioCompletes'
  BY <1>2, GoodMeansCompletes DEF End, GoodScenarioCompletes, IsGood
<1>4. Performed'
  BY PerformedStays DEF IInv, TypeOK
<1>5. Running' /\ Ended'
  <2>1. Stranded' <=> Stranded
    BY DEF Stranded
  <2> QED  BY <2>1 DEF IInv, Running, Ended, End, Outcomes
<1> QED  BY <1>1, <1>3, <1>4, <1>5 DEF IInv

\* An operation is completed.
LEMMA CompletesKeepsInv ==
  ASSUME IInv, pc = "loop", guard' = guard + 1, UNCHANGED scenario,
         NEW i \in ReadyPositions(scenario.route, completed),
         NEW adv, adv = TryAdvance(ContextOf(scenario.route[i])),
         Completes(scenario.route[i], adv)
  PROVE  IInv'
<1>1. /\ Sound(scenario.route) /\ IsFiniteSet(completed) /\ Cardinality(completed) \in Nat
      /\ guard = Cardinality(completed)
  BY GuardIsSlack
<1>2. /\ i \in DOMAIN scenario.route /\ scenario.route[i].seq \notin completed
      /\ PredecessorsSatisfied(scenario.route, scenario.route[i], completed)
      /\ scenario.route[i].seq \in Seqs(scenario.route) /\ scenario.route[i].seq \in Nat
  BY <1>1 DEF ReadyPositions, Seqs, Sound, IsRoute
<1>3. completed' = completed \cup {scenario.route[i].seq}
  BY DEF Completes
<1>4. /\ Failures(ContextOf(scenario.route[i])) = {}
      /\ adv.route_complete = IsComplete(scenario.route, completed')
  BY <1>3 DEF Completes, TryAdvance, ContextOf
<1>5. unit \in UnitRecords /\ unit.state = "IN_PROCESS" /\ outcome = None
  BY DEF IInv, TypeOK, Running
<1>6. \/ /\ IsComplete(scenario.route, completed') /\ pc' = "done" /\ outcome' = "reported"
         /\ unit' = [unit EXCEPT !.current_operation = scenario.route[i].seq,
                                 !.state = "COMPLETED"]
      \/ /\ ~IsComplete(scenario.route, completed') /\ pc' = "loop" /\ outcome' = outcome
         /\ unit' = [unit EXCEPT !.current_operation = scenario.route[i].seq]
  <2>1. CanTransitionTo("IN_PROCESS", "COMPLETED")
    BY DEF CanTransitionTo, Successors
  <2>2. TransitionTo("IN_PROCESS", "COMPLETED") = "COMPLETED"
    BY <2>1 DEF TransitionTo
  <2>3. CASE adv.route_complete
    <3>1. unit' = [unit EXCEPT !.current_operation = scenario.route[i].seq,
                               !.state = TransitionTo(@, "COMPLETED")]
          /\ End(IF CanTransitionTo(unit.state, "COMPLETED") THEN "reported" ELSE "refused")
      BY <2>3 DEF Completes
    <3> QED  BY <1>4, <1>5, <2>1, <2>2, <2>3, <3>1 DEF End
  <2>4. CASE ~adv.route_complete
    BY <1>4, <2>4 DEF Completes
  <2> QED  BY <2>3, <2>4
<1>7. /\ unit' \in UnitRecords
      /\ pc' = "done" => unit'.state = "COMPLETED"
      /\ pc' = "loop" => unit'.state = "IN_PROCESS"
  <2>1. "COMPLETED" \in UnitStates
    BY DEF UnitStates
  <2> QED  BY <1>2, <1>5, <1>6, <2>1 DEF UnitRecords
<1>8. TypeOK'
  BY <1>1, <1>2, <1>3, <1>6, <1>7 DEF IInv, TypeOK, Outcomes
<1>9. Performed'
  <2> DEFINE seq == scenario.route[i].seq
  <2>0. PICK l \in Nat : l = Len(report)
    BY DEF IInv, Performed
  <2>1. /\ report \in Seq(Nat) /\ report' = Append(report, seq) /\ completed = Before(l + 1)
        /\ \A n \in 1..l : LineHolds(n)
    BY <2>0 DEF IInv, Performed, Completes
  <2>2. /\ report' \in Seq(Nat) /\ Len(report') = l + 1 /\ report'[l + 1] = seq
        /\ \A n \in 1..l : report'[n] = report[n]
        /\ \A n \in 1..(l + 1) : Before(n)' = Before(n)
        /\ Before(l + 2)' = Before(l + 1) \cup {seq}
    BY <1>2, <2>0, <2>1, BeforeAppended
  <2>3. unit'.uid = unit.uid /\ unit'.index_in_job = unit.index_in_job
        /\ scenario \in Scenarios
    BY <1>5, <1>7 DEF UnitRecords, IInv, TypeOK
  <2>4. ASSUME NEW n \in 1..l PROVE LineHolds(n)'
    <3>1. n \in 1..(l + 1)
      OBVIOUS
    <3> QED  BY <2>1, <2>2, <2>3, <3>1, LineStays
  <2>5. LineHolds(l + 1)'
    <3>1. PICK c : c = ContextOf(scenario.route[i])
      OBVIOUS
    <3>2. SameEvidence(c, c) /\ Failures(c) = {}
      BY <1>4, <3>1 DEF SameEvidence
    <3>3. Failures([ContextOf(scenario.route[i])' EXCEPT !.completed = completed]) = {}
      BY <1>2, <2>3, <3>1, <3>2, GreenStays
    <3>4. Before(l + 1)' = completed
      BY <2>1, <2>2
    <3>5. i \in ReadyPositions(scenario.route, completed)
      OBVIOUS
    <3> QED  BY <1>2, <2>2, <3>3, <3>4, <3>5 DEF LineHolds
  <2>6. completed' = Before(Len(report) + 1)'
    <3>1. (Len(report) + 1)' = l + 2
      BY <2>2
    <3>2. Before(Len(report) + 1)' = Before(l + 2)'
      BY <3>1 DEF Before
    <3> QED  BY <1>3, <2>1, <2>2, <3>2
  <2>7. \A n \in 1..(l + 1) : LineHolds(n)'
    <3>1. \A n \in 1..(l + 1) : n \in 1..l \/ n = l + 1
      OBVIOUS
    <3> QED  BY <2>4, <2>5, <3>1
  <2> QED  BY <2>2, <2>6, <2>7 DEF Performed
<1>10. Running'
  <2>1. Cardinality(completed') = guard'
    BY <1>1, <1>2, <1>3, FS_AddElement
  <2> QED  BY <1>5, <1>6, <1>7, <2>1 DEF IInv, Running
<1>11. Ended'
  BY <1>5, <1>6, <1>7, NoneAssumption DEF IInv, Ended, Running, Outcomes
<1>12. GoodScenarioCompletes'
  BY <1>5, <1>6, <1>7, NoneAssumption DEF GoodScenarioCompletes, Outcomes
<1> QED  BY <1>8, <1>9, <1>10, <1>11, <1>12 DEF IInv

\* A gate blocks and the run ends.
LEMMA BlocksKeepsInv ==
  ASSUME IInv, pc = "loop", guard' = guard + 1, UNCHANGED scenario,
         NEW i \in ReadyPositions(scenario.route, completed),
         NEW adv, adv = TryAdvance(ContextOf(scenario.route[i])), Blocks(adv), ~IsGood
  PROVE  IInv'
<1>1. unit \in UnitRecords /\ unit.state = "IN_PROCESS"
  BY DEF IInv, TypeOK, Running
<1>2. /\ scenario.route[i].failure_path \in FailurePaths(Nat, Nat)
      /\ i \in DOMAIN scenario.route
  BY ScenarioIs DEF IInv, TypeOK, IsRoute, ReadyPositions
<1>3. PICK d : d = adv.disposition
  OBVIOUS
<1>4. d = DispositionFor(scenario.route[i].failure_path, 1)
  BY <1>3 DEF Blocks, TryAdvance, ContextOf
<1>5. /\ \/ DispositionState(d) = None
         \/ DispositionState(d) \in {"REWORKING", "QUARANTINED", "SCRAPPED"}
      /\ d.kind = "REWORK" => d.to_operation \in Nat
  <2>1. PICK path \in FailurePaths(Nat, Nat) : path = scenario.route[i].failure_path
    BY <1>2
  <2>2. path.kind \in {"RETRY", "REWORK", "QUARANTINE", "SCRAP"}
    BY DEF FailurePaths
  <2>3. CASE path.kind = "RETRY"
    BY <1>4, <2>1, <2>3 DEF DispositionFor, DispositionState
  <2>4. CASE path.kind = "REWORK"
    <3>1. path.to_operation \in Nat
      BY <2>4 DEF FailurePaths
    <3> QED  BY <1>4, <2>1, <2>4, <3>1 DEF DispositionFor, DispositionState
  <2>5. CASE path.kind = "QUARANTINE"
    BY <1>4, <2>1, <2>5 DEF DispositionFor, DispositionState
  <2>6. CASE path.kind = "SCRAP"
    BY <1>4, <2>1, <2>6 DEF DispositionFor, DispositionState
  <2> QED  BY <2>2, <2>3, <2>4, <2>5, <2>6
<1>6. DispositionApplies(unit, d)
  BY <1>1, <1>5 DEF DispositionApplies, CanTransitionTo, Successors
<1>7. /\ unit' = ApplyDisposition(unit, d) /\ completed' = completed /\ report' = report
      /\ pc' = "done" /\ outcome' = "blocked"
  BY <1>3, <1>6 DEF Blocks, End
<1>8. unit' \in UnitRecords /\ unit'.state # "COMPLETED"
  <2>1. CASE unit' = unit
    BY <1>1, <2>1
  <2>2. CASE /\ DispositionState(d) # None
             /\ unit' = [unit EXCEPT !.state = DispositionState(d),
                                     !.current_operation =
                                       IF d.kind = "REWORK" THEN d.to_operation ELSE @]
    <3>1. DispositionState(d) \in UnitStates \ {"COMPLETED"}
      BY <1>5, <2>2 DEF UnitStates
    <3>2. (IF d.kind = "REWORK" THEN d.to_operation ELSE unit.current_operation)
            \in Nat \cup {None}
      BY <1>1, <1>5 DEF UnitRecords
    <3> QED  BY <1>1, <2>2, <3>1, <3>2 DEF UnitRecords
  <2> QED  BY <1>7, <2>1, <2>2 DEF ApplyDisposition
<1>9. unit'.uid = unit.uid /\ unit'.index_in_job = unit.index_in_job
  BY <1>1, <1>8 DEF UnitRecords
<1>10. TypeOK'
  BY <1>7, <1>8, GuardIsSlack DEF IInv, TypeOK, Outcomes
<1>11. Performed'
  BY <1>7, <1>9, PerformedStays DEF IInv, TypeOK
<1>12. Running' /\ Ended'
  BY <1>7, <1>8 DEF IInv, Running, Ended, Outcomes
<1>13. GoodScenarioCompletes'
  <2>1. ~(IsGood')
    BY <1>9, GoodStaysGood DEF IInv, TypeOK
  <2> QED  BY <1>7, <2>1, GoodMeansCompletes DEF GoodScenarioCompletes, IsGood
<1> QED  BY <1>10, <1>11, <1>12, <1>13 DEF IInv

LEMMA TurnKeepsInv ==
  ASSUME IInv, Turn
  PROVE  IInv'
<1>1. pc = "loop" /\ guard' = guard + 1 /\ UNCHANGED scenario /\ scenario \in Scenarios
  BY DEF Turn, IInv, TypeOK
<1>2. ~(guard' > 4 * Len(scenario.route))
  BY <1>1, GuardIsSlack, ScenarioIs
<1>3. CASE NextOperation = None
  <2>1. ~IsGood
    BY <1>1, <1>3, GoodGoesOn
  <2>2. Stranded
    <3>1. AcceptsWork(unit.state)
      BY <1>1 DEF IInv, Running, AcceptsWork
    <3> QED  BY <1>1, <1>3, <3>1, ReadyIsTaken DEF Stranded
  <2> QED  BY <1>1, <1>2, <1>3, <2>1, <2>2, EndsEarly DEF Turn
<1>4. CASE NextOperation # None /\ NextOperation.def \notin DOMAIN scenario.defs
  <2>1. ~IsGood
    BY <1>1, <1>4, GoodGoesOn
  <2> QED  BY <1>1, <1>2, <1>4, <2>1, EndsEarly DEF Turn
<1>5. CASE NextOperation # None /\ NextOperation.def \in DOMAIN scenario.defs
  <2>1. PICK adv : /\ adv = TryAdvance(ContextOf(NextOperation))
                   /\ Completes(NextOperation, adv) \/ Blocks(adv)
    BY <1>2, <1>5 DEF Turn
  <2>2. PICK i \in ReadyPositions(scenario.route, completed) :
          NextOperation = scenario.route[i]
    BY <1>1, <1>5, NextIsReady
  <2>3. CASE Completes(NextOperation, adv)
    BY <1>1, <2>1, <2>2, <2>3, CompletesKeepsInv
  <2>4. CASE Blocks(adv)
    <3>1. Failures(ContextOf(NextOperation)) # {}
      BY <2>1, <2>4 DEF Blocks, TryAdvance
    <3>2. ~IsGood
      BY <1>1, <3>1, GoodGoesOn
    <3> QED  BY <1>1, <2>1, <2>2, <2>4, <3>2, BlocksKeepsInv
  <2> QED  BY <2>1, <2>3, <2>4
<1> QED  BY <1>3, <1>4, <1>5

LEMMA Invariant == Spec => []IInv
<1>1. Init => IInv
  BY InitInv
<1>2. IInv /\ [Next]_vars => IInv'
  <2>1. IInv /\ UNCHANGED vars => IInv'
    <3> SUFFICES ASSUME IInv, UNCHANGED vars
                 PROVE  IInv'
      OBVIOUS
    <3>1. /\ UNCHANGED <<scenario, unit, completed, guard, report, pc, outcome>>
          /\ TypeOK' /\ Running' /\ Ended'
      BY DEF vars, IInv, TypeOK, Running, Ended, Stranded
    <3>2. Performed'
      BY <3>1, PerformedStays DEF IInv, TypeOK
    <3>3. GoodScenarioCompletes'
      BY <3>1, ContextStays DEF IInv, GoodScenarioCompletes
    <3> QED  BY <3>1, <3>2, <3>3 DEF IInv
  <2> QED  BY <2>1, ValidateKeepsInv, TurnKeepsInv DEF Next
<1> QED  BY <1>1, <1>2, PTL DEF Spec

-----------------------------------------------------------------------------
(* What the dry run can be believed. *)

\* validate turns away exactly the scenarios whose route cannot be walked
\* (Route::validate).
THEOREM ValidationIsExact == Spec => []ValidateIsExact
<1>1. IInv => ValidateIsExact
  BY NoneAssumption DEF IInv, Running, Ended, ValidateIsExact, TypeOK, Outcomes
<1> QED  BY <1>1, Invariant, PTL

\* Once something has passed, the route has been validated.
LEMMA SoundOnceStarted == IInv /\ completed # {} => Sound(scenario.route)
<1> SUFFICES ASSUME IInv, completed # {} PROVE Sound(scenario.route)
  OBVIOUS
<1>1. scenario \in Scenarios /\ IsRoute(scenario.route)
  BY ScenarioIs DEF IInv, TypeOK
<1>2. Walkable(scenario.route)
  BY DEF IInv, TypeOK, Running, Ended
<1> QED  BY <1>1, <1>2, WalkableIsSound

\* What predecessors_satisfied lets through waits for no required operation.
LEMMA ReadyAwaitsNothing ==
  ASSUME Sound(scenario.route), NEW i \in DOMAIN scenario.route, NEW done
  PROVE  PredecessorsSatisfied(scenario.route, scenario.route[i], done) <=> Awaited(i, done) = {}
<1>1. IsRoute(scenario.route) /\ Predecessors(scenario.route[i]) \subseteq Seqs(scenario.route)
  BY DEF Sound
<1>2. \A j \in DOMAIN scenario.route :
        Operation(scenario.route, scenario.route[j].seq) = scenario.route[j]
  BY OperationOfSeq
<1>3. \A p \in Seqs(scenario.route) : \E j \in DOMAIN scenario.route : scenario.route[j].seq = p
  BY DEF Seqs
<1>4. \A j \in DOMAIN scenario.route : /\ scenario.route[j].seq \in Seqs(scenario.route)
                                       /\ scenario.route[j].requirement \in {"REQUIRED", "OPTIONAL"}
  BY <1>1 DEF Seqs, IsRoute
<1> QED  BY <1>1, <1>2, <1>3, <1>4 DEF PredecessorsSatisfied, Awaited, Required

\* Every PASSED of a report was earned in its turn, after the required operations
\* listed and with green gates; a unit is COMPLETED only when every required one has
\* passed; and a run that exits with 0 without that stopped for want of a station
\* (run, try_advance).
THEOREM CompletionMeansEarned == Spec => []CompletionIsEarned
<1>1. IInv => CompletionIsEarned
  <2> SUFFICES ASSUME IInv PROVE CompletionIsEarned
    OBVIOUS
  <2>0. PICK l \in Nat : l = Len(report)
    BY DEF IInv, Performed
  <2>1. /\ report \in Seq(Nat) /\ DOMAIN report = 1..l /\ completed = Before(l + 1)
        /\ scenario \in Scenarios /\ \A n \in 1..l : LineHolds(n)
    BY <2>0 DEF IInv, TypeOK, Performed
  <2>2. ASSUME NEW n \in 1..l PROVE IsEarned(n)
    <3>1. PICK i \in DOMAIN scenario.route :
            /\ scenario.route[i].seq = report[n]
            /\ i \in ReadyPositions(scenario.route, Before(n))
            /\ Failures([ContextOf(scenario.route[i]) EXCEPT !.completed = Before(n)]) = {}
      BY <2>1 DEF LineHolds
    <3>2. completed # {}
      <4>1. (l + 1) - 1 = l
        OBVIOUS
      <4> QED  BY <2>1, <4>1 DEF Before
    <3>3. Sound(scenario.route)
      BY <3>2, SoundOnceStarted
    <3>4. Awaited(i, Before(n)) = {}
      BY <3>1, <3>3, ReadyAwaitsNothing DEF ReadyPositions
    <3> QED  BY <3>1, <3>4 DEF IsEarned, ReadyPositions
  <2>3. unit.state = "COMPLETED" => \A i \in Required : scenario.route[i].seq \in completed
    BY DEF IInv, Ended, IsComplete, Required
  <2>4. ASSUME outcome = "reported", unit.state # "COMPLETED",
               NEW i \in DOMAIN scenario.route, NEW k \in DOMAIN scenario.stations,
               scenario.stations[k].active,
               scenario.route[i].def \in scenario.stations[k].operations
        PROVE  scenario.route[i].seq \in completed \/ Awaited(i, completed) # {}
    <3>1. Walkable(scenario.route) /\ Stranded
      BY <2>4 DEF IInv, Ended
    <3>2. Sound(scenario.route)
      BY <2>1, <3>1, ScenarioIs, WalkableIsSound
    <3>3. i \notin ReadyPositions(scenario.route, completed)
      BY <2>4, <3>1 DEF Stranded
    <3> QED  BY <2>4, <3>2, <3>3, ReadyAwaitsNothing DEF ReadyPositions
  <2>5. Before(Len(report) + 1) = completed
    BY <2>0, <2>1
  <2> QED  BY <2>1, <2>2, <2>3, <2>4, <2>5 DEF CompletionIsEarned
<1> QED  BY <1>1, Invariant, PTL

\* The guard never ends a run, the lifecycle never refuses one, and a good scenario
\* is reported complete (run, next_operation).
THEOREM GoodScenariosComplete == Spec => []GoodScenarioCompletes
<1>1. IInv => GoodScenarioCompletes
  BY DEF IInv
<1> QED  BY <1>1, Invariant, PTL

-----------------------------------------------------------------------------
(* What the gates let through. *)

\* The context the engine is asked about.
Asked == [ctx EXCEPT !.captured = Captures(ctx.captured, ctx.dcps)]

GatesInv == ctx \in Contexts /\ (answer = None \/ answer = TryAdvance(Asked))

LEMMA GatesStep ==
  /\ CallInit => GatesInv
  /\ GatesInv /\ [Call]_callVars => GatesInv'
BY DEF CallInit, Call, callVars, GatesInv, Asked

\* Only the captures of the context are made up.
LEMMA AskedIs ==
  ASSUME ctx \in Contexts
  PROVE  /\ Asked.unit = ctx.unit /\ Asked.revision = ctx.revision
         /\ Asked.operation = ctx.operation /\ Asked.required_skill = ctx.required_skill
         /\ Asked.operator = ctx.operator /\ Asked.scanned_identity = ctx.scanned_identity
         /\ Asked.component_scans = ctx.component_scans /\ Asked.dcps = ctx.dcps
         /\ Asked.test_verdicts = ctx.test_verdicts
         /\ Asked.mark_verification = ctx.mark_verification
         /\ Asked.captured = Captures(ctx.captured, ctx.dcps)
BY ContextsAssumption DEF Asked

\* A context that advances passes all its entry gates.
LEMMA AdvancedIsGreen ==
  ASSUME GatesInv, Advanced,
         NEW gate \in ctx.operation.gates, gate.kind # "INTERLOCK_OUT"
  PROVE  EvaluateGate(gate, Asked)
<1>1. answer = TryAdvance(Asked) /\ answer.kind = "COMPLETED"
  BY DEF GatesInv, Advanced
<1>2. Failures(Asked) = {}
  BY <1>1 DEF TryAdvance
<1>3. Asked.operation = ctx.operation
  BY AskedIs DEF GatesInv
<1> QED  BY <1>2, <1>3 DEF Failures, IsOutput

\* A unit never advances on another unit's identity, a mark that names another unit
\* or is worse than allowed, a part that is not on the bill of materials, a test
\* that did not pass or the work of an operator who may not do it, whatever the
\* context (engine.rs, evaluate_gate and try_advance).
THEOREM WrongStaysBack == CallSpec => []WrongNeverAdvances
<1>1. ASSUME GatesInv PROVE WrongNeverAdvances
  <2> SUFFICES ASSUME Advanced
               PROVE
    LET mark == ctx.mark_verification
    IN  /\ Guarded("IDENTITY") => ctx.scanned_identity = ctx.unit.uid
        /\ Guarded("MARK_VERIFIED") /\ ctx.revision.mark_method # "NONE" =>
             /\ mark # None
             /\ mark.decoded = ctx.unit.uid
             /\ \/ ctx.revision.min_mark_grade = None
                \/ mark.grade # None /\ mark.grade <= ctx.revision.min_mark_grade
        /\ \A gate \in ctx.operation.gates : gate.kind = "COMPONENT_VERIFY" =>
             /\ None \notin ctx.component_scans
             /\ \A line \in gate.bom_line_ids : line \in ctx.component_scans
        /\ Guarded("OPERATOR_AUTH") =>
             /\ ctx.operator # None
             /\ ctx.operator.active
             /\ ctx.required_skill \in ctx.operator.certifications \cup {None}
        /\ \A gate \in ctx.operation.gates : gate.kind = "TEST_PASS" =>
             gate.test_name \in DOMAIN ctx.test_verdicts
               /\ ctx.test_verdicts[gate.test_name] = "PASS"
    BY DEF WrongNeverAdvances
  <2>1. \A gate \in ctx.operation.gates :
          gate.kind # "INTERLOCK_OUT" => EvaluateGate(gate, Asked)
    BY <1>1, AdvancedIsGreen
  <2>2. ctx \in Contexts
    BY <1>1 DEF GatesInv
  <2>3. Guarded("IDENTITY") => ctx.scanned_identity = ctx.unit.uid
    BY <2>1, <2>2, AskedIs DEF Guarded, EvaluateGate
  <2>4. Guarded("MARK_VERIFIED") => MarkVerified(Asked)
    BY <2>1 DEF Guarded, EvaluateGate
  <2>5. \A gate \in ctx.operation.gates :
          gate.kind = "COMPONENT_VERIFY" => ComponentVerify(gate, Asked)
    BY <2>1 DEF EvaluateGate
  <2>6. Guarded("OPERATOR_AUTH") => OperatorAuth(Asked)
    BY <2>1 DEF Guarded, EvaluateGate
  <2>7. \A gate \in ctx.operation.gates :
          gate.kind = "TEST_PASS" => TestPass(gate, Asked)
    BY <2>1 DEF EvaluateGate
  <2> QED  BY <2>2, <2>3, <2>4, <2>5, <2>6, <2>7, AskedIs
              DEF MarkVerified, ComponentVerify, OperatorAuth, TestPass
<1> QED  BY <1>1, GatesStep, PTL DEF CallSpec

\* A set of places has a last one.
LEMMA GreatestNumber ==
  ASSUME NEW n \in Nat, NEW T \in SUBSET (1..n), T # {}
  PROVE  Max(T) \in T /\ \A i \in T : i <= Max(T)
<1> DEFINE Left == {n - i : i \in T}
<1>1. Left \in SUBSET Nat /\ Left # {}
  <2>1. \A i \in T : i \in Int /\ n - i \in Nat
    OBVIOUS
  <2>2. PICK i : i \in T
    OBVIOUS
  <2>3. n - i \in Left
    BY <2>2
  <2> QED  BY <2>1, <2>3
<1>2. PICK m \in Left : \A k \in Left : m <= k
  BY <1>1, LeastNumber
<1>3. PICK i \in T : m = n - i
  BY <1>2
<1>4. \A j \in T : i >= j
  <2> TAKE j \in T
  <2>1. n - i <= n - j
    BY <1>2, <1>3
  <2> QED  BY <2>1
<1>5. Max(T) \in T /\ \A j \in T : Max(T) >= j
  BY <1>4 DEF Max
<1> QED  BY <1>5

\* A multiple of n leaves no rest.
LEMMA MultipleHasNoRest ==
  ASSUME NEW n \in Nat, n # 0, NEW index \in Nat, NEW k \in Nat, k * n = index
  PROVE  index % n = 0
<1> DEFINE q == index \div n
           r == index % n
<1>1. q \in Nat /\ r \in Nat /\ r < n /\ index = n * q + r
  OBVIOUS
<1> HIDE DEF q, r
<1>2. k * n = n * q + r
  BY <1>1
<1>3. r = n * (k - q)
  BY <1>1, <1>2
<1>4. k - q <= 0
  <2> SUFFICES ASSUME k - q >= 1 PROVE FALSE
    BY <1>1
  <2>1. n * (k - q) >= n * 1
    BY <1>1
  <2> QED  BY <2>1, <1>1, <1>3
<1>5. k - q >= 0
  <2> SUFFICES ASSUME q - k >= 1 PROVE FALSE
    BY <1>1
  <2>1. n * (q - k) >= n * 1
    BY <1>1
  <2>2. r = 0 - n * (q - k)
    BY <1>1, <1>3
  <2> QED  BY <2>1, <2>2, <1>1
<1>6. k - q = 0
  BY <1>1, <1>4, <1>5
<1> QED  BY <1>1, <1>3, <1>6 DEF r

\* Who is due a capture is not excused from it.
LEMMA DueIsAskedFor ==
  ASSUME NEW point, IsPoint(point), NEW index \in Nat, Due(point.sample_rule, index)
  PROVE  AppliesTo(point.sample_rule, index)
<1>1. CASE point.sample_rule.kind = "EVERY_NTH" /\ point.sample_rule.n # 0
  <2>1. PICK k \in 0..index : k * point.sample_rule.n = index
    BY <1>1 DEF Due
  <2>2. index % point.sample_rule.n = 0
    BY <1>1, <2>1, MultipleHasNoRest DEF IsPoint
  <2> QED  BY <1>1, <2>2 DEF AppliesTo
<1> QED  BY <1>1 DEF AppliesTo, Due, IsPoint

\* A capture that passes is a good one.
LEMMA PassIsGood ==
  ASSUME NEW point, IsPoint(point), NEW reading, IsReading(reading)
  PROVE  /\ Evaluate(point, reading.value) = "MISMATCH"
              <=> reading.value.datatype # point.datatype
         /\ Evaluate(point, reading.value) = "PASS" => Good(point, reading.value)
         /\ Evaluate(point, reading.value) \in {"MISMATCH", "FAIL", "PASS"}
<1>1. /\ Evaluate(point, reading.value) = "MISMATCH"
           <=> reading.value.datatype # point.datatype
      /\ Evaluate(point, reading.value) \in {"MISMATCH", "FAIL", "PASS"}
  BY DEF Evaluate
<1>2. ASSUME Evaluate(point, reading.value) = "PASS" PROVE Good(point, reading.value)
  <2>1. reading.value.datatype = point.datatype
    BY <1>1, <1>2
  <2>2. point.datatype = "NUMERIC" /\ IsBounded(point.limits) =>
          Accepts(point.limits, reading.value)
    BY <1>2, <2>1 DEF Evaluate
  <2>3. {point.limits.min, point.limits.max} # {None} => IsBounded(point.limits)
    BY DEF IsBounded
  <2>4. point.datatype = "NUMERIC" /\ reading.value # NaN => reading.value.n \in Int
    BY <2>1 DEF IsReading
  <2> QED  BY <2>1, <2>2, <2>3, <2>4 DEF Good, Accepts, IsPoint
<1> QED  BY <1>1, <1>2

\* What stands for a point is its last reading of its kind.
LEMMA LastCaptureIs ==
  ASSUME ctx \in Contexts, NEW dcp \in ctx.dcps
  PROVE  LET verdict == LastCapture(Captures(ctx.captured, ctx.dcps), dcp.id)
         IN  \/ ReadingsOf(dcp) = {} /\ verdict = None
             \/ \E i \in ReadingsOf(dcp) :
                  /\ verdict = Evaluate(dcp, ctx.captured[i].value)
                  /\ \A j \in ReadingsOf(dcp) : j <= i
<1> DEFINE Point(i) == CHOOSE d \in ctx.dcps : d.id = ctx.captured[i].dcp
           Verdict(i) == Evaluate(Point(i), ctx.captured[i].value)
           Kept == {j \in DOMAIN ctx.captured : Verdict(j) # "MISMATCH"}
           captured == [i \in Kept |->
                          [dcp |-> ctx.captured[i].dcp, verdict |-> Verdict(i)]]
           of == {i \in Kept : ctx.captured[i].dcp = dcp.id}
<1>1. Captures(ctx.captured, ctx.dcps) = captured
  BY DEF Captures
<1>2. PICK n \in Nat : DOMAIN ctx.captured = 1..n
  <2>1. PICK c : c = ctx.captured
    OBVIOUS
  <2>2. c \in Seq({c[i] : i \in DOMAIN c})
    BY <2>1, ContextsAssumption
  <2>3. DOMAIN c = 1..Len(c) /\ Len(c) \in Nat
    BY <2>2
  <2> QED  BY <2>1, <2>3
<1>3. \A i \in DOMAIN ctx.captured : ctx.captured[i].dcp = dcp.id => Point(i) = dcp
  BY ContextsAssumption
<1>4. IsPoint(dcp) /\ \A i \in DOMAIN ctx.captured : IsReading(ctx.captured[i])
  BY ContextsAssumption
<1>5. \A i \in DOMAIN ctx.captured : Evaluate(dcp, ctx.captured[i].value) = "MISMATCH"
        <=> ctx.captured[i].value.datatype # dcp.datatype
  BY <1>4, PassIsGood
<1> HIDE DEF Point
<1>6. of = ReadingsOf(dcp)
  BY <1>3, <1>5 DEF ReadingsOf
<1>7. {i \in DOMAIN captured : captured[i].dcp = dcp.id} = of
  OBVIOUS
<1>8. LastCapture(captured, dcp.id) = IF of = {} THEN None ELSE captured[Max(of)].verdict
  <2> HIDE DEF captured, of
  <2> QED  BY ONLY <1>7 DEF LastCapture
<1>9. CASE of = {}
  <2> HIDE DEF captured, of
  <2> QED  BY <1>1, <1>6, <1>8, <1>9
<1>10. CASE of # {}
  <2>1. of \in SUBSET (1..n)
    BY <1>2
  <2>2. Max(of) \in of /\ \A i \in of : i <= Max(of)
    <3> HIDE DEF of
    <3> QED  BY <1>10, <2>1, GreatestNumber
  <2>3. captured[Max(of)].verdict = Evaluate(dcp, ctx.captured[Max(of)].value)
    <3>1. PICK m \in of : m = Max(of)
      BY <2>2
    <3>2. captured[m].verdict = Evaluate(dcp, ctx.captured[m].value)
      BY <1>3
    <3> HIDE DEF captured, of
    <3> QED  BY <3>1, <3>2
  <2> HIDE DEF captured, of
  <2> QED  BY <1>1, <1>6, <1>8, <1>10, <2>2, <2>3
<1> QED  BY <1>9, <1>10

\* A unit that advances past a data capture has the readings it was due, and the
\* last of each point is within its limits, for any points and any number of
\* readings (dcp.rs, evaluate and applies_to; engine.rs, DATA_CAPTURE).
THEOREM DueReadingsPassed == CallSpec => []DueReadingsPass
<1>1. ASSUME GatesInv PROVE DueReadingsPass
  <2> SUFFICES ASSUME Advanced, Guarded("DATA_CAPTURE"), NEW dcp \in ctx.dcps,
                      Due(dcp.sample_rule, ctx.unit.index_in_job)
               PROVE  \/ ReadingsOf(dcp) = {} /\ ~dcp.mandatory
                      \/ \E i \in ReadingsOf(dcp) :
                           /\ Good(dcp, ctx.captured[i].value)
                           /\ \A j \in ReadingsOf(dcp) : j <= i
    BY DEF DueReadingsPass
  <2>1. ctx \in Contexts
    BY <1>1 DEF GatesInv
  <2>2. DataCapture(Asked)
    BY <1>1, AdvancedIsGreen DEF Guarded, EvaluateGate
  <2>3. IsPoint(dcp) /\ ctx.unit.index_in_job \in Nat
    BY <2>1, ContextsAssumption
  <2>4. AppliesTo(dcp.sample_rule, ctx.unit.index_in_job)
    BY <2>3, DueIsAskedFor
  <2> DEFINE verdict == LastCapture(Captures(ctx.captured, ctx.dcps), dcp.id)
  <2>5. verdict # "FAIL" /\ (dcp.mandatory => verdict # None)
    BY <2>1, <2>2, <2>4, AskedIs DEF DataCapture
  <2> HIDE DEF verdict
  <2>6. CASE ReadingsOf(dcp) = {} /\ verdict = None
    BY <2>5, <2>6
  <2>7. CASE \E i \in ReadingsOf(dcp) :
               /\ verdict = Evaluate(dcp, ctx.captured[i].value)
               /\ \A j \in ReadingsOf(dcp) : j <= i
    <3>1. PICK i \in ReadingsOf(dcp) : /\ verdict = Evaluate(dcp, ctx.captured[i].value)
                                         /\ \A j \in ReadingsOf(dcp) : j <= i
      BY <2>7
    <3>2. i \in DOMAIN ctx.captured /\ ctx.captured[i].value.datatype = dcp.datatype
      BY DEF ReadingsOf
    <3>3. IsReading(ctx.captured[i])
      BY <2>1, <3>2, ContextsAssumption
    <3>4. verdict = "PASS"
      BY <2>3, <2>5, <3>1, <3>2, <3>3, PassIsGood
    <3> QED  BY <2>3, <3>1, <3>3, <3>4, PassIsGood
  <2> QED  BY <2>1, <2>6, <2>7, LastCaptureIs DEF verdict
<1> QED  BY <1>1, GatesStep, PTL DEF CallSpec
=============================================================================
