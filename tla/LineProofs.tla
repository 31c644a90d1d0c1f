----------------------------- MODULE LineProofs -----------------------------
(***************************************************************************)
(* Proofs about Line, for every set of valid routes, every set of stations *)
(* and all the evidence they may gather.                                   *)
(*                                                                         *)
(* That a COMPLETED unit has everything required done is inductive only    *)
(* with the types, which hold the unit's states to the lifecycle: its      *)
(* table is what keeps a unit from COMPLETED any other way.  That no       *)
(* attempt exceeds its retry path rests on disposition_for, which has no   *)
(* retry left at the bound.  NotRefused adds that a caller that moves a    *)
(* unit to IN_PROCESS first is never refused a decision.  That the unit is *)
(* not stuck follows from the routes alone: one that validate accepts has  *)
(* a ready operation while a required one is missing (MissingIsReady).     *)
(***************************************************************************)
EXTENDS Line, RouteProofs

-----------------------------------------------------------------------------
(* The offers. *)

LEMMA RoutesAreSound ==
  ASSUME NEW r \in Routes
  PROVE  /\ Sound(r)
         /\ Len(r) \in Nat /\ DOMAIN r = 1..Len(r)
         /\ \A i \in DOMAIN r : r[i].failure_path \in FailurePaths(Nat, Nat)
<1>1. IsRoute(r) /\ Validate(r)
  BY RoutesAreValid
<1> QED  BY <1>1, RoutesAreSequences DEF IsRoute, Validate, Sound

\* What a station is offered is an operation of the route that is not done, of a
\* unit that accepts work, and whose required predecessors are.
LEMMA OffersAreReady ==
  ASSUME NEW r \in Routes, NEW u, NEW station, NEW done,
         NEW op, op = ResolveOperation(r, u, station, done), op # None
  PROVE  /\ AcceptsWork(u.state)
         /\ \E i \in DOMAIN r : op = r[i] /\ i \in ReadyPositions(r, done)
<1> DEFINE can == {i \in ReadyPositions(r, done) : r[i].def \in station.operations}
<1>1. AcceptsWork(u.state) /\ can # {} /\ op = r[Min(can)]
  BY DEF ResolveOperation
<1>2. can \in SUBSET Nat
  BY RoutesAreSound DEF ReadyPositions
<1>3. Min(can) \in can
  BY <1>1, <1>2, MinIsLeast
<1> QED  BY <1>1, <1>3 DEF ReadyPositions

-----------------------------------------------------------------------------
(* The steps. *)

\* What a step of a station does: of an operation that is ready, it completes it or
\* the unit takes its failure path.
LEMMA WorkIs ==
  ASSUME TypeOK, NEW station, NEW ev, Work(station, ev)
  PROVE  \E i, adv :
           /\ i \in DOMAIN route
           /\ AcceptsWork(unit.state) /\ i \in ReadyPositions(route, completed)
           /\ Completes(route[i], adv) \/ Fails(route[i], adv)
           /\ adv.kind = "COMPLETED" =>
                adv.route_complete = IsComplete(route, completed \cup {route[i].seq})
           /\ adv.kind = "BLOCKED" =>
                adv.disposition =
                  DispositionFor(route[i].failure_path, attempt[route[i].seq])
           /\ UNCHANGED route
<1>1. PICK op : /\ op = ResolveOperation(route, unit, station, completed) /\ op # None
                /\ \E adv \in {TryAdvance(ContextOf(op, ev))} : Completes(op, adv) \/ Fails(op, adv)
  BY DEF Work
<1>2. PICK adv : adv = TryAdvance(ContextOf(op, ev)) /\ (Completes(op, adv) \/ Fails(op, adv))
  BY <1>1
<1>3. PICK i \in DOMAIN route : op = route[i] /\ i \in ReadyPositions(route, completed)
  BY <1>1, OffersAreReady DEF TypeOK
<1>4. AcceptsWork(unit.state)
  BY <1>1, OffersAreReady DEF TypeOK
<1>5. /\ ContextOf(op, ev).route = route /\ ContextOf(op, ev).operation = op
      /\ ContextOf(op, ev).completed = completed
      /\ ContextOf(op, ev).attempt = attempt[op.seq]
  BY DEF ContextOf
<1>6. /\ adv.kind = "COMPLETED" => adv.route_complete = IsComplete(route, completed \cup {op.seq})
      /\ adv.kind = "BLOCKED" => adv.disposition = DispositionFor(op.failure_path, attempt[op.seq])
  BY <1>2, <1>5 DEF TryAdvance
<1> QED  BY <1>2, <1>3, <1>4, <1>6 DEF Work

\* A unit that accepts work still does, or was brought to it, at the start of an
\* operation.
LEMMA StartAccepts ==
  ASSUME AcceptsWork(unit.state)
  PROVE  /\ AcceptsWork(StartState) /\ StartState \in UnitStates
         /\ MovesToInProcess => StartState = "IN_PROCESS"
BY DEF AcceptsWork, StartState, TransitionTo, CanTransitionTo, Successors, UnitStates

LEMMA TransitionsStay ==
  ASSUME NEW state \in UnitStates, NEW next \in UnitStates
  PROVE  TransitionTo(state, next) \in UnitStates
BY DEF TransitionTo

\* What disposition_for returns of a failure path.
LEMMA Dispositions ==
  ASSUME NEW path \in FailurePaths(Nat, Nat), NEW n \in Nat
  PROVE  LET d == DispositionFor(path, n)
         IN  /\ d.kind \in {"RETRY", "REWORK", "QUARANTINE", "SCRAP"}
             /\ d.kind = "RETRY" => path.kind = "RETRY" /\ n < path.max_attempts
             /\ d.kind = "REWORK" => path.kind = "REWORK" /\ d.to_operation = path.to_operation
             /\ DispositionState(d) = None \/ DispositionState(d) \in {"REWORKING", "QUARANTINED", "SCRAPPED"}
<1>1. path.kind \in {"RETRY", "REWORK", "QUARANTINE", "SCRAP"}
  BY DEF FailurePaths
<1>2. CASE path.kind = "RETRY"
  BY <1>2 DEF DispositionFor, DispositionState
<1>3. CASE path.kind = "REWORK"
  BY <1>3 DEF DispositionFor, DispositionState
<1>4. CASE path.kind = "QUARANTINE"
  BY <1>4 DEF DispositionFor, DispositionState
<1>5. CASE path.kind = "SCRAP"
  BY <1>5 DEF DispositionFor, DispositionState
<1> QED  BY <1>1, <1>2, <1>3, <1>4, <1>5

UnitRecords(of) ==
  [uid : {"unit"}, state : UnitStates, index_in_job : {0},
   current_operation : Seqs(of) \cup ReworkTargets(of) \cup {None}]

LEMMA CompletesKeepsTypes ==
  ASSUME TypeOK, NEW i \in DOMAIN route, NEW adv, Completes(route[i], adv),
         AcceptsWork(unit.state), UNCHANGED route
  PROVE  /\ TypeOK'
         /\ unit'.state = "COMPLETED" => adv.route_complete
         /\ unit'.state # "SHIPPED"
<1>1. /\ StartState \in UnitStates /\ AcceptsWork(StartState)
      /\ "COMPLETED" \in UnitStates /\ route[i].seq \in Seqs(route)
  BY StartAccepts DEF UnitStates, Seqs
<1>2. PICK done : done = [unit EXCEPT !.state = StartState, !.current_operation = route[i].seq]
  OBVIOUS
<1>3. done \in UnitRecords(route) /\ done.state = StartState
  BY <1>1, <1>2 DEF TypeOK, UnitRecords
<1>4. \/ unit' = done /\ refused' = refused
      \/ /\ adv.route_complete
         /\ unit' = [done EXCEPT !.state = TransitionTo(@, "COMPLETED")]
         /\ refused' \in BOOLEAN
  BY <1>2 DEF Completes, TypeOK
<1>5. /\ unit' \in UnitRecords(route)
      /\ unit'.state = "COMPLETED" => adv.route_complete
      /\ unit'.state # "SHIPPED"
  <2>1. CASE unit' = done /\ refused' = refused
    BY <1>1, <1>3, <2>1 DEF AcceptsWork
  <2>2. CASE adv.route_complete /\ unit' = [done EXCEPT !.state = TransitionTo(@, "COMPLETED")]
    BY <1>1, <1>3, <2>2, TransitionsStay DEF UnitRecords, AcceptsWork, TransitionTo
  <2> QED  BY <1>4, <2>1, <2>2
<1>6. /\ completed' \subseteq Seqs(route) /\ owed' \subseteq Seqs(route)
      /\ attempt' \in [Seqs(route) -> Nat \ {0}] /\ refused' \in BOOLEAN
  BY <1>1, <1>4 DEF Completes, TypeOK
<1> QED  BY <1>5, <1>6 DEF TypeOK, UnitRecords

LEMMA FailsKeepsTypes ==
  ASSUME TypeOK, NEW i \in DOMAIN route, NEW adv, Fails(route[i], adv),
         adv.disposition = DispositionFor(route[i].failure_path, attempt[route[i].seq]),
         AcceptsWork(unit.state), UNCHANGED route
  PROVE  /\ TypeOK'
         /\ unit'.state \notin {"COMPLETED", "SHIPPED"}
<1>1. /\ StartState \in UnitStates /\ AcceptsWork(StartState)
      /\ route[i].seq \in Seqs(route) /\ attempt[route[i].seq] \in Nat \ {0}
      /\ route[i].failure_path \in FailurePaths(Nat, Nat)
  BY StartAccepts, RoutesAreSound DEF Seqs, TypeOK
<1>2. PICK d : d = adv.disposition
  OBVIOUS
<1>3. /\ d.kind = "REWORK" => d.to_operation \in ReworkTargets(route)
      /\ DispositionState(d) = None \/ DispositionState(d) \in {"REWORKING", "QUARANTINED", "SCRAPPED"}
  BY <1>1, <1>2, Dispositions DEF ReworkTargets
<1>4. PICK at : at = [unit EXCEPT !.state = StartState]
  OBVIOUS
<1>5. at \in UnitRecords(route) /\ at.state = StartState
  BY <1>1, <1>4 DEF TypeOK, UnitRecords
<1>6. unit' = ApplyDisposition(at, d)
  BY <1>2, <1>4 DEF Fails
<1>7. unit' \in UnitRecords(route) /\ unit'.state \notin {"COMPLETED", "SHIPPED"}
  <2>1. CASE unit' = at
    BY <1>1, <1>5, <2>1 DEF AcceptsWork
  <2>2. CASE DispositionState(d) # None /\
             unit' = [at EXCEPT !.state = DispositionState(d),
                                !.current_operation =
                                  IF d.kind = "REWORK" THEN d.to_operation ELSE @]
    <3>1. DispositionState(d) \in UnitStates \ {"COMPLETED", "SHIPPED"}
      BY <1>3, <2>2 DEF UnitStates
    <3>2. (IF d.kind = "REWORK" THEN d.to_operation ELSE at.current_operation)
            \in Seqs(route) \cup ReworkTargets(route) \cup {None}
      BY <1>3, <1>5 DEF UnitRecords
    <3> QED  BY <1>5, <2>2, <3>1, <3>2 DEF UnitRecords
  <2> QED  BY <1>6, <2>1, <2>2 DEF ApplyDisposition
<1>8. /\ completed' \subseteq Seqs(route) /\ owed' \subseteq Seqs(route)
      /\ attempt' \in [Seqs(route) -> Nat \ {0}] /\ refused' \in BOOLEAN
  BY <1>1 DEF Fails, TypeOK
<1> QED  BY <1>7, <1>8 DEF TypeOK, UnitRecords

\* What the supervisor decides keeps the types, and gets no unit completed.
LEMMA DecideKeepsTypes ==
  ASSUME TypeOK, NEW next \in UnitStates, Decide(next)
  PROVE  /\ TypeOK'
         /\ UNCHANGED <<route, completed, owed, attempt>>
         /\ unit'.state # "COMPLETED"
         /\ unit'.state = "SHIPPED" => unit.state = "COMPLETED"
<1>1. /\ unit' = [unit EXCEPT !.state = next] /\ next # "COMPLETED"
      /\ next = "SHIPPED" => unit.state = "COMPLETED"
  BY DEF Decide, TransitionTo, CanTransitionTo, Successors, TypeOK, UnitStates
<1>2. unit \in UnitRecords(route)
  BY DEF TypeOK, UnitRecords
<1>3. unit' \in UnitRecords(route) /\ unit'.state = next
  BY <1>1, <1>2 DEF UnitRecords
<1> QED  BY <1>1, <1>3 DEF TypeOK, UnitRecords, Decide

LEMMA SendToReworkKeepsTypes ==
  ASSUME TypeOK, NEW invalidates, SendToRework(invalidates)
  PROVE  TypeOK' /\ unit'.state = "REWORKING"
<1>1. unit' = [unit EXCEPT !.state = "REWORKING"]
  BY DEF SendToRework, TransitionTo
<1>2. unit \in UnitRecords(route)
  BY DEF TypeOK, UnitRecords
<1>3. unit' \in UnitRecords(route) /\ unit'.state = "REWORKING"
  BY <1>1, <1>2 DEF UnitRecords, UnitStates
<1> QED  BY <1>3 DEF TypeOK, UnitRecords, SendToRework

-----------------------------------------------------------------------------
(* The invariants. *)

\* A caller that moves the unit to IN_PROCESS first is never refused a decision.
NotRefused == MovesToInProcess => ~refused

IInv == TypeOK /\ CompletedIsDone /\ RetriesAreBounded /\ NotRefused

LEMMA InitInv ==
  ASSUME Init
  PROVE  IInv
<1>1. route \in Routes /\ IsRoute(route)
  BY RoutesAreValid DEF Init
<1>2. TypeOK
  <2>1. unit \in UnitRecords(route)
    BY DEF Init, NewUnit, UnitRecords, UnitStates
  <2>2. attempt \in [Seqs(route) -> Nat \ {0}]
    BY DEF Init
  <2>3. completed = {} /\ owed = {} /\ refused \in BOOLEAN
    BY DEF Init
  <2> QED  BY <1>1, <2>1, <2>2, <2>3 DEF TypeOK, UnitRecords
<1>3. CompletedIsDone
  BY DEF Init, CompletedIsDone, NewUnit
<1>4. RetriesAreBounded
  <2> SUFFICES ASSUME NEW i \in DOMAIN route, route[i].failure_path.kind = "RETRY"
               PROVE  attempt[route[i].seq] <= Max({1, route[i].failure_path.max_attempts})
    BY DEF RetriesAreBounded
  <2>1. route[i].failure_path.max_attempts \in Nat
    BY <1>1, RoutesAreSound DEF FailurePaths
  <2>2. attempt[route[i].seq] = 1
    BY DEF Init, Seqs
  <2> QED  BY <2>1, <2>2, LargerOfTwo
<1> QED  BY <1>2, <1>3, <1>4 DEF IInv, NotRefused, Init

\* A completion starts the attempts of its operation over, and completes the unit
\* only with the route.
LEMMA CompletesKeepsInv ==
  ASSUME IInv, NEW i \in DOMAIN route, NEW adv, Completes(route[i], adv),
         adv.route_complete = IsComplete(route, completed \cup {route[i].seq}),
         AcceptsWork(unit.state), UNCHANGED route
  PROVE  IInv'
<1>1. /\ TypeOK' /\ unit'.state # "SHIPPED"
      /\ unit'.state = "COMPLETED" => IsComplete(route, completed')
  BY CompletesKeepsTypes DEF IInv, Completes
<1>2. CompletedIsDone'
  BY <1>1 DEF CompletedIsDone, IsComplete, Completes, IInv
<1>3. RetriesAreBounded'
  <2> SUFFICES ASSUME NEW j \in DOMAIN route, route[j].failure_path.kind = "RETRY"
               PROVE  attempt'[route[j].seq] <= Max({1, route[j].failure_path.max_attempts})
    BY DEF RetriesAreBounded
  <2>1. route[j].failure_path.max_attempts \in Nat
    BY RoutesAreSound DEF FailurePaths, IInv, TypeOK
  <2>2. attempt'[route[j].seq] = attempt[route[j].seq] \/ attempt'[route[j].seq] = 1
    BY DEF Completes, IInv, TypeOK, Seqs
  <2>3. attempt[route[j].seq] <= Max({1, route[j].failure_path.max_attempts})
    BY DEF IInv, RetriesAreBounded
  <2> QED  BY <2>1, <2>2, <2>3, LargerOfTwo
<1>4. NotRefused'
  <2> SUFFICES ASSUME MovesToInProcess PROVE ~refused'
    BY DEF NotRefused
  <2>1. StartState = "IN_PROCESS" /\ ~refused
    BY StartAccepts DEF IInv, NotRefused
  <2>2. CanTransitionTo("IN_PROCESS", "COMPLETED")
    BY DEF CanTransitionTo, Successors
  <2>3. unit \in UnitRecords(route)
    BY DEF IInv, TypeOK, UnitRecords
  <2>4. [unit EXCEPT !.state = StartState, !.current_operation = route[i].seq].state = "IN_PROCESS"
    BY <2>1, <2>3 DEF UnitRecords
  <2> QED  BY <2>1, <2>2, <2>4 DEF Completes
<1> QED  BY <1>1, <1>2, <1>3, <1>4 DEF IInv

\* A failure counts one more attempt only while its path has one left, and what it
\* voids is no longer completed.
LEMMA FailsKeepsInv ==
  ASSUME IInv, NEW i \in DOMAIN route, NEW adv, Fails(route[i], adv),
         adv.disposition = DispositionFor(route[i].failure_path, attempt[route[i].seq]),
         AcceptsWork(unit.state), UNCHANGED route
  PROVE  IInv'
<1>1. TypeOK' /\ unit'.state \notin {"COMPLETED", "SHIPPED"}
  BY FailsKeepsTypes DEF IInv
<1>2. CompletedIsDone'
  <2>1. PICK voided \in SUBSET completed :
          completed' = completed \ voided /\ owed' = owed \cup voided
    BY DEF Fails
  <2> QED  BY <1>1, <2>1 DEF CompletedIsDone, IInv
<1>3. RetriesAreBounded'
  <2> SUFFICES ASSUME NEW j \in DOMAIN route, route[j].failure_path.kind = "RETRY"
               PROVE  attempt'[route[j].seq] <= Max({1, route[j].failure_path.max_attempts})
    BY DEF RetriesAreBounded
  <2>1. /\ route[j].failure_path.max_attempts \in Nat
        /\ route[i].failure_path \in FailurePaths(Nat, Nat)
        /\ attempt[route[i].seq] \in Nat /\ route[i].seq \in Seqs(route)
        /\ route[j].seq \in Seqs(route) /\ attempt \in [Seqs(route) -> Nat \ {0}]
    BY RoutesAreSound DEF FailurePaths, IInv, TypeOK, Seqs
  <2>2. attempt[route[j].seq] <= Max({1, route[j].failure_path.max_attempts})
    BY DEF IInv, RetriesAreBounded
  <2>3. /\ Max({1, route[j].failure_path.max_attempts}) \in Nat
        /\ Max({1, route[j].failure_path.max_attempts}) >= 1
        /\ Max({1, route[j].failure_path.max_attempts}) >= route[j].failure_path.max_attempts
    BY <2>1, LargerOfTwo
  <2>4. CASE route[j].seq # route[i].seq
    BY <2>1, <2>2, <2>4 DEF Fails
  <2>5. CASE route[j].seq = route[i].seq /\ adv.disposition.kind # "RETRY"
    BY <2>1, <2>3, <2>5 DEF Fails
  <2>6. CASE route[j].seq = route[i].seq /\ adv.disposition.kind = "RETRY"
    <3>1. j = i
      BY <2>6, SeqsAreKeys, RoutesAreSound DEF IInv, TypeOK
    <3>2. attempt[route[i].seq] < route[i].failure_path.max_attempts
      BY <2>1, <2>6, Dispositions
    <3>3. attempt'[route[i].seq] = attempt[route[i].seq] + 1
      BY <2>1, <2>6 DEF Fails
    <3> QED  BY <2>1, <2>3, <3>1, <3>2, <3>3
  <2> QED  BY <2>4, <2>5, <2>6
<1>4. NotRefused'
  <2> SUFFICES ASSUME MovesToInProcess PROVE ~refused'
    BY DEF NotRefused
  <2>1. StartState = "IN_PROCESS" /\ ~refused
    BY StartAccepts DEF IInv, NotRefused
  <2>2. PICK at : at = [unit EXCEPT !.state = StartState]
    OBVIOUS
  <2>3. at.state = "IN_PROCESS"
    <3>1. unit \in UnitRecords(route)
      BY DEF IInv, TypeOK, UnitRecords
    <3> QED  BY <2>1, <2>2, <3>1 DEF UnitRecords
  <2>4. /\ DispositionState(adv.disposition) = None
           \/ DispositionState(adv.disposition) \in {"REWORKING", "QUARANTINED", "SCRAPPED"}
    <3>1. /\ route[i].failure_path \in FailurePaths(Nat, Nat)
          /\ attempt[route[i].seq] \in Nat
      BY RoutesAreSound DEF IInv, TypeOK, Seqs
    <3> QED  BY <3>1, Dispositions
  <2>5. DispositionApplies(at, adv.disposition)
    BY <2>3, <2>4 DEF DispositionApplies, CanTransitionTo, Successors
  <2> QED  BY <2>1, <2>2, <2>5 DEF Fails
<1> QED  BY <1>1, <1>2, <1>3, <1>4 DEF IInv

LEMMA NextKeepsInv ==
  ASSUME IInv, [Next]_vars
  PROVE  IInv'
<1>1. CASE \E station \in Stations, ev \in Evidence : Work(station, ev)
  <2>1. PICK i, adv :
           /\ i \in DOMAIN route
           /\ AcceptsWork(unit.state)
           /\ Completes(route[i], adv) \/ Fails(route[i], adv)
           /\ adv.kind = "COMPLETED" =>
                adv.route_complete = IsComplete(route, completed \cup {route[i].seq})
           /\ adv.kind = "BLOCKED" =>
                adv.disposition =
                  DispositionFor(route[i].failure_path, attempt[route[i].seq])
           /\ UNCHANGED route
    BY <1>1, WorkIs DEF IInv
  <2>2. CASE Completes(route[i], adv)
    <3>1. adv.kind = "COMPLETED"
      BY <2>2 DEF Completes
    <3> QED  BY <2>1, <2>2, <3>1, CompletesKeepsInv
  <2>3. CASE Fails(route[i], adv)
    <3>1. adv.kind = "BLOCKED"
      BY <2>3 DEF Fails
    <3> QED  BY <2>1, <2>3, <3>1, FailsKeepsInv
  <2> QED  BY <2>1, <2>2, <2>3
<1>2. ASSUME NEW next \in UnitStates, Decide(next)
      PROVE  IInv'
  <2>1. /\ TypeOK' /\ UNCHANGED <<route, completed, owed, attempt>>
        /\ unit'.state # "COMPLETED"
        /\ unit'.state = "SHIPPED" => unit.state = "COMPLETED"
    BY <1>2, DecideKeepsTypes DEF IInv
  <2>2. CompletedIsDone' /\ RetriesAreBounded' /\ NotRefused'
    BY <1>2, <2>1 DEF CompletedIsDone, RetriesAreBounded, IInv, NotRefused, Decide
  <2> QED  BY <2>1, <2>2 DEF IInv
<1>3. ASSUME NEW invalidates, SendToRework(invalidates)
      PROVE  IInv'
  <2>1. TypeOK' /\ unit'.state = "REWORKING"
    BY <1>3, SendToReworkKeepsTypes DEF IInv
  <2>2. CompletedIsDone'
    BY <1>3, <2>1 DEF CompletedIsDone, SendToRework, IInv
  <2>3. RetriesAreBounded'
    BY <1>3 DEF RetriesAreBounded, SendToRework, IInv
  <2>4. NotRefused'
    BY <1>3 DEF NotRefused, SendToRework, IInv
  <2> QED  BY <2>1, <2>2, <2>3, <2>4 DEF IInv
<1>4. CASE UNCHANGED vars
  BY <1>4 DEF vars, IInv, TypeOK, CompletedIsDone, RetriesAreBounded, NotRefused
<1> QED  BY <1>1, <1>2, <1>3, <1>4 DEF Next

LEMMA Invariant == Spec => []IInv
<1>1. Init => IInv
  BY InitInv
<1>2. IInv /\ [Next]_vars => IInv'
  BY NextKeepsInv
<1> QED  BY <1>1, <1>2, PTL DEF Spec

-----------------------------------------------------------------------------
(* What the line can rely on. *)

\* The unit stays in a state of the lifecycle, its current operation is one of the
\* route or one a rework path names, and what is completed is on the route.
THEOREM TypeCorrect == Spec => []TypeOK
<1>1. IInv => TypeOK
  BY DEF IInv
<1> QED  BY <1>1, Invariant, PTL

\* Whatever the route and the failures, a unit that is COMPLETED or SHIPPED has
\* every required operation done, and what a rework voided is never counted before
\* it is done again (is_complete, can_transition_to).
THEOREM CompletedMeansDone == Spec => []CompletedIsDone
<1>1. IInv => CompletedIsDone
  BY DEF IInv
<1> QED  BY <1>1, Invariant, PTL

\* No operation is attempted more often in a row than its retry path allows
\* (disposition_for).
THEOREM RetriesStayBounded == Spec => []RetriesAreBounded
<1>1. IInv => RetriesAreBounded
  BY DEF IInv
<1> QED  BY <1>1, Invariant, PTL

\* Only what is ready gets completed, after the required operations it lists, and
\* nothing brings a scrapped unit back (ready_operations, can_transition_to).
THEOREM StepsKeepTheirOrder == Spec => StepsAreInOrder
<1>1. ASSUME IInv, [Next]_vars
      PROVE  [/\ \A s \in completed' \ completed :
                   /\ AcceptsWork(unit.state)
                   /\ \A p \in Predecessors(Operation(route, s)) :
                        Operation(route, p).requirement = "REQUIRED" => p \in completed
              /\ unit.state = "SCRAPPED" => UNCHANGED <<unit, completed>>]_vars
  <2>1. CASE \E station \in Stations, ev \in Evidence : Work(station, ev)
    <3>1. PICK i, adv :
             /\ i \in DOMAIN route
             /\ AcceptsWork(unit.state) /\ i \in ReadyPositions(route, completed)
             /\ Completes(route[i], adv) \/ Fails(route[i], adv)
      BY <2>1, WorkIs, <1>1 DEF IInv
    <3>2. completed' \ completed \subseteq {route[i].seq}
      BY <3>1 DEF Completes, Fails
    <3>3. Operation(route, route[i].seq) = route[i]
      BY <1>1, <3>1, OperationOfSeq, RoutesAreSound DEF IInv, TypeOK
    <3>4. \A p \in Predecessors(route[i]) :
             Operation(route, p).requirement = "REQUIRED" => p \in completed
      BY <3>1 DEF ReadyPositions, PredecessorsSatisfied
    <3>5. unit.state # "SCRAPPED"
      BY <3>1 DEF AcceptsWork
    <3> QED  BY <3>1, <3>2, <3>3, <3>4, <3>5
  <2>2. ASSUME NEW next \in UnitStates, Decide(next)
        PROVE  completed' = completed /\ unit.state # "SCRAPPED"
    BY <2>2 DEF Decide, CanTransitionTo, Successors
  <2>3. ASSUME NEW invalidates, SendToRework(invalidates)
        PROVE  completed' \subseteq completed /\ unit.state # "SCRAPPED"
    BY <2>3 DEF SendToRework, CanTransitionTo, Successors
  <2>4. CASE UNCHANGED vars
    BY <2>4
  <2> QED  BY <1>1, <2>1, <2>2, <2>3, <2>4 DEF Next
<1> QED  BY <1>1, Invariant, PTL DEF Spec, StepsAreInOrder

-----------------------------------------------------------------------------
(* Nowhere to be stuck. *)

\* Some station that runs is equipped for each operation of each route.
LineIsEquipped ==
  \A r \in Routes : \A i \in DOMAIN r :
    \E station \in Stations : station.active /\ r[i].def \in station.operations

\* On an equipped line a unit that accepts work and lacks a required operation is
\* always offered one, and a caller that starts it as the lifecycle asks is never
\* refused what the engine decides (resolve_operation, apply_disposition).
THEOREM NobodyIsStuck == LineIsEquipped /\ MovesToInProcess => (Spec => []NeverStuck)
<1> SUFFICES ASSUME LineIsEquipped, MovesToInProcess
             PROVE  Spec => []NeverStuck
  OBVIOUS
<1>1. ASSUME IInv
      PROVE  NeverStuck
  <2>1. ~refused
    BY <1>1 DEF IInv, NotRefused
  <2>2. ASSUME AcceptsWork(unit.state), ~IsComplete(route, completed)
        PROVE  \E station \in Stations :
                 ResolveOperation(route, unit, station, completed) # None
    <3>1. route \in Routes
      BY <1>1 DEF IInv, TypeOK
    <3>2. PICK i \in ReadyPositions(route, completed) : TRUE
      BY <2>2, <3>1, RoutesAreValid, ValidateMeansWalkable, MissingIsReady
    <3>3. i \in DOMAIN route
      BY <3>2 DEF ReadyPositions
    <3>4. PICK station \in Stations : station.active /\ route[i].def \in station.operations
      BY <3>1, <3>3 DEF LineIsEquipped
    <3> DEFINE can == {j \in ReadyPositions(route, completed) :
                         route[j].def \in station.operations}
    <3>5. i \in can /\ can \in SUBSET DOMAIN route /\ can \in SUBSET Nat
      BY <3>1, <3>2, <3>4, RoutesAreSound DEF ReadyPositions
    <3>6. Min(can) \in DOMAIN route
      <4> HIDE DEF can
      <4> QED  BY <3>5, MinIsLeast
    <3>7. route[Min(can)] # None
      BY <3>1, <3>6, NoneAssumption
    <3>8. ResolveOperation(route, unit, station, completed) = route[Min(can)]
      BY <2>2, <3>4, <3>5 DEF ResolveOperation
    <3> QED  BY <3>7, <3>8
  <2> QED  BY <2>1, <2>2 DEF NeverStuck
<1> QED  BY <1>1, Invariant, PTL
=============================================================================
