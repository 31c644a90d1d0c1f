------------------------------- MODULE Route -------------------------------
(***************************************************************************)
(* A route (crates/trace-core/src/route.rs): the DAG of operations a unit  *)
(* goes through.  A route is the sequence of its operations, in the order  *)
(* of its `operations` vector.  This module is pure: it holds no variable  *)
(* and is used by the engine, the line and the dry-run simulator.          *)
(*                                                                         *)
(* An operation is a record with the fields of RouteOperation that decide  *)
(* something:                                                              *)
(*   seq           its key within the route                                *)
(*   def           the operation template a station is equipped for        *)
(*   requirement   "REQUIRED" or "OPTIONAL"                                *)
(*   predecessors  the sequence of the seqs it lists (it may repeat one)   *)
(*   gates         the set of its gates, records with a field `kind`       *)
(*   failure_path  a record with a field `kind`, see FailurePaths          *)
(***************************************************************************)
EXTENDS Integers, Sequences, FiniteSets, FiniteSetsExt

\* The seqs a route defines: `seen` once every operation has been inserted.
Seqs(route) == {route[i].seq : i \in DOMAIN route}

\* The predecessors an operation lists, without their order.
Predecessors(op) == {op.predecessors[k] : k \in DOMAIN op.predecessors}

\* Where the operation `operation(seq)` finds is: the first with that seq.
Position(route, seq) == Min({i \in DOMAIN route : route[i].seq = seq})

Operation(route, seq) == route[Position(route, seq)]

-----------------------------------------------------------------------------
(* Readiness: what the unit could work on next. *)

\* Mutant: one finished predecessor is taken for all of them.
PredecessorsSatisfied_Any(route, op, completed) ==
  op.predecessors = <<>> \/ \E p \in Predecessors(op) : p \in completed

\* predecessors_satisfied: an optional predecessor does not block, an unknown
\* one does.
PredecessorsSatisfied(route, op, completed) ==
  \A p \in Predecessors(op) :
    \/ p \in completed
    \/ p \in Seqs(route) /\ Operation(route, p).requirement = "OPTIONAL"

\* Mutant: what is completed is offered again.
ReadyPositions_Again(route, completed) ==
  {i \in DOMAIN route : PredecessorsSatisfied(route, route[i], completed)}

\* ready_operations, as the set of the positions it keeps; the vector the code
\* returns lists them in increasing order.
ReadyPositions(route, completed) ==
  {i \in DOMAIN route :
     /\ route[i].seq \notin completed
     /\ PredecessorsSatisfied(route, route[i], completed)}

\* Mutant: as many completions as there are required operations.
IsComplete_Count(route, completed) ==
  Cardinality(completed) >=
    Cardinality({i \in DOMAIN route : route[i].requirement = "REQUIRED"})

\* is_complete: every required operation is done.
IsComplete(route, completed) ==
  \A i \in DOMAIN route :
    route[i].requirement = "REQUIRED" => route[i].seq \in completed

-----------------------------------------------------------------------------
(* Validation, run once when a route is loaded. *)

\* Mutant: a predecessor listed twice is taken off once.
Edges_Once(route, seq, next) ==
  IF seq \in Predecessors(Operation(route, next)) THEN 1 ELSE 0

\* How often `next` appears in the successors of `seq` in assert_acyclic: once
\* for each time it lists seq as a predecessor.
Edges(route, seq, next) ==
  LET op == Operation(route, next)
  IN  Cardinality({k \in DOMAIN op.predecessors : op.predecessors[k] = seq})

\* assert_acyclic before its loop: the queue holds the operations that list nothing.
\* It is kept as the set of what waits in it: a node enters once, and which of them
\* is popped first decides nothing (RouteProofs, for any choice).
KahnStart(route) ==
  [indegree |-> [s \in Seqs(route) |-> Len(Operation(route, s).predecessors)],
   queue    |-> {s \in Seqs(route) : Operation(route, s).predecessors = <<>>},
   visited  |-> 0]

\* One turn of the loop: pop a node, take its edges off its successors, queue those
\* left without any.
KahnStep(route, k) ==
  IF k.queue = {} THEN k
  ELSE LET seq  == CHOOSE s \in k.queue : TRUE
           left == [s \in Seqs(route) |-> k.indegree[s] - Edges(route, seq, s)]
       IN [indegree |-> left,
           queue    |-> (k.queue \ {seq})
                          \cup {s \in Seqs(route) : k.indegree[s] > 0 /\ left[s] = 0},
           visited  |-> k.visited + 1]

\* assert_acyclic, for a route whose seqs are distinct: every node gets visited.
\* Len(route) turns empty the queue.
AssertAcyclic(route) ==
  LET turn[n \in 0..Len(route)] ==
        IF n = 0 THEN KahnStart(route) ELSE KahnStep(route, turn[n - 1])
  IN  turn[Len(route)].visited = Len(route)

\* validate: the checks in the order of the code; the first that fails refuses.
\* Nothing is asked of the operations a failure path names.
Validate(route) ==
  /\ route # <<>>
  /\ Cardinality(Seqs(route)) = Len(route)
  /\ \A i \in DOMAIN route :
       /\ route[i].seq \notin Predecessors(route[i])
       /\ Predecessors(route[i]) \subseteq Seqs(route)
  /\ \E i \in DOMAIN route : route[i].predecessors = <<>>
  /\ AssertAcyclic(route)

-----------------------------------------------------------------------------
(* What a route is made of. *)

GateKinds == {"IDENTITY", "OPERATOR_AUTH", "PRECONDITION", "COMPONENT_VERIFY",
              "DATA_CAPTURE", "TEST_PASS", "MARK_VERIFIED", "INTERLOCK_OUT"}

\* Gate::is_output: the interlock is an effect, not an entry condition.
IsOutput(gate) == gate.kind = "INTERLOCK_OUT"

\* FailurePath over given operations: where a unit goes when a gate fails.
FailurePaths(seqs, attempts) ==
  [kind : {"RETRY"}, max_attempts : attempts]
    \cup [kind : {"REWORK"}, to_operation : seqs, invalidates : SUBSET seqs]
    \cup [kind : {"QUARANTINE", "SCRAP"}]

\* A route before it is validated: what its types say of it.
IsRoute(route) ==
  /\ route \in Seq({route[i] : i \in DOMAIN route})
  /\ \A i \in DOMAIN route :
       /\ route[i].seq \in Nat
       /\ route[i].requirement \in {"REQUIRED", "OPTIONAL"}
       /\ route[i].predecessors \in Seq(Nat)
       /\ \A gate \in route[i].gates : gate.kind \in GateKinds
       /\ route[i].failure_path \in FailurePaths(Nat, Nat)

\* Routes that can be walked at all: distinct seqs, predecessors that exist,
\* and an order in which every operation comes after those it lists.
Walkable(route) ==
  /\ route # <<>>
  /\ \A i, j \in DOMAIN route : route[i].seq = route[j].seq => i = j
  /\ \A i \in DOMAIN route : Predecessors(route[i]) \subseteq Seqs(route)
  /\ \E rank \in [DOMAIN route -> DOMAIN route] :
       \A i, j \in DOMAIN route :
         route[i].seq \in Predecessors(route[j]) => rank[i] < rank[j]
=============================================================================
