----------------------------- MODULE RouteSimMC -----------------------------
(* Scenarios for RouteSim. *)
EXTENDS RouteSim, SequencesExt

EveryGate == {[kind |-> "IDENTITY"], [kind |-> "OPERATOR_AUTH"], [kind |-> "PRECONDITION"],
          [kind |-> "COMPONENT_VERIFY", bom_line_ids |-> {7}],
          [kind |-> "INTERLOCK_OUT", device_id |-> "fixture"]}

Op(seq, requirement, predecessors, path) ==
  [seq |-> seq, def |-> 100 + seq, requirement |-> requirement,
   predecessors |-> predecessors, gates |-> EveryGate, failure_path |-> path]

Everything == [active |-> TRUE, operations |-> 101..104]
Serves(ops) == [active |-> TRUE, operations |-> {100 + o : o \in ops}]
Retired == [active |-> FALSE, operations |-> 101..104]

Input(scanned, scans) ==
  [identity_scanned |-> scanned, component_scans |-> scans, captured |-> <<>>,
   test_verdicts |-> <<>>, mark_verification |-> None]
GoodInput == Input(TRUE, {7})
BadInputs  == {Input(FALSE, {7}), Input(TRUE, {7, None}), Input(TRUE, {})}

Scenario(route, defs, stations, inputs) ==
  [route |-> route, defs |-> [d \in {100 + o : o \in defs} |-> IF d = 102 THEN "laser" ELSE None],
   stations |-> stations, operator |-> [active |-> TRUE, certifications |-> {"laser"}],
   revision |-> [mark_method |-> "NONE", min_mark_grade |-> None],
   inputs |-> inputs, dcps |-> <<>>]

AllGood == [s \in 1..4 |-> GoodInput]

\* Shapes of three operations, with unknown, repeated and duplicate keys.
PredecessorLists == {<<>>, <<1>>, <<2>>, <<3>>, <<1, 2>>, <<2, 2>>, <<3, 1>>, <<9>>}
Keys == {<<1, 2, 3>>, <<2, 3, 1>>, <<1, 1, 2>>}
Needs == {<<"REQUIRED", "REQUIRED", "REQUIRED">>, <<"REQUIRED", "OPTIONAL", "REQUIRED">>}
Shapes3 == {[i \in 1..3 |-> Op(k[i], n[i], p[i], [kind |-> "QUARANTINE"])] :
              k \in Keys, n \in Needs, p \in [1..3 -> PredecessorLists]}

\* Every directed graph over four operations, self-loops aside.
Graphs4 == {[i \in 1..4 |-> Op(i, "REQUIRED", SetToSeq({j \in 1..4 : <<j, i>> \in e}),
                               [kind |-> "QUARANTINE"])] :
              e \in SUBSET {<<j, i>> \in (1..4) \X (1..4) : i # j}}

Afters == {[kind |-> "RETRY", max_attempts |-> 2], [kind |-> "RETRY", max_attempts |-> 1],
          [kind |-> "REWORK", to_operation |-> 1, invalidates |-> {1}], [kind |-> "SCRAP"]}
SmallRoutes == {<<Op(1, "REQUIRED", <<>>, p), Op(2, n, <<1>>, p), Op(3, "REQUIRED", <<2>>, p)>> :
                  n \in {"REQUIRED", "OPTIONAL"}, p \in Afters}
StationLists == {<<Everything>>, <<Serves({3}), Retired, Serves({1}), Serves({2})>>,
                 <<Serves({1}), Serves({2})>>, <<Retired>>, <<>>}
InputSets == {[s \in 1..3 |-> GoodInput]} \cup {[s \in 1..2 |-> GoodInput]}
               \cup {[[q \in 1..3 |-> GoodInput] EXCEPT ![s] = b] : s \in 1..3, b \in BadInputs}

ShapeScenarios == {Scenario(r, 1..4, <<Everything>>, AllGood) : r \in Shapes3 \cup Graphs4 \cup {<<>>}}
RunScenarios == {Scenario(r, d, st, i) : r \in SmallRoutes, d \in {1..3, {1, 3}},
                                         st \in StationLists, i \in InputSets}
AllScenarios == ShapeScenarios \cup RunScenarios
=============================================================================
