------------------------------- MODULE LineMC -------------------------------
(* Small routes, stations and evidence for the runs of Line. *)
EXTENDS Line

Op(seq, requirement, predecessors, path) ==
  [seq |-> seq, def |-> seq, requirement |-> requirement,
   predecessors |-> predecessors, failure_path |-> path,
   gates |-> {[kind |-> "IDENTITY"], [kind |-> "PRECONDITION"],
              [kind |-> "TEST_PASS", test_name |-> "leak"],
              [kind |-> "INTERLOCK_OUT", device_id |-> "fixture"]}]

Retry(n)   == [kind |-> "RETRY", max_attempts |-> n]
Rework(to, inv) == [kind |-> "REWORK", to_operation |-> to, invalidates |-> inv]
Quarantine == [kind |-> "QUARANTINE"]
Scrap      == [kind |-> "SCRAP"]

\* Two branches, one with an optional step, and a join.
Diamond == <<Op(10, "REQUIRED", <<>>, Retry(2)),
             Op(20, "OPTIONAL", <<10>>, Retry(3)),
             Op(30, "REQUIRED", <<20>>, Quarantine),
             Op(40, "REQUIRED", <<10>>, Scrap),
             Op(50, "REQUIRED", <<30, 40, 30>>, Retry(0))>>

\* A rework loop back to the first operation, and one that voids its middle only.
Looping == <<Op(10, "REQUIRED", <<>>, Retry(2)),
             Op(20, "OPTIONAL", <<10>>, Rework(10, {10})),
             Op(30, "REQUIRED", <<20>>, Rework(20, {20})),
             Op(40, "REQUIRED", <<10, 30>>, Rework(10, {10, 20, 30}))>>

\* Every kind of failure path that leads nowhere back.
Retrying == <<Op(10, "REQUIRED", <<>>, Retry(2)),
              Op(20, "OPTIONAL", <<10>>, Scrap),
              Op(30, "REQUIRED", <<20, 10>>, Retry(3))>>

AllRoutes == {Diamond, Looping, Retrying}

\* One terminal for the whole route, two that duplicate operations, one retired.
AllStations ==
  {[active |-> TRUE, operations |-> {10, 20, 30, 40, 50}],
   [active |-> TRUE, operations |-> {30, 40}],
   [active |-> TRUE, operations |-> {20, 50}],
   [active |-> FALSE, operations |-> {10, 20, 30, 40, 50}]}

Gathered(scan, verdicts) ==
  [revision |-> [mark_method |-> "NONE", min_mark_grade |-> None],
   required_skill |-> None, operator |-> None, scanned_identity |-> scan,
   component_scans |-> {}, captured |-> <<>>, dcps |-> {},
   test_verdicts |-> verdicts, mark_verification |-> None]

SomeEvidence == {Gathered("unit", [leak |-> "PASS"]),
                 Gathered("unit", [leak |-> "FAIL"]),
                 Gathered(None, [leak |-> "PASS"])}
=============================================================================
