------------------------------- MODULE GatesMC -------------------------------
(* Contexts for Gates: one family per gate that looks at data. *)
EXTENDS Gates

Route1(gates, path) ==
  <<[seq |-> 10, def |-> 1, requirement |-> "REQUIRED", predecessors |-> <<>>,
     gates |-> gates \cup {[kind |-> "INTERLOCK_OUT", device_id |-> "fixture"]},
     failure_path |-> path]>>

Paths == {[kind |-> "RETRY", max_attempts |-> 2], [kind |-> "QUARANTINE"],
          [kind |-> "SCRAP"], [kind |-> "REWORK", to_operation |-> 10, invalidates |-> {10}]}

Green(route, attempt) ==
  [unit |-> [uid |-> "this", state |-> "IN_PROCESS", index_in_job |-> 0],
   revision |-> [mark_method |-> "NONE", min_mark_grade |-> None],
   route |-> route, operation |-> route[1], required_skill |-> None,
   operator |-> None, completed |-> {}, scanned_identity |-> None,
   component_scans |-> {}, captured |-> <<>>, dcps |-> {}, test_verdicts |-> <<>>,
   mark_verification |-> None, attempt |-> attempt]

Base(gate) == {Green(Route1({gate}, p), a) : p \in Paths, a \in 1..3}
One(gate)  == Green(Route1({gate}, [kind |-> "QUARANTINE"]), 1)

Identity == {[c EXCEPT !.scanned_identity = s] :
               c \in Base([kind |-> "IDENTITY"]), s \in {"this", "other", None}}

Operators == {None} \cup [active : BOOLEAN, certifications : {{}, {"laser"}}]
Auth == {[One([kind |-> "OPERATOR_AUTH"]) EXCEPT !.operator = o, !.required_skill = s] :
           o \in Operators, s \in {None, "laser"}}

Scans == {[One([kind |-> "COMPONENT_VERIFY", bom_line_ids |-> {1, 2}])
             EXCEPT !.component_scans = s] : s \in SUBSET {1, 2, 3, None}}

Rules == {[kind |-> "EVERY"], [kind |-> "FIRST_OFF"], [kind |-> "EVERY_NTH", n |-> 0],
          [kind |-> "EVERY_NTH", n |-> 2]}
Bounds == [min : {1, None}, max : {2, None}]
Points == {{[id |-> 1, datatype |-> "NUMERIC", limits |-> l, sample_rule |-> r, mandatory |-> m],
            [id |-> 2, datatype |-> "TEXT", limits |-> [min |-> None, max |-> None],
             sample_rule |-> [kind |-> "EVERY"], mandatory |-> FALSE]} :
             l \in Bounds, r \in Rules, m \in BOOLEAN}
Values == {[datatype |-> "NUMERIC", n |-> n] : n \in 0..3} \cup
          {NaN, [datatype |-> "TEXT", text |-> "batch"]}
Readings == UNION {[1..n -> [dcp : {1, 2}, value : Values]] : n \in 0..2}
Captured == {[One([kind |-> "DATA_CAPTURE"]) EXCEPT
                !.unit.index_in_job = i, !.dcps = p, !.captured = r] :
               i \in 0..3, p \in Points, r \in Readings}

Tests == {[One([kind |-> "TEST_PASS", test_name |-> "leak"]) EXCEPT !.test_verdicts = v] :
            v \in {<<>>, [leak |-> "PASS"], [leak |-> "FAIL"], [hipot |-> "PASS"]}}

Marks == {[One([kind |-> "MARK_VERIFIED"]) EXCEPT
             !.revision = rev, !.mark_verification = v] :
            rev \in [mark_method : {"NONE", "LASER_DPM"}, min_mark_grade : {2, None}],
            v \in {None} \cup [decoded : {"this", "other"}, grade : {1, 2, 3, None}]}

Several == {[Green(Route1({[kind |-> "IDENTITY"], [kind |-> "PRECONDITION"],
                           [kind |-> "TEST_PASS", test_name |-> "leak"]}, p), a)
               EXCEPT !.scanned_identity = s, !.test_verdicts = v] :
              p \in Paths, a \in 1..3, s \in {"this", "other"},
              v \in {[leak |-> "PASS"], [leak |-> "FAIL"]}}

AllContexts == Identity \cup Auth \cup Scans \cup Captured \cup Tests \cup Marks \cup Several
=============================================================================
