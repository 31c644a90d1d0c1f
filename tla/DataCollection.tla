---------------------------- MODULE DataCollection ----------------------------
(***************************************************************************)
(* Data collection points (crates/trace-core/src/dcp.rs) and the columns a *)
(* value is stored in (crates/trace-store/src/repo.rs).  Pure.             *)
(*                                                                         *)
(* A value is [datatype, n] when it is a number, [datatype, text] or       *)
(* [datatype, flag] otherwise.  A point is                                 *)
(* [id, datatype, limits, sample_rule, mandatory], its limits [min, max];  *)
(* label, unit and nominal value are wording.                              *)
(***************************************************************************)
EXTENDS Integers

CONSTANT None   \* an absent Option

\* enum Value: a number, a text or a barcode, or a truth value.
IsValue(v) ==
  \/ v.datatype = "NUMERIC"
  \/ /\ v.datatype \in {"TEXT", "BARCODE"} /\ v.text # None
     /\ v = [datatype |-> v.datatype, text |-> v.text]
  \/ /\ v.datatype = "BOOLEAN" /\ v.flag # None
     /\ v = [datatype |-> v.datatype, flag |-> v.flag]

\* The reading of a broken instrument: numeric, and in no order with anything.
NaN == [datatype |-> "NUMERIC", nan |-> TRUE]

-----------------------------------------------------------------------------
\* SampleRule::applies_to; EveryNth(0) is every unit.
AppliesTo(rule, index) ==
  \/ rule.kind = "EVERY"
  \/ rule.kind = "FIRST_OFF" /\ index = 0
  \/ rule.kind = "EVERY_NTH" /\ (rule.n = 0 \/ index % rule.n = 0)

\* Mutant: a one-sided limit is taken for none.
IsBounded_Both(limits) == limits.min # None /\ limits.max # None

\* Limits::accepts: both bounds inclusive, each optional.
Accepts(limits, value) ==
  /\ value # NaN
  /\ limits.min = None \/ value.n >= limits.min
  /\ limits.max = None \/ value.n <= limits.max

IsBounded(limits) == limits.min # None \/ limits.max # None

\* DataCollectionPoint::evaluate: a value of another datatype is an error, and
\* not the unit's fault; only a number with a limit is judged.
Evaluate(point, value) ==
  IF value.datatype # point.datatype THEN "MISMATCH"
  ELSE IF /\ value.datatype = "NUMERIC"
          /\ IsBounded(point.limits)
          /\ ~Accepts(point.limits, value)
       THEN "FAIL"
       ELSE "PASS"

-----------------------------------------------------------------------------
\* The columns append_measurement stores a value in: one is not null.
Columns(value) ==
  [datatype |-> value.datatype,
   num  |-> IF value.datatype = "NUMERIC" THEN value ELSE None,
   text |-> IF value.datatype \in {"TEXT", "BARCODE"} THEN value.text ELSE None,
   flag |-> IF value.datatype = "BOOLEAN" THEN value.flag ELSE None]

\* Mutant: a barcode is read from a column of its own.
ValueFromColumns_Strict(c) ==
  CASE c.datatype = "NUMERIC" -> c.num
    [] c.datatype = "TEXT" /\ c.text # None -> [datatype |-> c.datatype, text |-> c.text]
    [] c.datatype = "BOOLEAN" /\ c.flag # None -> [datatype |-> c.datatype, flag |-> c.flag]
    [] OTHER -> None

\* value_from_columns: None for a decoding error.
ValueFromColumns(c) ==
  CASE c.datatype = "NUMERIC" -> c.num
    [] c.datatype \in {"TEXT", "BARCODE"} /\ c.text # None ->
         [datatype |-> c.datatype, text |-> c.text]
    [] c.datatype = "BOOLEAN" /\ c.flag # None ->
         [datatype |-> c.datatype, flag |-> c.flag]
    [] OTHER -> None
=============================================================================
