------------------------------ MODULE StationMC ------------------------------
(* The drivers and the marking of a station.  They share no state: a       *)
(* behaviour is one of the drivers with the marking at rest or one of the  *)
(* marking with the drivers at rest.  Two units have labels, one of them   *)
(* with control characters in its serial, one has no serial, and one laser *)
(* marks two parts.                                                        *)
EXTENDS Devices, Marking

\* The reference label, with a border and a code for the identity.
Sticker ==
  [DemoSticker EXCEPT !.elements = @ \o
     <<[type |-> "BOX", x |-> 0, y |-> 0, value |-> <<>>],
       [type |-> "BARCODE", x |-> 300, y |-> 20,
        value |-> <<[kind |-> "binding", text |-> "unit.uid"]>>]>>]

OfJob(uid) == "unit.uid" :> <<uid, "1">> @@ "unit.trace_url" :> <<"/t/", uid>>
                @@ "product.model" :> <<"M">> @@ "job.number" :> <<"J">>
Bindings ==
  [plain   |-> OfJob("A") @@ "unit.serial" :> <<"S1">>,
   control |-> OfJob("B") @@ "unit.serial" :> <<"S", "^", "\n", "2">>,
   blank   |-> OfJob("C"),
   laser   |-> OfJob("D") @@ "unit.serial" :> <<"S4">>,
   other   |-> OfJob("E") @@ "unit.serial" :> <<"S5">>]
Methods == [plain |-> "LABEL", control |-> "LABEL", blank |-> "LABEL",
            laser |-> "LASER_DPM", other |-> "LASER_DPM"]
Together == {{"plain", "control"}, {"plain", "blank"}, {"laser", "other"}}
Wrong == {None, <<"D", "1">>}

-----------------------------------------------------------------------------
VARIABLE acts   \* whose behaviour it is

AtRest == shift = {"plain", "blank"} /\ marker.corrupt_as = None /\ ~marker.fault

MCInit ==
  /\ acts \in {"drivers", "marking"} /\ Init /\ MarkingInit
  /\ acts = "drivers" => AtRest

MCNext ==
  /\ UNCHANGED acts
  /\ \/ acts = "drivers" /\ Next /\ UNCHANGED markingVars
     \/ acts = "marking" /\ MarkingNext /\ UNCHANGED vars

MCSpec ==
  /\ MCInit /\ [][MCNext]_<<acts, vars, markingVars>>
  /\ WF_vars(acts = "drivers" /\ Step)
=============================================================================
