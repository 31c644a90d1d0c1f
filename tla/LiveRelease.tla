---------------------------- MODULE LiveRelease ----------------------------
(***************************************************************************)
(* What an update promises the line that keeps running: what `current`     *)
(* resolves to goes from one whole release to another in one step, never   *)
(* through nothing and never through part of one.                          *)
(***************************************************************************)
CONSTANTS Versions, None

VARIABLE live   \* None, or a version and how much of it is there

Whole(v) == <<v, "complete">>

Init == live = None \/ \E v \in Versions : live = Whole(v)

Switch == \E v \in Versions : live' = Whole(v)

Spec == Init /\ [][Switch]_live
=============================================================================
