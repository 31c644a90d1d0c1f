---------------------------- MODULE DurableQueue ----------------------------
(***************************************************************************)
(* What the offline spool promises a station: a record that was reported   *)
(* captured stays in the queue until the edge has it.  Records whose       *)
(* capture was never reported may come and go.  A tear, a line the power   *)
(* or a full disk cut short, may cost one record that is then reported     *)
(* without being there.                                                    *)
(***************************************************************************)
EXTENDS Naturals, FiniteSets

CONSTANT Records

VARIABLES
  waiting,    \* the records a load returns
  captured,   \* the records reported as captured
  delivered,  \* the records the edge has
  tears       \* how often a line was cut short

vars == <<waiting, captured, delivered, tears>>

Init == waiting = {} /\ captured = {} /\ delivered = {} /\ tears = 0

Keeps(r) == r \in waiting => r \in waiting'

Change ==
  /\ waiting' \subseteq Records
  /\ \A r \in captured \ delivered : Keeps(r)
  /\ waiting' \cap captured \subseteq waiting
  /\ tears' \in {tears, tears + 1}
  /\ UNCHANGED <<captured, delivered>>

Lost == captured \ (waiting \cup delivered)

Report ==
  /\ \E r \in Records : captured' = captured \cup {r}
  /\ Cardinality(Lost') <= tears
  /\ UNCHANGED <<waiting, delivered, tears>>

Deliver ==
  /\ \E r \in waiting : delivered' = delivered \cup {r}
  /\ UNCHANGED <<waiting, captured, tears>>

Next == Change \/ Report \/ Deliver

Spec == Init /\ [][Next]_vars
=============================================================================
