-------------------------------- MODULE Unit --------------------------------
(***************************************************************************)
(* The lifecycle of a traced unit (crates/trace-core/src/unit.rs): its     *)
(* states and the transitions `transition_to` allows.  Pure.               *)
(***************************************************************************)

UnitStates == {"BORN", "MARKED", "IN_PROCESS", "HELD", "QUARANTINED",
               "REWORKING", "COMPLETED", "SHIPPED", "SCRAPPED"}

\* accepts_work: whether a station may work on the unit right now.
AcceptsWork(state) == state \in {"BORN", "MARKED", "IN_PROCESS", "REWORKING"}

\* can_transition_to, a row per state.
Successors ==
  [BORN        |-> {"MARKED", "IN_PROCESS", "QUARANTINED", "HELD", "SCRAPPED"},
   MARKED      |-> {"IN_PROCESS", "QUARANTINED", "HELD", "SCRAPPED"},
   IN_PROCESS  |-> {"IN_PROCESS", "COMPLETED", "QUARANTINED", "HELD",
                    "REWORKING", "SCRAPPED"},
   REWORKING   |-> {"IN_PROCESS", "QUARANTINED", "HELD", "SCRAPPED"},
   QUARANTINED |-> {"REWORKING", "IN_PROCESS", "SCRAPPED", "HELD"},
   HELD        |-> {"IN_PROCESS", "REWORKING", "QUARANTINED", "SCRAPPED"},
   COMPLETED   |-> {"SHIPPED", "QUARANTINED", "REWORKING", "SCRAPPED"},
   SHIPPED     |-> {"QUARANTINED", "SCRAPPED"},
   SCRAPPED    |-> {}]

\* Mutant: rework only after a quarantine.
CanTransitionTo_Quarantined(state, next) ==
  next \in Successors[state] /\ (next = "REWORKING" => state = "QUARANTINED")

CanTransitionTo(state, next) == next \in Successors[state]

\* transition_to: Ok moves the unit, any error (RetiredUid, IllegalTransition)
\* leaves it where it is.
TransitionTo(state, next) == IF CanTransitionTo(state, next) THEN next ELSE state
=============================================================================
