------------------------------ MODULE EngineMC ------------------------------
(* The runs of route-sim and single calls of the engine.  They share no    *)
(* state: a behaviour is a run with no call made or a call with no run     *)
(* begun.                                                                  *)
EXTENDS RouteSimMC, GatesMC

VARIABLE acts   \* whose behaviour it is

\* Where the other one rests.
AScenario == Scenario(<<>>, 1..4, <<Everything>>, AllGood)
AContext  == One([kind |-> "TEST_PASS", test_name |-> "leak"])

MCInit ==
  \/ acts = "route-sim" /\ ctx = AContext /\ CallInit /\ Init
  \/ acts = "engine" /\ scenario = AScenario /\ Init /\ CallInit

MCNext ==
  /\ UNCHANGED acts
  /\ \/ acts = "route-sim" /\ Next /\ UNCHANGED callVars
     \/ acts = "engine" /\ Call /\ UNCHANGED vars

MCSpec == MCInit /\ [][MCNext]_<<acts, vars, callVars>>
=============================================================================
