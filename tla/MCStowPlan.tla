----------------------------- MODULE MCStowPlan -----------------------------
(* StowPlan for TLC: two voyages, of which one is served at a time; two boxes *)
(* of the second one, of which one is in the plan at the beginning.           *)
EXTENDS StowPlan

CONSTANTS c1, c2

MCPlanBoxes == {<<2, c1>>, <<2, c2>>}

MCInit == ClockInit /\ StowInit /\ active = {2} /\ \A b \in PlanBoxes : plan[b].on = (b[2] = c1)

Spec == MCInit /\ [][StowNext]_<<now, stowVars>> /\ StowFairness
=============================================================================
