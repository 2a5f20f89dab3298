------------------------------- MODULE MCPool -------------------------------
(* PoolLanding for TLC: two boxes of two voyages that are twins of each other. *)
EXTENDS PoolLanding

CONSTANTS b1, b2

MCTwins == {{b1, b2}}
MCVoyageOf == [b \in Orders |-> IF b = b1 THEN 1 ELSE 2]

\* PoolSpec, its two initial predicates named as one.
Init == ClockInit /\ PoolInit
Spec == Init /\ [][PoolNext]_<<now, poolVars>> /\ PoolFairness
=============================================================================
