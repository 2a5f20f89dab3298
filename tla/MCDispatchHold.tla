--------------------------- MODULE MCDispatchHold ---------------------------
(* DispatchHold for TLC; the constants are given by MCHold*.cfg.  Trucks   *)
(* and boxes are interchangeable.                                          *)
EXTENDS DispatchHold, TLC

Symm == Permutations(Trucks) \cup Permutations(Boxes)
=============================================================================
