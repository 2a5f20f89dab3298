---------------------------- MODULE MCTosAvail ----------------------------
(* TosAvail for TLC; the constants are given by MCAvail.cfg.  The runs of  *)
(* the collector are interchangeable.                                      *)
EXTENDS TosAvail

Symm == Permutations(Collectors)
=============================================================================
