---------------------------- MODULE MCMoveStream ----------------------------
(* MoveStream for TLC; the constants are given by MCStream*.cfg.           *)
EXTENDS MoveStream
=============================================================================
