----------------------------- MODULE MCWakeLoop -----------------------------
(* WakeLoop for TLC; the constants are given by MCWake.cfg.                *)
EXTENDS WakeLoop
=============================================================================
