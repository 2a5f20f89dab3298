-------------------------------- MODULE Clock --------------------------------
(* The wall clock the background tasks of one service read. *)
EXTENDS Naturals

VARIABLE now

ClockInit == now = 1
Advance(end) == now < end /\ now' = now + 1
==============================================================================
