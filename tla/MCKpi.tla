-------------------------------- MODULE MCKpi --------------------------------
(* The waiting-crane KPI on its own, over a little more than one and a half *)
(* business dates.                                                          *)
EXTENDS WaitKpi

Starved == [working |-> TRUE, pos |-> TRUE, idle |-> TRUE, topos |-> TRUE, gps |-> TRUE,
            pend |-> TRUE, active |-> TRUE, near |-> 0]
MCScenes == {[c \in Qcs |-> Starved], [c \in Qcs |-> [Starved EXCEPT !.gps = FALSE]]}
==============================================================================
