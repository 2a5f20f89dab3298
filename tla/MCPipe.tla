------------------------------- MODULE MCPipe -------------------------------
(* KpiPipeline for TLC.  A behaviour exercises the ticks of one tier together *)
(* with the nightly run and its failures, or the commands given by hand with  *)
(* no failure; the two tiers write different KPIs.  Only the second tier is    *)
(* ever read from the TOS, and the first has moves of one of its two KPIs.     *)
EXTENDS KpiPipeline

VARIABLE part

Init == ClockInit /\ PipeInit /\ part \in {"t1", "t2", "manual"}

Tier == IF part = "t1" THEN "t1" ELSE "t2"
OtherTier == IF part = "t1" THEN "t2" ELSE "t1"

Only(c) ==
    /\ cmds'[OtherTier] = cmds[OtherTier]
    /\ \A k \in Kpis : (k = "empty") = (c = "t2") \/ landed'[k] = landed[k]
    /\ c = "t1" => landed'["util"] = {} \/ landed'["mph"] = {}

Next ==
    /\ PipeNext /\ UNCHANGED part
    /\ Only(Tier)
    /\ IF part = "manual" THEN pipeFaults' = pipeFaults /\ night' = night ELSE manual' = manual
    /\ part = "t2" \/ \A c \in Commands : cmds'[c].src = "local"

Spec ==
    /\ Init /\ [][Next]_<<now, part, pipeVars>>
    /\ WF_<<now, part, pipeVars>>(PipeClock /\ UNCHANGED part)
    /\ WF_<<now, part, pipeVars>>(ShiftUnit(Tier) /\ UNCHANGED part)
=============================================================================
