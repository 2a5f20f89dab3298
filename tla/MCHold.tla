------------------------------- MODULE MCHold -------------------------------
(* DispatchHold for TLC.  A behaviour of the first two parts has one list     *)
(* about one box, so no swaps, and either a fault at any step, over a clock   *)
(* that reaches a list newer than an order, or, over a shorter one, two       *)
(* events that are records of any kind, which land late and between the reads *)
(* of a tick, or one of them and a fault.  One of the third part has two      *)
(* lists of two boxes, which both trucks carry or none, and a fault.          *)
EXTENDS MCDispatchHold

VARIABLE part

MCInit == Init /\ part \in {"fault", "late", "swap"}

Events == lands.record + faults

Named(l) == {l.q[t] : t \in DOMAIN l.q} \cup l.work

MCLandList ==
    /\ part = "swap" \/ lands.list = 0
    /\ LandList
    /\ IF part = "swap"
       THEN /\ DOMAIN list'.q \in {{}, Trucks}
            /\ \A t \in DOMAIN list'.dis : list'.dis[t] = clock
       ELSE Cardinality(Named(list')) <= 1

LandRecord == LandPicked \/ LandFree \/ OpenAvail \/ CloseAvail \/ AnchorStale

\* A stamp that is read too late by ReadErr = Margin releases an older order; the
\* third part has no other reading.
LatestStamp == as_of' \in {as_of, NoTime, list.stamped + ReadErr}

MCNext ==
    /\ UNCHANGED part
    /\ \/ Step /\ Events' <= 2 /\ (part = "swap" => LatestStamp)
       \/ (part = "fault" \/ clock = 0) /\ Tick
       \/ StampList \/ FailList \/ MCLandList
       \/ part = "late" /\ LandRecord /\ Events' <= 2
       \/ Restart /\ Events' <= 2

MCSpec == MCInit /\ [][MCNext]_<<vars, part>>
=============================================================================
