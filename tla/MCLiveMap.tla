------------------------------ MODULE MCLiveMap ------------------------------
(* The live map and its background tasks.  They share the clock and the map; *)
(* none reads what another one of a different part writes, so a behaviour    *)
(* exercises one part: the record of one truck, the cycle tables with one of *)
(* their readers, one writer of positions, the waiting-crane KPI, one        *)
(* recorder of trips, or the hook of a crane.                                *)
EXTENDS TruckCycle, CycleTables, LiveFeed, WaitKpi, TripLog, CranePlc

CONSTANTS k1, k2       \* two places of a block
VARIABLE part

MCRoutes == {<<k1, k2>>, <<k2, k1>>}

\* One truck: two bays of a block, one crane, two boxes.  topos1 and the job come
\* with assignments, the rest of the messages omit them.
MCBlockOf == [x \in {"07F-06", "07F-21"} |-> "07F"]

Drive == [c1 |-> "none", c2 |-> "none", topos |-> "none", job |-> "none",
          arrived |-> FALSE, moving |-> TRUE, step |-> 2, loc |-> "none",
          near |-> 0, plc |-> FALSE, arr |-> {}]
Stop  == [Drive EXCEPT !.moving = FALSE, !.step = 0]
Yard  == [Stop EXCEPT !.loc = "07F", !.arrived = TRUE]
Quay  == [Stop EXCEPT !.loc = "WHARF", !.near = 1]
Crane == [Quay EXCEPT !.arrived = TRUE, !.near = 2, !.plc = TRUE, !.arr = {1}]

Carrying(m, box) == [m EXCEPT !.c1 = box]
Assign(m, t, j) == [m EXCEPT !.topos = t, !.job = j]

MCMessages ==
    {Carrying(m, b) : m \in {Drive, Yard, Crane}, b \in {"none", "A"}}
    \cup {Carrying(Quay, "A"), Carrying([Drive EXCEPT !.step = 9], "A")}
    \cup {Assign(Drive, "07F-06", "LD"), Assign(Carrying(Drive, "A"), "C1", "LD"),
          Assign(Drive, "C1", "DS"), Assign(Carrying(Yard, "A"), "07F-21", "DS")}
    \cup {[Drive EXCEPT !.c1 = "A", !.c2 = "B"], [Drive EXCEPT !.c1 = "B", !.c2 = "A"],
          [Drive EXCEPT !.c2 = "B"], [Drive EXCEPT !.c1 = "B"]}

\* Idle cranes with work left: no truck near it; a truck near it.
Starved == [working |-> TRUE, pos |-> TRUE, idle |-> TRUE, topos |-> TRUE, gps |-> TRUE,
            pend |-> TRUE, active |-> TRUE, near |-> 0]
MCScenes == {[c \in Qcs |-> Starved],
             [c \in Qcs |-> [Starved EXCEPT !.gps = FALSE, !.active = FALSE]]}

\* A loaded truck at its block with a yard crane next to it, and variations.
AtBlock == [c1 |-> "A", latched |-> "A", order |-> "A", topos |-> "07F",
            ltopos |-> "07F", job |-> "DS", moving |-> FALSE, flag |-> TRUE, fence |-> FALSE,
            rtg |-> TRUE, wp |-> "tight", routed |-> TRUE, pos |-> 2]
MCViews ==
    {AtBlock,
     [AtBlock EXCEPT !.rtg = FALSE, !.flag = FALSE, !.fence = TRUE],
     [AtBlock EXCEPT !.moving = TRUE, !.flag = FALSE, !.pos = 1, !.wp = "away"],
     [AtBlock EXCEPT !.job = "LD"],
     [AtBlock EXCEPT !.c1 = "none", !.latched = "none", !.order = "none", !.topos = "none",
                     !.ltopos = "none"],
     [AtBlock EXCEPT !.c1 = "B", !.latched = "B", !.topos = "C1", !.job = "LD"],
     [AtBlock EXCEPT !.c1 = "none", !.moving = TRUE, !.topos = "C1",
                     !.routed = FALSE, !.wp = "unknown"]}

TablesParts == {"trip", "label", "pickup"}
FeedParts == {"hif", "rtg", "pos"}
TripParts == {"soon", "arr", "match"}

CycleStep ==
    /\ part = "cycle" /\ CycleNext
    /\ UNCHANGED <<part, tablesVars, feedVars, kpiVars, tripVars, plcVars>>

TablesStep ==
    /\ part \in TablesParts /\ TablesNext
    /\ part = "trip" \/ (trips' = trips /\ \A c \in cycles' : c.pick = k1)
    /\ part = "label" \/ snaps' = snaps
    /\ IF part = "pickup" THEN Cardinality(cycles') <= 2 ELSE crane' = crane
    /\ UNCHANGED <<part, cycleVars, feedVars, kpiVars, tripVars, plcVars>>

Mover == CHOOSE d \in TTs : TRUE     \* the truck that drives, the others stand

FeedStep ==
    /\ part \in FeedParts /\ FeedNext
    /\ \A task \in DOMAIN done : task = part \/ done'[task] = done[task]
    /\ \A d \in DOMAIN devices : (d \in RTGs) = (part = "rtg") \/ devices'[d] = devices[d]
    /\ \A d \in TTs \ {Mover} : devices'[d].place = NoFix.place
    /\ UNCHANGED <<part, cycleVars, tablesVars, kpiVars, tripVars, plcVars>>

KpiStep ==
    /\ part = "kpi" /\ KpiNext
    /\ UNCHANGED <<part, cycleVars, tablesVars, feedVars, tripVars, plcVars>>

TripStep ==
    /\ part \in TripParts /\ TripNext
    /\ part = "soon" \/ soonVars' = soonVars
    /\ part = "arr" \/ arrVars' = arrVars
    /\ part = "match" \/ mmVars' = mmVars
    /\ UNCHANGED <<part, cycleVars, tablesVars, feedVars, kpiVars, plcVars>>

PlcStep ==
    /\ part = "plc" /\ PlcNext
    /\ UNCHANGED <<part, cycleVars, tablesVars, feedVars, kpiVars, tripVars>>

Init ==
    /\ part \in {"cycle", "kpi", "plc"} \cup TablesParts \cup FeedParts \cup TripParts
    /\ IF part = "cycle" THEN now = Start ELSE ClockInit
    /\ CycleInit /\ TablesInit /\ FeedInit /\ KpiInit /\ TripInit /\ PlcInit

Next == CycleStep \/ TablesStep \/ FeedStep \/ KpiStep \/ TripStep \/ PlcStep

Spec == Init /\ [][Next]_<<now, part, cycleVars, tablesVars, feedVars, kpiVars, tripVars, plcVars>>
==============================================================================
