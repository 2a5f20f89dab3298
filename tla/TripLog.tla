------------------------------- MODULE TripLog -------------------------------
(***************************************************************************)
(* What the live map records of a truck's trips (livemap.rs), for one truck *)
(* (the tasks keep one entry per truck):                                    *)
(*   spawn_soon_idle_logger   every 30 s, the first time of a trip that     *)
(*       classify_tt says soon_idle (tt_soon_idle_pred) or wait_rtg         *)
(*       (tt_soon_idle_nearmiss);                                           *)
(*   spawn_wp_arrival_logger  every 5 s, the first time of a trip that the  *)
(*       truck stands at its own drop work point (tt_wp_arrival);           *)
(*   spawn_mapmatch_shadow    every 5 s, the progress on the road to the    *)
(*       truck's target, one row per leg (mm_arrival_shadow).               *)
(***************************************************************************)
EXTENDS Integers, Sequences, FiniteSets, Clock

CONSTANTS
    Views,          \* what the live map may hold of the truck (see View)
    Boxes, Targets,
    CraneTargets,   \* the targets that are quay cranes
    TripStale,      \* STALE_AFTER_S: 120 s
    TripLost,       \* 600 s after which the map matcher gives a truck up
    MinLeg,         \* 20 s, the shortest leg recorded
    Route,          \* length of a route, in steps
    TripEnd,        \* bound on the clock
    MaxTripRuns     \* bound on the processes

ASSUME TripAssumption ==
    /\ {TripStale, TripLost, MinLeg, Route, TripEnd, MaxTripRuns} \subseteq Nat
    /\ TripStale < TripLost /\ Route > 0 /\ CraneTargets \subseteq Targets

VARIABLES
    truck,      \* the truck's Pos, as far as these tasks read it
    seen,       \* its last_seen_ms, 0 when it is not in the map
    soon_open,  \* soon_idle_open: boxes whose trip is already recorded
    miss_open,  \* nearmiss_open
    preds, misses, \* newest row of each table: box, time (0: none)
    broken,     \* boxes a tick has not seen on the truck since their newest row
    arr_open,   \* spawn_wp_arrival_logger's open
    arrivals,   \* newest row of tt_wp_arrival
    arr_broken, \* as broken, for its ticks
    mm,         \* the truck's MapMatch
    mmrow,      \* newest row of mm_arrival_shadow: the leg, and when it was written
    truns       \* processes so far

soonVars == <<soon_open, miss_open, preds, misses, broken>>
arrVars == <<arr_open, arrivals, arr_broken>>
mmVars == <<mm, mmrow>>
tripVars == <<truck, seen, soonVars, arrVars, mmVars, truns>>

Nothing == "none"
NoEntry == [dest |-> Nothing, started |-> 0, last |-> 0, progress |-> 0, routed |-> FALSE]
NoRow == [box |-> Nothing, at |-> 0]

(***************************************************************************)
(* View: container1, the latched container, the order's container; topos1, *)
(* the latched one, jobtype; moving, ARRIVED, stopped within               *)
(* GEOFENCE_DROP_M of the target; a yard crane within the soon_idle gate;   *)
(* stopped within TIGHT_WP_M of the work point of the target, whose place   *)
(* may not be known; a route to it is known, and how far along the truck is.*)
(***************************************************************************)
View == [c1 : Boxes \cup {Nothing}, latched : Boxes \cup {Nothing},
         order : Boxes \cup {Nothing}, topos : Targets \cup {Nothing},
         ltopos : Targets \cup {Nothing}, job : {"LD", "DS", "MI", "MO", Nothing},
         moving : BOOLEAN, flag : BOOLEAN, fence : BOOLEAN, rtg : BOOLEAN,
         wp : {"unknown", "away", "tight"}, routed : BOOLEAN, pos : 0..Route]

ASSUME ViewsAssumption == Views # {} /\ Views \subseteq View

TripInit ==
    /\ truck \in {CHOOSE v \in Views : TRUE} /\ seen = 0
    /\ soon_open = {} /\ miss_open = {} /\ preds = NoRow /\ misses = NoRow
    /\ broken = Boxes /\ arr_open = {} /\ arrivals = NoRow /\ arr_broken = Boxes
    /\ mm = NoEntry /\ mmrow = [from |-> 0, to |-> 0, at |-> 0] /\ truns = 1

\* classify_tt: where does this job free the truck, and is it there?
to_crane(t) == t \in CraneTargets
drop_at_crane(v) == v.job = "LD" \/ (v.job = Nothing /\ to_crane(v.topos))

Arrived(v) == v.flag \/ (~v.moving /\ v.fence)

classify_tt(v) ==
    IF v.c1 = Nothing
    THEN IF v.moving THEN "empty_travel"
         ELSE IF {v.latched, v.ltopos} = {Nothing} THEN "idle" ELSE "staging"
    ELSE IF drop_at_crane(v) # to_crane(v.topos) \/ ~Arrived(v) THEN "delivering"
    ELSE IF drop_at_crane(v) \/ v.rtg THEN "soon_idle" ELSE "wait_rtg"

Container(v) ==
    IF v.c1 # Nothing THEN v.c1 ELSE IF v.latched # Nothing THEN v.latched ELSE v.order

TruckFresh == seen > 0 /\ now - seen <= TripStale

\* ingest_text
Report(v) ==
    /\ truck' = v /\ seen' = now
    /\ <<truck', seen'>> # <<truck, seen>>
    /\ UNCHANGED <<now, soonVars, arrVars, mmVars, truns>>

\* The pruner of spawn: the truck leaves the map.
Forget ==
    /\ seen > 0 /\ seen < now - TripLost
    /\ seen' = 0
    /\ UNCHANGED <<now, truck, soonVars, arrVars, mmVars, truns>>

(***************************************************************************)
(* spawn_soon_idle_logger.  cur: the box the truck carries, if the tick    *)
(* saw the truck at all.                                                   *)
(***************************************************************************)
MutRetain(open, cur) == {}

Retain(open, cur) == open \cap cur

SoonTick ==
    LET cur == IF TruckFresh THEN {Container(truck)} \ {Nothing} ELSE {}
        state == classify_tt(truck)
        enter(want, open) == TruckFresh /\ state = want /\ cur # {} /\ cur \cap open = {}
        soon == Retain(soon_open, cur)
        miss == Retain(miss_open, cur)
    IN  /\ soon_open' = IF enter("soon_idle", soon) THEN soon \cup cur ELSE soon
        /\ miss_open' = IF enter("wait_rtg", miss) THEN miss \cup cur ELSE miss
        /\ preds' = IF enter("soon_idle", soon)
                    THEN [box |-> Container(truck), at |-> now] ELSE preds
        /\ misses' = IF enter("wait_rtg", miss)
                     THEN [box |-> Container(truck), at |-> now] ELSE misses
        /\ broken' = (broken \cup (Boxes \ cur))
                     \ (IF preds' # preds THEN cur ELSE {})
        /\ UNCHANGED <<now, truck, seen, arrVars, mmVars, truns>>

(***************************************************************************)
(* spawn_wp_arrival_logger.  A trip counts while the truck is on its way   *)
(* to its drop work point: the LD job's crane, the DS job's block.         *)
(***************************************************************************)
Carried(v) == IF v.c1 # Nothing THEN v.c1 ELSE v.latched
Target(v) == IF v.topos # Nothing THEN v.topos ELSE v.ltopos

OnTrip(v) ==
    /\ v.job \in {"LD", "DS"} /\ Carried(v) # Nothing /\ Target(v) # Nothing
    /\ (v.job = "LD") = to_crane(Target(v))
    /\ v.wp # "unknown"

ArrivalTick ==
    LET cur == IF TruckFresh /\ OnTrip(truck) THEN {Carried(truck)} ELSE {}
        first == truck.wp = "tight" /\ cur # {} /\ cur \cap arr_open = {}
    IN  /\ arr_open' = (arr_open \cap cur) \cup (IF first THEN cur ELSE {})
        /\ arrivals' = IF first THEN [box |-> Carried(truck), at |-> now] ELSE arrivals
        /\ arr_broken' = (arr_broken \cup (Boxes \ cur)) \ (IF first THEN cur ELSE {})
        /\ UNCHANGED <<now, truck, seen, soonVars, mmVars, truns>>

(***************************************************************************)
(* spawn_mapmatch_shadow (set_route, project, mm_finalize).                *)
(***************************************************************************)
mm_finalize(e) == e.routed /\ e.started > 0 /\ e.last - e.started >= MinLeg

MutLegEntry(v) ==
    IF v.topos = Nothing THEN mm
    ELSE IF v.topos = mm.dest /\ mm.started # 0 THEN mm
    ELSE [dest |-> v.topos, started |-> now, last |-> now, progress |-> 0, routed |-> v.routed]

\* The entry after the match on the target: kept, begun again, or cleared.
LegEntry(v) ==
    IF v.topos = Nothing THEN NoEntry
    ELSE IF v.topos = mm.dest /\ mm.started # 0 THEN mm
    ELSE [dest |-> v.topos, started |-> now, last |-> now, progress |-> 0, routed |-> v.routed]

Project(e, v) ==
    IF e.routed
    THEN [e EXCEPT !.progress = IF v.pos > e.progress THEN v.pos ELSE e.progress, !.last = now]
    ELSE e

MatchTick ==
    LET here == seen > 0 /\ now - seen <= TripLost
        next == IF here THEN LegEntry(truck) ELSE NoEntry
        ends == mm_finalize(mm) /\ ~(here /\ truck.topos = mm.dest)
    IN  /\ mmrow' = IF ends THEN [from |-> mm.started, to |-> mm.last, at |-> now] ELSE mmrow
        /\ mm' = IF here THEN Project(next, truck) ELSE next
        /\ UNCHANGED <<now, truck, seen, soonVars, arrVars, truns>>

RestartTrip ==
    /\ truns < MaxTripRuns /\ truns' = truns + 1
    /\ seen' = 0 /\ soon_open' = {} /\ miss_open' = {} /\ mm' = NoEntry
    /\ arr_open' = {} /\ broken' = Boxes /\ arr_broken' = Boxes
    /\ UNCHANGED <<now, truck, preds, misses, arrivals, mmrow>>

TripTick == Advance(TripEnd) /\ UNCHANGED tripVars

TripNext ==
    \/ \E v \in Views : Report(v)
    \/ Forget \/ SoonTick \/ ArrivalTick \/ MatchTick \/ RestartTrip \/ TripTick

TripSpec == ClockInit /\ TripInit /\ [][TripNext]_<<now, tripVars>>

------------------------------------------------------------------------------
\* A second prediction for the box of the newest one needs a tick in between
\* that did not see the truck with that box, or a restart: a trip whose truck
\* stays visible is predicted once, at its first soon_idle.
PredictedOnce == preds' # preds /\ preds'.box = preds.box => preds.box \in broken

\* A prediction is about a truck that is at the place where its job frees it: an
\* LD job at a quay crane, any other at a block, even while the truck stands
\* at the place where it picked the box up.
PredictedAtDrop ==
    preds' # preds => /\ Arrived(truck)
                      /\ truck.job = "LD" => to_crane(truck.topos)
                      /\ truck.job \in {"DS", "MI", "MO"} => ~to_crane(truck.topos)

\* "Per trip, log the FIRST TIGHT arrival": the truck that stops, moves up and
\* stops again at its work point has arrived once.
ArrivedOnce ==
    arrivals' # arrivals /\ arrivals'.box = arrivals.box => arrivals.box \in arr_broken

\* The rows of the map matcher are legs: none overlaps the one before it and
\* none is recorded twice, whatever targets the truck is given and however long
\* it is silent.
LegsApart == mmrow' # mmrow => mmrow'.from >= mmrow.to /\ mmrow'.to - mmrow'.from >= MinLeg

\* Each recorder tells the trips and legs of a truck apart: one row for each, at
\* the place it is about, however often the truck is lost, stops or is redirected.
TripRows == [][PredictedOnce /\ PredictedAtDrop /\ ArrivedOnce /\ LegsApart]_<<now, tripVars>>
==============================================================================
