----------------------------- MODULE TruckCycle -----------------------------
(***************************************************************************)
(* The cycle tracker of one truck (livemap.rs): ingest_text folds every    *)
(* message of the GPS feed into the truck's Pos record.  It keeps two      *)
(* machines side by side:                                                  *)
(*   - the cycle of tt_cycle_log: opened when container1 gets a box, closed *)
(*     by a delivery, that is container1 changing away from a box that was *)
(*     carried long enough and far enough;                                 *)
(*   - the legs of tt_cycle_v2: one leg per target (topos1), closed by the *)
(*     same delivery.                                                      *)
(* The records of trucks are independent (one key of the map each) and one *)
(* feed connection delivers the messages one after the other, so one truck *)
(* is the general case.  A time of 0 means "not observed", as in the code. *)
(* Distances are counted in units, MinCarryTrip of them make a delivery.   *)
(***************************************************************************)
EXTENDS Clock, Integers, Sequences, SequencesExt, FiniteSets

CONSTANTS
    Messages,       \* the feed messages the instance may receive
    Cranes,         \* targets that are crane codes (is_crane_code)
    BlockOf,        \* block code or location label -> block (block_prefix)
    Start,          \* first instant of the clock
    MaxTime,        \* bound on the clock
    MinLoaded,      \* MIN_LOADED_MS: 30 s
    MinCarryTrip,   \* MIN_CARRY_TRIP_M: 150 m
    MaxFixStep,     \* MAX_FIX_STEP_M: 600 m
    MinCycle,       \* MIN_CYCLE_S: 120 s
    MaxCycle,       \* MAX_CYCLE_S: 1200 s
    LeftGuard,      \* 5 s between an arrival and the departure
    LegsMax,        \* V2_LEGS_MAX: 6
    Lost,           \* LOST_AFTER_S: 600 s without a message
    Day,            \* length of a day
    Future,         \* 300 s of clock skew parse_arr_dtime accepts
    Stale           \* 6 h, the oldest arr_dtime it accepts

ASSUME CycleAssumption ==
    /\ {Start, MaxTime, MinLoaded, MinCarryTrip, MaxFixStep, MinCycle, MaxCycle,
        LeftGuard, LegsMax, Lost, Day, Future, Stale} \subseteq Nat
    /\ Start > 0 /\ MinLoaded > 0 /\ LegsMax >= 2
    /\ Future + Stale < Day /\ MinCycle <= MaxCycle
    /\ Stale <= Start /\ Start <= MaxTime
    /\ \A m \in Messages : m.step \in Nat /\ m.arr \subseteq Int

VARIABLES
    p,          \* the truck's Pos record
    cycle,      \* the CompletedCycle of the last message, NoCycle if none
    cycle2,     \* the CompletedV2 of the last message, NoCycle2 if none
    sample      \* the interval it added to tt_cycles, 0 if none

cycleVars == <<p, cycle, cycle2, sample>>

No == "none"
Or(a, b) == IF a # No THEN a ELSE b
Min2(a, b) == IF a < b THEN a ELSE b

is_crane_code(t) == t \in Cranes

block_prefix(t) == IF t \in DOMAIN BlockOf THEN BlockOf[t] ELSE t

NoOpen == [assigned |-> 0, pickup_arrived |-> 0, pickup_left |-> 0, pickup |-> 0,
           arrived |-> 0, pickup_crane |-> 0, arrived_crane |-> 0, box |-> No]

NoLeg == [target |-> No, crane |-> FALSE, assigned |-> 0, arrived |-> 0,
          src |-> No, left |-> 0]

NoV2 == [opened |-> 0, travel_start |-> 0, job |-> No, legs |-> <<>>, cur |-> NoLeg]

NoPos == [seen |-> 0, c1 |-> No, c2 |-> No, arrived |-> FALSE, arr |-> 0,
          carry_since |-> 0, carry_trip |-> 0, last_drop |-> 0,
          empty_since |-> 0, empty_arrived |-> 0, open |-> NoOpen,
          box |-> No, job |-> No, topos |-> No, v2 |-> NoV2]

NoCycle == [open |-> NoOpen, dropped |-> 0, c2c |-> FALSE]

NoCycle2 == [dropped |-> 0, opened |-> 0, travel_start |-> 0, job |-> No, legs |-> <<>>,
             v1_pickup |-> 0, v1_drop |-> 0]

CycleInit ==
    /\ p = NoPos
    /\ cycle = NoCycle
    /\ cycle2 = NoCycle2
    /\ sample = 0

-----------------------------------------------------------------------------
(* Reading one message.  arr holds how long ago, by the feed's clock, the  *)
(* truck arrived (a singleton, or empty when the field is absent).         *)

\* A time of day is all the feed sends: attach today's date, step back one
\* day when that is in the future, refuse what is too old.
parse_arr_dtime(tod, t) ==
    LET today == (t \div Day) * Day + tod
        dated == IF today > t + Future THEN today - Day ELSE today
    IN  IF t - dated <= Stale THEN dated ELSE 0

ArrTime(m, t) ==
    IF m.arr = {} THEN 0
    ELSE LET ago == CHOOSE a \in m.arr : TRUE IN parse_arr_dtime((t - ago) % Day, t)

\* The tracking state carried from the previous record; the latches keep a
\* field that this message omits, the raw fields do not.
Carry(m, t) ==
    LET a == ArrTime(m, t)
    IN  [p EXCEPT !.seen = t, !.c1 = m.c1, !.c2 = m.c2, !.arrived = m.arrived,
                  !.arr = IF a = 0 THEN @ ELSE a,
                  !.box = Or(m.c1, @), !.job = Or(m.job, @), !.topos = Or(m.topos, @),
                  !.carry_trip = IF p.seen > 0 /\ m.step <= MaxFixStep
                                 THEN Min2(@ + m.step, MinCarryTrip) ELSE @]

\* Twin carry: the same two boxes in the other order, nothing was handed over.
slot_swap(m) ==
    /\ m.c1 # p.c1 /\ m.c1 # No
    /\ {m.c1, m.c2} = {p.c1, p.c2}

ArrivedEdge(m) == m.arrived /\ ~p.arrived

-----------------------------------------------------------------------------
(* The cycle of tt_cycle_log.                                              *)

\* An arrival at the side the job delivers to.
DropSide(q) ==
    CASE q.job = "LD" -> is_crane_code(q.topos)
      [] q.job = "DS" -> ~is_crane_code(q.topos)
      [] q.job \in {"MI", "MO", "LC"} -> q.open.pickup_arrived # 0
      [] OTHER -> is_crane_code(q.topos)

ArriveOpen(q, m, t) ==
    IF q.open = NoOpen THEN q
    ELSE IF ArrivedEdge(m) /\ DropSide(q)
         THEN [q EXCEPT !.open.arrived = IF @ = 0 THEN t ELSE @]
    ELSE IF ArrivedEdge(m)
         THEN [q EXCEPT !.open.pickup_arrived =
                            IF @ = 0 /\ q.open.arrived = 0 THEN t ELSE @]
    ELSE IF /\ ~m.arrived /\ m.moving
            /\ q.open.pickup_arrived # 0 /\ q.open.pickup_left = 0
         THEN [q EXCEPT !.open.pickup_left = t]
    ELSE q

ArriveEmpty(q, m, t) ==
    IF ArrivedEdge(m) /\ m.c1 = No /\ q.empty_arrived = 0
    THEN [q EXCEPT !.empty_arrived = t] ELSE q

\* The observational crane arrival: ARRIVED, the crane within 40 m (near = 2),
\* or the crane at work while the truck stands.
ArriveCrane(q, m, t) ==
    LET drop_side == CASE q.job = "LD" -> TRUE
                       [] q.job = "DS" -> FALSE
                       [] OTHER -> q.open.pickup_crane # 0
    IN  IF /\ is_crane_code(q.topos) /\ q.open # NoOpen
           /\ m.arrived \/ m.near = 2 \/ (m.plc /\ ~m.moving)
        THEN IF drop_side
             THEN [q EXCEPT !.open.arrived_crane = IF @ = 0 THEN t ELSE @]
             ELSE [q EXCEPT !.open.pickup_crane = IF @ = 0 THEN t ELSE @]
        ELSE q

\* Any time on the truck will do.
MutDelivered(q, m, t) ==
    /\ m.c1 # p.c1 /\ ~slot_swap(m) /\ p.c1 # No
    /\ q.carry_trip >= MinCarryTrip

\* container1 changed away from a box that was carried and driven.  A carry
\* whose start was not seen counts as carried for ever.
Delivered(q, m, t) ==
    /\ m.c1 # p.c1 /\ ~slot_swap(m) /\ p.c1 # No
    /\ q.carry_since > 0 => t - q.carry_since >= MinLoaded
    /\ q.carry_trip >= MinCarryTrip

finalize_cycle(q, m, t) ==
    LET pickup == IF q.open.pickup > 0 THEN q.open.pickup ELSE q.carry_since
    IN  [open |-> [q.open EXCEPT !.pickup = pickup,
                                 !.assigned = IF @ > 0 THEN @ ELSE pickup,
                                 !.box = Or(@, q.box)],
         dropped |-> t, c2c |-> m.c1 # No]

\* An arrival is taken over whether or not it belongs to this leg.
MutOpenCycle(q, t) ==
    [NoOpen EXCEPT
        !.assigned = IF q.empty_since > 0 THEN q.empty_since ELSE t,
        !.pickup_arrived = q.empty_arrived,
        !.pickup = t, !.box = Or(q.c1, q.box)]

\* The arrival at the pickup is taken over only when the start of the empty
\* leg was seen: an older one may belong to the previous job.
open_cycle(q, t) ==
    [NoOpen EXCEPT
        !.assigned = IF q.empty_since > 0 THEN q.empty_since ELSE t,
        !.pickup_arrived = IF q.empty_since > 0 /\ q.empty_arrived > q.empty_since
                           THEN q.empty_arrived ELSE 0,
        !.pickup = t, !.box = Or(q.c1, q.box)]

\* A changed box ends a delivery or a re-assignment, and starts an empty leg
\* or the next cycle.
BoxChange(q, m, t) ==
    LET done == IF Delivered(q, m, t)
                THEN [q EXCEPT !.last_drop = t, !.open = NoOpen, !.box = No] ELSE q
        next == IF p.c1 # No THEN [done EXCEPT !.empty_since = t] ELSE done
    IN  IF m.c1 = p.c1 \/ slot_swap(m) THEN q
        ELSE IF m.c1 = No
             THEN [done EXCEPT !.carry_since = 0, !.carry_trip = 0,
                               !.empty_since = t, !.empty_arrived = 0]
             ELSE [next EXCEPT !.carry_since = t, !.carry_trip = 0, !.box = m.c1,
                               !.open = open_cycle([next EXCEPT !.box = m.c1], t),
                               !.empty_arrived = 0]

\* The interval since the truck's previous delivery, when it is plausible.
CycleSample(q, m, t) ==
    LET iv == t - q.last_drop
    IN  IF Delivered(q, m, t) /\ q.last_drop # 0 /\ iv \in MinCycle..MaxCycle
        THEN iv ELSE 0

-----------------------------------------------------------------------------
(* The legs of tt_cycle_v2.                                                *)

\* First movement after the cycle opened, before its pickup is reached.
TravelStart(q, m, t) ==
    IF /\ q.v2.opened > 0 /\ q.v2.travel_start = 0 /\ m.moving
       /\ q.v2.legs = <<>> /\ q.v2.cur.arrived = 0
    THEN [q EXCEPT !.v2.travel_start = t] ELSE q

\* The departure stays as it was.
MutReached(leg, precise) == [leg EXCEPT !.arrived = precise[1], !.src = precise[2]]

\* A precise arrival; the departure seen after a coarse one that it replaces must
\* be seen again unless it is later.
Reached(leg, precise) ==
    [leg EXCEPT !.arrived = precise[1], !.src = precise[2],
                !.left = IF leg.src = "cur_loc" /\ @ <= precise[1] THEN 0 ELSE @]

\* Where the leg's arrival comes from: the feed's own arrival time, the ARRIVED
\* edge, the location label, the crane within 60 m (near >= 1).  A label is
\* coarse and gives way to the first two.
LegArrival(leg, q, m, t) ==
    LET precise == IF q.arr > 0 /\ q.arr >= leg.assigned THEN <<q.arr, "arr_dtime">>
                   ELSE IF ArrivedEdge(m) THEN <<t, "arrived">> ELSE <<0, No>>
        at == IF leg.crane THEN m.loc = "WHARF"
              ELSE m.loc # No /\ block_prefix(m.loc) = block_prefix(leg.target)
    IN  IF leg.arrived # 0 /\ leg.src # "cur_loc" THEN leg
        ELSE IF precise[1] > 0 THEN Reached(leg, precise)
        ELSE IF leg.arrived # 0 \/ m.moving THEN leg
        ELSE IF at THEN [leg EXCEPT !.arrived = t, !.src = "cur_loc"]
        ELSE IF leg.crane /\ m.near >= 1 THEN [leg EXCEPT !.arrived = t, !.src = "gps"]
        ELSE leg

LegDeparture(leg, m, t) ==
    IF leg.arrived > 0 /\ leg.left = 0 /\ m.moving /\ t - leg.arrived > LeftGuard
    THEN [leg EXCEPT !.left = t] ELSE leg

Progress(q, m, t) ==
    IF q.v2.cur = NoLeg THEN q
    ELSE [q EXCEPT !.v2.cur = LegDeparture(LegArrival(@, q, m, t), m, t)]

Open2(q, t) ==
    IF q.v2.opened = 0 THEN [q EXCEPT !.v2.opened = t, !.v2.job = q.job] ELSE q

\* A box on an empty truck is a pickup even when no target led to it.
PickupLeg(q, m, t) ==
    LET o == Open2(q, t)
        target == Or(q.topos, m.loc)
    IN  IF ~(p.c1 = No /\ m.c1 # No) THEN q
        ELSE IF o.v2.cur # NoLeg
             THEN IF o.v2.cur.arrived # 0 THEN o
                  ELSE [o EXCEPT !.v2.cur.arrived = t, !.v2.cur.src = "container1"]
        ELSE IF target = No THEN o
        ELSE [o EXCEPT !.v2.cur =
                 [target |-> target, crane |-> Or(o.v2.job, q.job) = "DS",
                  assigned |-> o.v2.opened, arrived |-> t,
                  src |-> "container1", left |-> 0]]

\* A leg towards target; a truck that already stands at the block has arrived.
NewLeg(target, m, t) ==
    LET prepositioned == /\ ~is_crane_code(target) /\ ~m.moving /\ m.loc # No
                         /\ block_prefix(m.loc) = block_prefix(target)
    IN  [target |-> target, crane |-> is_crane_code(target), assigned |-> t,
         arrived |-> IF prepositioned THEN t ELSE 0,
         src |-> IF prepositioned THEN "pre_positioned" ELSE No, left |-> 0]

EndLeg(leg, t) ==
    IF leg.arrived > 0 /\ leg.left = 0 THEN [leg EXCEPT !.left = t] ELSE leg

\* At a delivery the last leg goes to the next cycle when it was assigned ahead
\* of time, or when the cycle never reached its delivery side.
CarryOver(q) ==
    LET job == Or(q.v2.job, q.job)
        pickup_is_crane == job = "DS"
        reached == \E l \in Range(Append(q.v2.legs, q.v2.cur)) : l.crane # pickup_is_crane
    IN  /\ q.v2.cur # NoLeg
        /\ \/ q.v2.cur.arrived = 0 /\ q.v2.legs # <<>>
           \/ /\ job \in {"DS", "LD"}
              /\ ~reached /\ q.v2.cur.crane = pickup_is_crane

ClosedLegs(q, t) ==
    IF q.v2.cur = NoLeg \/ CarryOver(q) THEN q.v2.legs
    ELSE Append(q.v2.legs, EndLeg(q.v2.cur, t))

finalize_v2(q, c, t) ==
    IF q.v2.opened > 0 /\ ClosedLegs(q, t) # <<>>
    THEN [dropped |-> t, opened |-> q.v2.opened, travel_start |-> q.v2.travel_start,
          job |-> Or(q.v2.job, q.job), legs |-> ClosedLegs(q, t),
          v1_pickup |-> c.open.pickup_arrived, v1_drop |-> c.open.arrived]
    ELSE NoCycle2

\* The next cycle starts with the delivery when the next box is there already;
\* its first leg is the one carried over, else the target latched by now.
Reopen(q, m, t) ==
    LET c2c == m.c1 # No
        kept == CarryOver(q)
        opened == IF c2c THEN t ELSE IF kept THEN Min2(q.v2.cur.assigned, t) ELSE 0
        cur == IF kept THEN q.v2.cur
               ELSE IF c2c /\ q.topos # No /\ q.topos # p.topos
                    THEN NewLeg(q.topos, m, t)
               ELSE NoLeg
    IN  [q EXCEPT !.v2 = [NoV2 EXCEPT !.opened = opened,
                                      !.job = IF opened > 0 THEN q.job ELSE No,
                                      !.cur = cur]]

\* The oldest leg goes first.
MutTransitionFront(q, m, t) ==
    LET kept == IF Len(q.v2.legs) >= LegsMax THEN Tail(q.v2.legs) ELSE q.v2.legs
    IN  IF m.topos = No \/ m.topos = p.topos \/ m.topos = q.v2.cur.target THEN q
        ELSE [Open2(q, t) EXCEPT !.v2.legs = IF q.v2.cur = NoLeg THEN @
                                             ELSE Append(kept, EndLeg(q.v2.cur, t)),
                                 !.v2.cur = NewLeg(m.topos, m, t)]

\* A new target ends the leg and starts the next one.  The list keeps its first
\* leg and the most recent ones.
Transition(q, m, t) ==
    LET o == Open2(q, t)
        kept == IF Len(q.v2.legs) >= LegsMax THEN RemoveAt(q.v2.legs, 2) ELSE q.v2.legs
    IN  IF m.topos = No \/ m.topos = p.topos \/ m.topos = q.v2.cur.target THEN q
        ELSE [o EXCEPT !.v2.legs = IF q.v2.cur = NoLeg THEN @
                                   ELSE Append(kept, EndLeg(q.v2.cur, t)),
                       !.v2.cur = NewLeg(m.topos, m, t)]

-----------------------------------------------------------------------------
(* The actions.                                                            *)

\* The whole of ingest_text for a message of this truck.
Ingest(m) ==
    LET t == now + 1
        q1 == ArriveCrane(ArriveEmpty(ArriveOpen(Carry(m, t), m, t), m, t), m, t)
        done == Delivered(q1, m, t)
        c == finalize_cycle(q1, m, t)
        q2 == BoxChange(q1, m, t)
        q3 == PickupLeg(Progress(TravelStart(q2, m, t), m, t), m, t)
        q4 == IF done THEN Reopen(q3, m, t) ELSE q3
    IN  /\ now < MaxTime
        /\ now' = t
        /\ p' = Transition(q4, m, t)
        /\ cycle' = IF done THEN c ELSE NoCycle
        /\ cycle2' = IF done THEN finalize_v2(q3, c, t) ELSE NoCycle2
        /\ sample' = CycleSample(q1, m, t)

\* The pruner forgets a device that was silent for LOST_AFTER_S.
Prune ==
    /\ p # NoPos /\ now + Lost <= MaxTime
    /\ now' = now + Lost
    /\ p' = NoPos
    /\ cycle' = NoCycle /\ cycle2' = NoCycle2 /\ sample' = 0

\* The service restarts: the map of devices starts empty.
Restart ==
    /\ p # NoPos /\ now < MaxTime
    /\ now' = now + 1
    /\ p' = NoPos
    /\ cycle' = NoCycle /\ cycle2' = NoCycle2 /\ sample' = 0

Receive == \E m \in Messages : Ingest(m)

CycleNext == Receive \/ Prune \/ Restart

CycleSpec == now = Start /\ CycleInit /\ [][CycleNext]_<<now, cycleVars>>

-----------------------------------------------------------------------------
(* What the flusher writes for a v2 cycle.                                 *)

\* The legs up to the first one on the delivery side; between two blocks the
\* last leg is the delivery.
SplitAt(c) ==
    LET other == {i \in DOMAIN c.legs : c.legs[i].crane # (c.job = "DS")}
    IN  IF other # {} THEN (CHOOSE i \in other : \A j \in other : i <= j) - 1
        ELSE IF Len(c.legs) >= 2 THEN Len(c.legs) - 1 ELSE Len(c.legs)

\* Backfill from the v1 cycle, then the clamps that keep the chain of times in
\* order by dropping the less reliable value.
FlushRow(c) ==
    LET k == SplitAt(c)
        arrivals == {i \in 1..k : c.legs[i].arrived > 0}
        first == IF arrivals = {} THEN NoLeg
                 ELSE c.legs[CHOOSE i \in arrivals : \A j \in arrivals : i <= j]
        drop == IF k < Len(c.legs) THEN c.legs[k + 1] ELSE NoLeg
        left0 == IF k > 0 /\ c.legs[k].left > 0 THEN c.legs[k].left ELSE drop.assigned
        useP == /\ c.v1_pickup > 0 /\ c.v1_pickup <= c.dropped
                /\ first.arrived = 0 \/ first.src \in {"pre_positioned", "container1"}
        useD == /\ c.v1_drop > 0 /\ c.v1_drop <= c.dropped
                /\ drop.arrived = 0 \/ drop.src = "pre_positioned"
        pa0 == IF useP THEN c.v1_pickup ELSE first.arrived
        da0 == IF useD THEN c.v1_drop ELSE drop.arrived
        clash == pa0 > 0 /\ da0 > 0 /\ pa0 > da0
        pa == IF clash /\ useP THEN 0 ELSE pa0
        da == IF clash /\ ~useP /\ useD THEN 0 ELSE da0
        left == IF \/ left0 > 0 /\ pa > 0 /\ pa > left0
                   \/ left0 > 0 /\ da > 0 /\ left0 > da THEN 0 ELSE left0
        start == IF c.travel_start > 0 /\ pa > 0 /\ c.travel_start > pa
                 THEN 0 ELSE c.travel_start
    IN  [opened |-> c.opened, empty_travel_start |-> start, empty_arrived |-> pa,
         pickup_left |-> left, laden_arrived |-> da, dropped |-> c.dropped]

-----------------------------------------------------------------------------
(* Properties.                                                             *)

Times == 0..(MaxTime + Future)

\* Every stamp is a time, every stored leg has a target and was assigned, and
\* the open cycle of livemap.rs and its v2 twin keep the shape of their types.
CycleTypeOK ==
    /\ p.carry_since \in Times /\ p.carry_trip \in 0..MinCarryTrip
    /\ {p.last_drop, p.empty_since, p.empty_arrived, p.arr} \subseteq Times
    /\ {p.open[f] : f \in DOMAIN NoOpen \ {"box"}} \subseteq Times
    /\ Len(p.v2.legs) <= LegsMax /\ Len(cycle2.legs) <= LegsMax + 1
    /\ \A l \in Range(p.v2.legs \o cycle2.legs) : l.target # No /\ l.assigned \in Times
    /\ sample \in {0} \cup MinCycle..MaxCycle

\* Observed times a and b are in order; one that was not observed is no clash.
Ordered(a, b) == a > 0 /\ b > 0 => a <= b

\* The phases of a cycle written to tt_cycle_log are in the order a truck goes
\* through them, also after a restart or a silent gap in the middle of a leg
\* (open_cycle: "produced pickup_arrived < assigned inversions").
PhasesInOrder ==
    LET c == cycle.open
    IN  cycle.dropped > 0 =>
            /\ Ordered(c.assigned, c.pickup) /\ Ordered(c.pickup, cycle.dropped)
            /\ Ordered(c.assigned, c.pickup_arrived)
            /\ Ordered(c.pickup_arrived, c.pickup_left)
            /\ Ordered(c.pickup, c.arrived) /\ Ordered(c.arrived, cycle.dropped)

\* A leg is assigned, reached and left in this order, and before the next leg is
\* assigned, whichever of the four sources gave the arrival and whether or not a
\* coarse arrival was replaced by a precise one after the departure.
LegsInOrder ==
    LET ok(l) == /\ Ordered(l.assigned, l.arrived) /\ Ordered(l.arrived, l.left)
                 /\ l.left > 0 => l.arrived > 0
    IN  /\ ok(p.v2.cur)
        /\ \A legs \in {Append(p.v2.legs, p.v2.cur), cycle2.legs} : \A i \in DOMAIN legs :
              /\ ok(legs[i])
              /\ i > 1 /\ legs[i].target # No => Ordered(legs[i - 1].left, legs[i].assigned)

\* The row of tt_cycle_v2 keeps "the monotonic chain": start of the empty drive,
\* arrival at the pickup, departure, arrival with the box, delivery.
ChainMonotone ==
    LET r == FlushRow(cycle2)
    IN  cycle2.dropped > 0 =>
            /\ Ordered(r.empty_travel_start, r.empty_arrived)
            /\ Ordered(r.empty_arrived, r.pickup_left)
            /\ Ordered(r.pickup_left, r.laden_arrived)
            /\ Ordered(r.empty_arrived, r.laden_arrived)
            /\ Ordered(r.laden_arrived, r.dropped)

\* The time of day of an arrival gets its own date back, across midnight too, as
\* long as the arrival is at most Stale old; one that the feed's clock puts up to
\* Future ahead is dated right or refused (just before midnight), never misdated.
ArrivalDated ==
    \A at \in (now - Stale)..(now + Future) :
        LET dated == parse_arr_dtime(at % Day, now)
        IN  at > 0 => dated = at \/ (at > now /\ dated = 0)

\* The tracker's record is well formed and the first cycle told in the order in
\* which it happened, whatever the feed says of its own arrival times.
CycleInv == CycleTypeOK /\ PhasesInOrder /\ ArrivalDated

\* The legs and the row of tt_cycle_v2 are in the order in which they happened, as
\* long as the clock of the feed is not ahead of ours.
LegInv == LegsInOrder /\ ChainMonotone

\* Two deliveries of one truck are at least MIN_LOADED apart ("a delivery requires
\* the box was carried >= 30s"), except for a box whose carry has no start.
DeliveriesApart ==
    cycle'.dropped > 0 /\ p.last_drop > 0 =>
        p.carry_since = 0 \/ cycle'.dropped - p.last_drop >= MinLoaded

\* A carry without a start begins in one way only: a box moves up from the second
\* slot into the empty first one, which the swap guard takes for no change.
StartUnknown ==
    p'.c1 # No /\ p'.carry_since = 0 /\ (p.c1 = No \/ p.carry_since > 0)
        => p.c1 = No /\ p.c2 = p'.c1

\* As long as a v2 cycle is open its first leg, the pickup, stays the first one
\* however many targets follow ("keep the first (pickup) + recent legs").
PickupLegKept ==
    p.v2.legs # <<>> /\ cycle'.dropped = 0 /\ p'.v2.opened = p.v2.opened
        => p'.v2.legs # <<>> /\ p'.v2.legs[1] = p.v2.legs[1]

\* From message to message a truck neither delivers twice nor loses the pickup of
\* the cycle under way, whatever the feed repeats, omits or delays.
CycleSteps == [][DeliveriesApart /\ StartUnknown /\ PickupLegKept]_<<now, cycleVars>>
=============================================================================
