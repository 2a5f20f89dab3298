----------------------------- MODULE CycleTables -----------------------------
(***************************************************************************)
(* From a delivery to the tables learned from it (livemap.rs).  ingest_text *)
(* pushes a delivered cycle first to the buffer cycle_v2 (when the legs     *)
(* gave a cycle), then to cycle_log; spawn_cycle_flusher drains both every  *)
(* 30 s and inserts the rows one by one; meanwhile, on timers of their own, *)
(*   - spawn_travel_aggregator derives the trips of learn_travel_sample,    *)
(*   - spawn_free_in_logger takes snapshots of busy trucks and labels them  *)
(*     later with the truck's next drop,                                    *)
(*   - spawn_cycle_pickup_correct adds the crane's completion time.         *)
(* The tasks share nothing but the two buffers and the tables, and every    *)
(* statement is its own transaction: an action is one statement.            *)
(***************************************************************************)
EXTENDS Integers, Sequences, SequencesExt, FiniteSets, FiniteSetsExt, Clock

CONSTANTS
    Yts,            \* trucks
    Points,         \* targets (topos) where boxes are picked up and dropped
    Routes,         \* pairs of them: the pickup and the drop of a cycle
    BufMax,         \* CYCLE_BUF_MAX: 5000 cycles per buffer
    LegWindow,      \* 15 min: cycles whose laden trips are taken
    TripWindow,     \* 30 min: cycles whose empty trips are taken
    SnapAge,        \* 2 min before a snapshot may be labelled
    LabelWindow,    \* 2 h after which a drop is no label
    PickWindow,     \* 2 h in which a crane's completion is looked for
    MoveLag,        \* how late a completion reaches the crane log
    TripKeep,       \* 30 days of learn_travel_sample
    TablesEnd,      \* bound on the clock
    MaxCycles,      \* bound on the deliveries
    MaxSnaps,       \* bound on the snapshots
    MaxMoves,       \* bound on the crane's completions
    MaxFaults       \* bound on failed inserts and crashes

ASSUME TablesAssumption ==
    /\ {BufMax, LegWindow, TripWindow, SnapAge, LabelWindow, PickWindow, TripKeep,
        MoveLag, TablesEnd, MaxCycles, MaxSnaps, MaxMoves, MaxFaults} \subseteq Nat
    /\ BufMax > 0 /\ TripWindow < TripKeep /\ Routes \subseteq Points \X Points

VARIABLES
    cycles,     \* every delivered cycle so far (history)
    pushing,    \* the cycle ingest_text has pushed to cycle_v2 only, <<>> or <<c>>
    buf1, buf2, \* LiveMap.cycle_log, LiveMap.cycle_v2
    batch1, batch2, \* the batches the flusher has drained and not yet written
    flusher,    \* "idle", or the table it is writing: "log", "v2"
    log, v2,    \* tt_cycle_log, tt_cycle_v2 (pickup_done per row, 0 = NULL)
    trips,      \* learn_travel_sample
    snaps,      \* free_in_sample (free = 0: not labelled)
    crane,      \* completions in qc_move_log, rtg_move_log
    faults,     \* failed inserts and crashes so far
    overflow    \* a buffer has dropped its oldest cycle

memory == <<pushing, buf1, buf2, batch1, batch2, flusher>>
tablesVars == <<cycles, memory, log, v2, trips, snaps, crane, faults, overflow>>

TablesInit ==
    /\ cycles = {} /\ pushing = <<>> /\ buf1 = <<>> /\ buf2 = <<>>
    /\ batch1 = <<>> /\ batch2 = <<>> /\ flusher = "idle"
    /\ log = {} /\ v2 = {} /\ trips = {} /\ snaps = {} /\ crane = {}
    /\ faults = 0 /\ overflow = FALSE

\* push_back, then pop_front while the buffer is over capacity.
Push(buf, c) ==
    LET b == Append(buf, c) IN IF Len(b) > BufMax THEN Tail(b) ELSE b

(***************************************************************************)
(* ingest_text: the two pushes are under two locks, v2 first.  Deliveries  *)
(* of a truck have different times.                                        *)
(***************************************************************************)
\* The log first: the flusher may come in between the two pushes.
MutPushStep(c, step) ==
    IF step = 1
    THEN /\ buf1' = Push(buf1, c)
         /\ overflow' = (overflow \/ Len(buf1) = BufMax)
         /\ UNCHANGED buf2
    ELSE /\ buf2' = IF c.has2 THEN Push(buf2, c) ELSE buf2
         /\ overflow' = (overflow \/ (c.has2 /\ Len(buf2) = BufMax))
         /\ UNCHANGED buf1

PushStep(c, step) ==
    IF step = 1
    THEN /\ buf2' = IF c.has2 THEN Push(buf2, c) ELSE buf2
         /\ overflow' = (overflow \/ (c.has2 /\ Len(buf2) = BufMax))
         /\ UNCHANGED buf1
    ELSE /\ buf1' = Push(buf1, c)
         /\ overflow' = (overflow \/ Len(buf1) = BufMax)
         /\ UNCHANGED buf2

Deliver(yt, route, has2) ==
    LET c == [yt |-> yt, at |-> now, pick |-> route[1], drop |-> route[2], has2 |-> has2] IN
    /\ Cardinality(cycles) < MaxCycles
    /\ pushing = <<>>
    /\ \A d \in cycles : d.yt = yt => d.at < now
    /\ cycles' = cycles \cup {c}
    /\ pushing' = <<c>> /\ PushStep(c, 1)
    /\ UNCHANGED <<now, batch1, batch2, flusher, log, v2, trips, snaps, crane, faults>>

PushRest ==
    /\ pushing # <<>>
    /\ pushing' = <<>> /\ PushStep(Head(pushing), 2)
    /\ UNCHANGED <<now, cycles, batch1, batch2, flusher, log, v2, trips, snaps, crane, faults>>

(***************************************************************************)
(* spawn_cycle_flusher.  ON CONFLICT (ytno, dropped_at) DO NOTHING.        *)
(***************************************************************************)
Key(r) == <<r.yt, r.at>>
Insert(table, r) == IF Key(r) \in {Key(q) : q \in table} THEN table ELSE table \cup {r}

DrainLog ==
    /\ flusher = "idle" /\ buf1 # <<>>
    /\ batch1' = buf1 /\ buf1' = <<>>
    /\ flusher' = "log"
    /\ UNCHANGED <<now, cycles, pushing, buf2, batch2, log, v2, trips, snaps, crane, faults, overflow>>

Failed(ok) == faults' = IF ok THEN faults ELSE faults + 1
MayFail(ok) == ok \/ faults < MaxFaults

WriteLog(ok) ==
    /\ flusher = "log" /\ batch1 # <<>>
    /\ MayFail(ok) /\ Failed(ok)
    /\ log' = IF ok THEN Insert(log, Head(batch1)) ELSE log
    /\ batch1' = Tail(batch1)
    /\ UNCHANGED <<now, cycles, pushing, buf1, buf2, batch2, flusher, v2, trips, snaps, crane, overflow>>

DrainV2 ==
    /\ flusher = "log" /\ batch1 = <<>>
    /\ batch2' = buf2 /\ buf2' = <<>>
    /\ flusher' = IF buf2 = <<>> THEN "idle" ELSE "v2"
    /\ UNCHANGED <<now, cycles, pushing, buf1, batch1, log, v2, trips, snaps, crane, faults, overflow>>

Row2(c) == [yt |-> c.yt, at |-> c.at, pick |-> c.pick, drop |-> c.drop, done |-> 0]

WriteV2(ok) ==
    /\ flusher = "v2"
    /\ MayFail(ok) /\ Failed(ok)
    /\ v2' = IF ok THEN Insert(v2, Row2(Head(batch2))) ELSE v2
    /\ batch2' = Tail(batch2)
    /\ flusher' = IF Len(batch2) = 1 THEN "idle" ELSE "v2"
    /\ UNCHANGED <<now, cycles, pushing, buf1, buf2, batch1, log, trips, snaps, crane, overflow>>

\* The process dies: what is in memory is lost, the tables stay.
CrashTables ==
    /\ faults < MaxFaults
    /\ faults' = faults + 1
    /\ pushing' = <<>> /\ buf1' = <<>> /\ buf2' = <<>>
    /\ batch1' = <<>> /\ batch2' = <<>> /\ flusher' = "idle"
    /\ UNCHANGED <<now, cycles, log, v2, trips, snaps, crane, overflow>>

(***************************************************************************)
(* spawn_travel_aggregator: the laden trip of a cycle, then the empty trip *)
(* before it, whose origin is the drop of the truck's cycle before it in   *)
(* tt_cycle_v2 (lag).  ON CONFLICT (ytno, dropped_at, leg_ord) DO NOTHING. *)
(* prev is not a column: it keeps which cycle the origin was taken from.   *)
(***************************************************************************)
NewTrips(ts) ==
    {t \in ts : <<t.yt, t.at, t.ord>> \notin {<<q.yt, q.at, q.ord>> : q \in trips}}

LadenTrips ==
    /\ trips' = trips \cup NewTrips(
           {[yt |-> r.yt, at |-> r.at, ord |-> 1, origin |-> r.pick, dest |-> r.drop,
             prev |-> r.at, captured |-> now] :
               r \in {q \in v2 : q.at > now - LegWindow /\ q.pick # q.drop}})
    /\ trips' # trips
    /\ UNCHANGED <<now, cycles, memory, log, v2, snaps, crane, faults, overflow>>

\* The cycle lag() sees: the truck's last one before r within the window.
Lag(r) ==
    LET before == {q \in v2 : q.yt = r.yt /\ q.at < r.at /\ q.at > now - TripWindow}
    IN  {q \in before : \A o \in before : o.at <= q.at}

EmptyTripOf(r) ==
    {[yt |-> r.yt, at |-> r.at, ord |-> 0, origin |-> o.drop, dest |-> r.pick,
      prev |-> o.at, captured |-> now] : o \in {q \in Lag(r) : q.drop # r.pick}}

EmptyTrips ==
    /\ trips' = trips \cup
           NewTrips(UNION {EmptyTripOf(r) : r \in {q \in v2 : q.at > now - TripWindow}})
    /\ trips' # trips
    /\ UNCHANGED <<now, cycles, memory, log, v2, snaps, crane, faults, overflow>>

PruneTrips ==
    /\ \E t \in trips : t.captured < now - TripKeep
    /\ trips' = {t \in trips : t.captured >= now - TripKeep}
    /\ UNCHANGED <<now, cycles, memory, log, v2, snaps, crane, faults, overflow>>

(***************************************************************************)
(* spawn_free_in_logger: a snapshot of a busy truck (a cycle under way),   *)
(* labelled once with the truck's next drop in tt_cycle_log.               *)
(***************************************************************************)
Snapshot(yt) ==
    /\ Cardinality(snaps) < MaxSnaps
    /\ \A s \in snaps : <<s.yt, s.ts>> # <<yt, now>>
    /\ snaps' = snaps \cup {[yt |-> yt, ts |-> now, free |-> 0]}
    /\ UNCHANGED <<now, cycles, memory, log, v2, trips, crane, faults, overflow>>

NextDrops(s) == {r.at : r \in {q \in log : /\ q.yt = s.yt /\ q.at > s.ts
                                           /\ q.at < s.ts + LabelWindow}}

Label(s) ==
    IF s.free = 0 /\ s.ts < now - SnapAge /\ NextDrops(s) # {}
    THEN [s EXCEPT !.free = Min(NextDrops(s))]
    ELSE s

Backfill ==
    /\ snaps' = {Label(s) : s \in snaps}
    /\ snaps' # snaps
    /\ UNCHANGED <<now, cycles, memory, log, v2, trips, crane, faults, overflow>>

(***************************************************************************)
(* spawn_cycle_pickup_correct: a crane's completion for the truck, the one *)
(* nearest to the opening of the cycle, taken when its row has none yet.   *)
(* The opening of a cycle is the truck's drop before it.                   *)
(***************************************************************************)
Opened(r) == Max({0} \cup {c.at : c \in {d \in cycles : d.yt = r.yt /\ d.at < r.at}})

Near(r, c) == LET d == c.at - Opened(r) IN IF d < 0 THEN -d ELSE d

Matches(r) ==
    LET in == {c \in crane : c.yt = r.yt /\ c.at >= Opened(r) /\ c.at <= r.at}
    IN  {c \in in : \A o \in in : Near(r, c) <= Near(r, o)}

Corrected(r) ==
    IF r.done = 0 /\ r.at > now - PickWindow /\ Matches(r) # {}
       /\ Key(r) \in {Key(l) : l \in log}
    THEN [r EXCEPT !.done = (CHOOSE c \in Matches(r) : TRUE).at]
    ELSE r

Correct ==
    /\ v2' = {Corrected(r) : r \in v2}
    /\ v2' # v2
    /\ UNCHANGED <<now, cycles, memory, log, trips, snaps, crane, faults, overflow>>

\* A completion reaches the crane log, up to the extractor's delay late.
LandMove(yt, at) ==
    /\ Cardinality(crane) < MaxMoves
    /\ at <= now /\ at >= now - MoveLag
    /\ crane' = crane \cup {[yt |-> yt, at |-> at]}
    /\ UNCHANGED <<now, cycles, memory, log, v2, trips, snaps, faults, overflow>>

TablesTick == Advance(TablesEnd) /\ UNCHANGED tablesVars

TablesNext ==
    \/ \E yt \in Yts, route \in Routes, has2 \in BOOLEAN : Deliver(yt, route, has2)
    \/ PushRest
    \/ DrainLog
    \/ \E ok \in BOOLEAN : WriteLog(ok)
    \/ DrainV2
    \/ \E ok \in BOOLEAN : WriteV2(ok)
    \/ CrashTables
    \/ LadenTrips
    \/ EmptyTrips
    \/ PruneTrips
    \/ \E yt \in Yts : Snapshot(yt)
    \/ Backfill
    \/ Correct
    \/ \E yt \in Yts, at \in 1..TablesEnd : LandMove(yt, at)
    \/ TablesTick

TablesSpec == ClockInit /\ TablesInit /\ [][TablesNext]_<<now, tablesVars>>

------------------------------------------------------------------------------
Cycle == [yt : Yts, at : Nat, pick : Points, drop : Points, has2 : BOOLEAN]

\* The state is what the code's types say; a buffer never exceeds its capacity.
TablesTypeOK ==
    /\ now \in Nat /\ faults \in 0..MaxFaults /\ overflow \in BOOLEAN
    /\ cycles \subseteq Cycle /\ pushing \in {<<>>} \cup {<<c>> : c \in cycles}
    /\ \A b \in {buf1, buf2, batch1, batch2} : ToSet(b) \subseteq cycles /\ Len(b) <= BufMax
    /\ flusher \in {"idle", "log", "v2"}
    /\ log \subseteq cycles
    /\ v2 \subseteq [yt : Yts, at : Nat, pick : Points, drop : Points, done : Nat]
    /\ trips \subseteq [yt : Yts, at : Nat, ord : {0, 1}, origin : Points, dest : Points,
                        prev : Nat, captured : Nat]
    /\ snaps \subseteq [yt : Yts, ts : Nat, free : Nat]
    /\ crane \subseteq [yt : Yts, at : Nat]

\* Cycles of the truck strictly between two instants.
Between(set, yt, a, b) == {c \in set : c.yt = yt /\ c.at > a /\ c.at < b}

\* The label of a snapshot is the truck's next drop: no cycle that is in
\* tt_cycle_log, or still on its way to it, dropped in between, although the
\* backfill may run while the flusher is in the middle of a batch.
LabelIsNextDrop ==
    \A s \in snaps : s.free > 0 =>
        Between(log \cup ToSet(buf1) \cup ToSet(batch1) \cup ToSet(pushing),
                s.yt, s.ts, s.free) = {}

\* The origin of an empty trip is where the truck's previous cycle ended: no
\* cycle that is in tt_cycle_v2, or on its way to it, lies between the two.
OriginIsPreviousDrop ==
    \A t \in trips : t.ord = 0 =>
        Between(v2 \cup ToSet(buf2) \cup ToSet(batch2), t.yt, t.prev, t.at) = {}

\* "1:1 with tt_cycle_log": whenever the flusher rests, every cycle of
\* tt_cycle_log whose legs were complete has its row in tt_cycle_v2, unless an
\* insert failed, the service died or a buffer overflowed.
RowsPaired ==
    flusher = "idle" /\ faults = 0 /\ ~overflow =>
        \A c \in log : c.has2 => Key(c) \in {Key(r) : r \in v2}

\* The tables that are learned from have one row per delivery, with the deliveries
\* before and after it that really were the ones before and after it.
TablesInv == TablesTypeOK /\ LabelIsNextDrop /\ OriginIsPreviousDrop /\ RowsPaired
==============================================================================
