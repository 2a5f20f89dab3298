------------------------------- MODULE WaitKpi -------------------------------
(***************************************************************************)
(* Quay cranes waiting for trucks (livemap.rs).  spawn_qc_wait_logger       *)
(* samples every 30 s which working cranes starve, publishes a smoothed     *)
(* value and prunes its table to 14 days; spawn_qc_wait_kpi aggregates the  *)
(* whole table every 5 minutes and upserts a row per business date and per  *)
(* shift.  The logger's clock counts its ticks; ShiftLen of them make a     *)
(* shift, two shifts a day.                                                 *)
(***************************************************************************)
EXTENDS Integers, Sequences, SequencesExt, FiniteSets, Clock

CONSTANTS
    Qcs,            \* quay cranes
    Scenes,         \* what a tick may see of the cranes: functions on Qcs
    ShiftLen,       \* ticks in a shift (12 h)
    SampleKeep,     \* ticks a sample is kept (14 days)
    PruneEvery,     \* 20: ticks between two prunes
    SmoothLen,      \* 6: ticks in the smoothed value
    KpiEnd          \* bound on the clock

ASSUME KpiAssumption ==
    /\ {ShiftLen, SampleKeep, PruneEvery, SmoothLen, KpiEnd} \subseteq Nat
    /\ ShiftLen > 0 /\ PruneEvery > 0 /\ SmoothLen > 0
    /\ IsFiniteSet(Qcs) /\ \A s \in Scenes : DOMAIN s = Qcs

VARIABLES
    wtick,      \* spawn_qc_wait_logger's tick counter
    ran,        \* when it ran last
    scene,      \* what its last tick saw
    smooth,     \* the last samples, oldest first
    live,       \* LiveMap.qc_wait_live: cranes starving, <<>> before the first tick
    samples,    \* qc_wait_sample
    pruned,     \* samples already pruned (history)
    fetched,    \* rows spawn_qc_wait_kpi has read and not yet written
    fetchedAt,  \* when it read them, 0 when it rests
    settled,    \* when the last completed aggregation read its rows
    daily,      \* kpi_daily: business date -> sum, sample_n, is_provisional
    shiftly     \* kpi_shift: shift -> sum, sample_n

kpiVars == <<wtick, ran, scene, smooth, live, samples, pruned, fetched, fetchedAt,
             settled, daily, shiftly>>

Shifts == 0..(KpiEnd \div ShiftLen)
Days == {s \div 2 : s \in Shifts}
ShiftOf(ts) == ts \div ShiftLen
DayOf(ts) == ShiftOf(ts) \div 2

\* Before the first tick: no crane has worked yet.
NoScene == [q \in Qcs |-> [working |-> FALSE, pos |-> FALSE, idle |-> FALSE, topos |-> FALSE,
                          gps |-> FALSE, pend |-> FALSE, active |-> FALSE, near |-> 0]]

KpiInit ==
    /\ wtick = 0 /\ ran = 0
    /\ scene = NoScene
    /\ smooth = <<>> /\ live = <<>>
    /\ samples = {} /\ pruned = {} /\ fetched = {} /\ fetchedAt = 0 /\ settled = 0
    /\ daily = [d \in Days |-> [sum |-> 0, n |-> 0, prov |-> TRUE]]
    /\ shiftly = [s \in Shifts |-> [sum |-> 0, n |-> 0]]

(***************************************************************************)
(* A tick's view of one crane: working, its position known, idle for longer *)
(* than QCQ_IDLE_S, no truck sent to it (topos), no truck near it (gps),    *)
(* work left in its queue (pend), work in progress (active), free trucks    *)
(* near it (near).                                                          *)
(***************************************************************************)
Working(s) == {q \in Qcs : s[q].working}
Scored(s) == {q \in Working(s) : s[q].pos}
StarvingTopos(s) == {q \in Scored(s) : s[q].idle /\ s[q].topos}
StarvingGps(s) == {q \in Scored(s) : s[q].idle /\ s[q].gps}
StarvingBoth(s) == StarvingTopos(s) \cap StarvingGps(s)

StarvingReal(s) == {q \in StarvingGps(s) : s[q].pend}

\* The per-crane rows of qc_wait_qc_sample with starving_real, with genuine.
RowStarving(s) == {q \in Scored(s) : s[q].idle /\ s[q].gps /\ s[q].pend /\ s[q].active}
RowGenuine(s) == {q \in RowStarving(s) : s[q].near = 0}

Last6(q) == IF Len(q) > SmoothLen THEN Tail(q) ELSE q
Sum(q) == FoldLeft(LAMBDA a, b : a + b, 0, q)

\* f64::round: half away from zero
Round(a, b) == (2 * a + b) \div (2 * b)

Kept(ss) == {x \in ss : x.ts >= now - SampleKeep}

\* One tick of the logger with the feed up.
WaitTick(s) ==
    LET sample == [ts |-> now, sr |-> Cardinality(StarvingReal(s))]
        all == samples \cup {sample}
        sm == Last6(Append(smooth, sample.sr))
        prune == (wtick + 1) % PruneEvery = 0
    IN  /\ ran < now /\ ran' = now
        /\ wtick' = (wtick + 1) % PruneEvery
        /\ scene' = s
        /\ smooth' = sm /\ live' = <<Round(Sum(sm), Len(sm))>>
        /\ samples' = IF prune THEN Kept(all) ELSE all
        /\ pruned' = pruned \cup (all \ samples')
        /\ UNCHANGED <<now, fetched, fetchedAt, settled, daily, shiftly>>

\* One tick with the feed down: only the counter.
WaitSkip ==
    /\ ran < now /\ ran' = now
    /\ wtick' = (wtick + 1) % PruneEvery
    /\ UNCHANGED <<now, scene, smooth, live, samples, pruned, fetched, fetchedAt,
                   settled, daily, shiftly>>

(***************************************************************************)
(* spawn_qc_wait_kpi: reads every sample, then computes today and upserts  *)
(* one row per business date and per shift that has samples.               *)
(***************************************************************************)
Fetch ==
    /\ fetchedAt = 0 /\ samples # {}
    /\ fetched' = samples /\ fetchedAt' = now
    /\ UNCHANGED <<now, wtick, ran, scene, smooth, live, samples, pruned, settled,
                   daily, shiftly>>

\* The sum of starving_real over the samples, counted in units.
Total(ss) == Cardinality({unit \in ss \X (1..Cardinality(Qcs)) : unit[2] <= unit[1].sr})
OfDay(ss, d) == {x \in ss : DayOf(x.ts) = d}
OfShift(ss, s) == {x \in ss : ShiftOf(x.ts) = s}

MutUpsertDay(d) ==
    LET ss == OfDay(fetched, d)
    IN  IF ss = {} \/ ~daily[d].prov THEN daily[d]
        ELSE [sum |-> Total(ss), n |-> Cardinality(ss), prov |-> d >= DayOf(now)]

UpsertDay(d) ==
    LET ss == OfDay(fetched, d)
    IN  IF ss = {} THEN daily[d]
        ELSE [sum |-> Total(ss), n |-> Cardinality(ss), prov |-> d >= DayOf(now)]

UpsertShift(s) ==
    LET ss == OfShift(fetched, s)
    IN  IF ss = {} THEN shiftly[s] ELSE [sum |-> Total(ss), n |-> Cardinality(ss)]

Upsert ==
    /\ fetchedAt > 0
    /\ daily' = [d \in Days |-> UpsertDay(d)]
    /\ shiftly' = [s \in Shifts |-> UpsertShift(s)]
    /\ settled' = fetchedAt
    /\ fetched' = {} /\ fetchedAt' = 0
    /\ UNCHANGED <<now, wtick, ran, scene, smooth, live, samples, pruned>>

KpiTick == Advance(KpiEnd) /\ UNCHANGED kpiVars

KpiNext ==
    \/ \E s \in Scenes : WaitTick(s)
    \/ WaitSkip \/ Fetch \/ Upsert \/ KpiTick

KpiSpec == ClockInit /\ KpiInit /\ [][KpiNext]_<<now, kpiVars>>

------------------------------------------------------------------------------
KpiTypeOK ==
    /\ wtick \in 0..(PruneEvery - 1) /\ ran \in 0..now /\ scene \in Scenes \cup {NoScene}
    /\ Len(smooth) <= SmoothLen /\ Len(live) <= 1
    /\ \A x \in samples \cup pruned \cup fetched : x \in [ts : 1..now, sr : 0..Cardinality(Qcs)]
    /\ fetchedAt \in 0..now /\ settled \in 0..now
    /\ \A d \in Days : daily[d].sum \in Nat /\ daily[d].n \in Nat /\ daily[d].prov \in BOOLEAN
    /\ \A s \in Shifts : shiftly[s].sum \in Nat /\ shiftly[s].n \in Nat

\* The counters of a tick are nested as their names say, and every crane whose
\* own row says starving_real is one of the cranes the tick's starving_real
\* counts: the two tables never tell opposite stories.
CountsNested ==
    /\ RowGenuine(scene) \subseteq StarvingReal(scene)
    /\ RowStarving(scene) \subseteq StarvingReal(scene)
    /\ StarvingReal(scene) \subseteq StarvingGps(scene)
    /\ StarvingBoth(scene) \subseteq StarvingGps(scene)
    /\ StarvingGps(scene) \subseteq Working(scene)

Intact(d) == \A x \in pruned : DayOf(x.ts) # d
EverOf(d) == OfDay(samples \cup pruned, d)

\* Once an aggregation has read the table after a business date ended, and as
\* long as none of its samples is pruned, the date's row is final and counts
\* every sample of it, whatever was sampled while an aggregation was writing.
ClosedDayComplete ==
    \A d \in Days :
        settled > 0 /\ DayOf(settled) > d /\ Intact(d) /\ EverOf(d) # {} =>
            daily[d] = [sum |-> Total(EverOf(d)), n |-> Cardinality(EverOf(d)), prov |-> FALSE]

\* A business date's row and the rows of its two shifts tell the same total.
DaySumsShifts ==
    \A d \in Days : Intact(d) /\ {2 * d, 2 * d + 1} \subseteq Shifts =>
        /\ daily[d].sum = shiftly[2 * d].sum + shiftly[2 * d + 1].sum
        /\ daily[d].n = shiftly[2 * d].n + shiftly[2 * d + 1].n

\* The counters of a tick, the rows of a shift and the row of a date agree.
KpiInv == KpiTypeOK /\ CountsNested /\ ClosedDayComplete /\ DaySumsShifts

\* "so it survives the sample table's 14-day prune": the final row of a closed
\* business date does not change any more.
ClosedDayKept ==
    [][\A d \in Days : settled > 0 /\ DayOf(settled) > d /\ daily[d].n > 0
          => daily'[d] = daily[d]]_<<now, kpiVars>>
==============================================================================
