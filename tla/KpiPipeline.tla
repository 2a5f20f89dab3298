----------------------------- MODULE KpiPipeline -----------------------------
(* From the mirrors of the TOS to the KPIs of a shift and of a day.  Two timer *)
(* units fold the current shift (shift.rs) and roll the shifts up to today's   *)
(* provisional row; once a night the whole of yesterday is extracted, rolled   *)
(* up as final and compared with the weeks before (kpis/*.rs, transform.rs,    *)
(* baseline.rs); an operator runs the same steps by hand (main.rs).  The       *)
(* commands are programs of one statement or transaction per step; nothing     *)
(* keeps two of them apart.  A weighted mean is abstracted to the set of moves *)
(* it is taken over: means over disjoint windows combine to the mean of the    *)
(* union.                                                                      *)
EXTENDS Clock, Sequences, SequencesExt, FiniteSets

CONSTANTS
    NShifts, ShiftLen,  \* shifts of a day, instants of a shift
    KPI_T1_SRC,         \* positions of the switch: "local", "oracle"
    BASELINE_DAYS,
    Late,               \* a move reaches the mirror so much later at most
    PipeEnd,            \* bound: last instant of the clock; nothing lands or fails at it
    MaxLanded,          \* bound: moves
    MaxManual,          \* bound: commands of the operator
    MaxPipeFaults       \* bound: statements that fail, units that are stopped

ASSUME PipeAssumption ==
    /\ NShifts \in Nat \ {0} /\ ShiftLen \in Nat \ {0} /\ BASELINE_DAYS \in Nat \ {0}
    /\ KPI_T1_SRC \subseteq {"local", "oracle"}
    /\ Late \in Nat /\ PipeEnd \in Nat \ {0}

\* One KPI per kind of source: with a panel of its own, without a row in raw_*
\* and not in the roll-up of the shifts, or neither.
Kpis == {"mph", "util", "empty"}
RawKpis == {"mph", "empty"}

DayLen == NShifts * ShiftLen
Days == 0..(PipeEnd \div DayLen)
Shifts == 0..(NShifts - 1)
date(t) == t \div DayLen
Timers == {"t1", "t2", "nightly"}
Commands == Timers \cup {"manual"}

NoDaily == [moves |-> {}, mark |-> "none"]
NoBaseline == [today |-> {}, days |-> {}, on |-> FALSE]
NoCommand == [todo |-> << >>, day |-> 0, sh |-> 0, end |-> 0, read |-> {}, src |-> "local"]

VARIABLES
    landed,         \* the mirrors: times of the moves of a KPI
    kpi_shift, vessel_shift,
    kpi_shift_history,  \* the row that was appended last
    raw, kpi_daily, kpi_baseline,
    cmds,           \* what every command has left to do
    night,          \* the last day the nightly timer fired on
    mixed,          \* history: days on which the day path was not one whole nightly run
    manual, pipeFaults

pipeVars == <<landed, kpi_shift, kpi_shift_history, vessel_shift, raw, kpi_daily, kpi_baseline,
              cmds, night, mixed, manual, pipeFaults>>
dayTables == <<raw, kpi_daily, kpi_baseline>>
shiftTables == <<kpi_shift, kpi_shift_history, vessel_shift>>

PipeInit ==
    /\ landed = [k \in Kpis |-> {}]
    /\ kpi_shift = [d \in Days |-> [s \in Shifts |-> [k \in Kpis |-> {}]]]
    /\ kpi_shift_history = [d \in Days |-> [s \in Shifts |-> [k \in Kpis |-> {}]]]
    /\ vessel_shift = [d \in Days |-> [s \in Shifts |-> {}]]
    /\ raw = [d \in Days |-> [k \in RawKpis |-> {}]]
    /\ kpi_daily = [d \in Days |-> [k \in Kpis |-> NoDaily]]
    /\ kpi_baseline = [d \in Days |-> [k \in Kpis |-> NoBaseline]]
    /\ cmds = [c \in Commands |-> NoCommand]
    /\ night = 0 /\ mixed = {} /\ manual = 0 /\ pipeFaults = 0

--------------------------------------------------------------------------------
(* The mirrors and the clock. *)

Land(k) ==
    /\ now < PipeEnd
    /\ Cardinality(UNION {{<<j, t>> : t \in landed[j]} : j \in Kpis}) < MaxLanded
    /\ \E t \in 0..now : now - t <= Late /\ landed' = [landed EXCEPT ![k] = @ \cup {t}]
    /\ UNCHANGED <<now, cmds, night, mixed, manual, pipeFaults>>
    /\ UNCHANGED dayTables /\ UNCHANGED shiftTables

PipeClock == Advance(PipeEnd) /\ UNCHANGED pipeVars

--------------------------------------------------------------------------------
(* Shifts. *)

MutCurrent(t) == IF t % DayLen = 0 THEN 0 ELSE ((t - 1) % DayLen) \div ShiftLen

current(t) == (t % DayLen) \div ShiftLen
start_hour(d, s) == d * DayLen + s * ShiftLen
window(d, s) == [start |-> start_hour(d, s), end |-> start_hour(d, s) + ShiftLen]

\* The rows of the mirror before the end of the window, or of the TOS up to it.
render_shift(k, src, w) ==
    {t \in landed[k] : w.start <= t /\ (t < w.end \/ (src = "oracle" /\ t = w.end))}

render_day(k, d) == {t \in landed[k] : date(t) = d}

--------------------------------------------------------------------------------
(* The programs. *)

Step(op, k) == [op |-> op, k |-> k]

src_mph_vessels == <<Step("fetch", "mph"), Step("shift", "mph"), Step("history", "mph"),
                     Step("vessel", "mph")>>
src_util == <<Step("fetch", "util"), Step("shift", "util"), Step("history", "util")>>
src_empty == <<Step("fetch", "empty"), Step("shift", "empty"), Step("history", "empty")>>
Rollup == <<Step("rollup", "all")>>

TierOf(c) == IF c = "t1" THEN src_mph_vessels \o src_util \o Rollup ELSE src_empty \o Rollup

extract(k) == <<Step("extract", k), Step("upsert", k)>>
run_kpi_all == extract("mph") \o extract("empty")
KpiOrder == <<"mph", "util", "empty">>
run_marked(mark) == <<Step(mark, "all")>>
baseline_run == <<Step("baseline", "all")>>

MutRun == run_kpi_all \o baseline_run \o run_marked("final")

Run == run_kpi_all \o run_marked("final") \o baseline_run
Backfill == run_kpi_all \o run_marked("final")
Transform == run_marked("final") \o baseline_run
Tick(k) == extract(k) \o run_marked("provisional") \o baseline_run

Busy(c) == cmds[c].todo # << >>

Begin(c, program, d) ==
    /\ ~Busy(c)
    /\ cmds' = [cmds EXCEPT ![c] =
                  [NoCommand EXCEPT !.todo = program, !.day = d, !.sh = current(now), !.end = now]]

\* The window of a tick ends when the tick starts; it is always in one shift.  The
\* timer starts no two runs of a unit at once or in the same instant.
tick_shift(c) ==
    /\ ~Busy(c) /\ cmds[c].end < now
    /\ \E src \in KPI_T1_SRC :
        cmds' = [cmds EXCEPT ![c] =
                   [todo |-> TierOf(c), day |-> date(now), sh |-> current(now), end |-> now,
                    read |-> {}, src |-> src]]
    /\ UNCHANGED <<now, landed, night, mixed, manual, pipeFaults>>
    /\ UNCHANGED dayTables /\ UNCHANGED shiftTables

yesterday == date(now) - 1

Nightly ==
    /\ yesterday >= 0 /\ night < date(now)
    /\ Begin("nightly", Run, yesterday)
    /\ night' = date(now)
    /\ mixed' = IF \E c \in Commands : Busy(c) /\ cmds[c].day = yesterday
                  THEN mixed \cup {yesterday} ELSE mixed
    /\ UNCHANGED <<now, landed, manual, pipeFaults>>
    /\ UNCHANGED dayTables /\ UNCHANGED shiftTables

\* A day of a backfill, a run or a transformation of a chosen day, or a tick of
\* the day path.
Manual ==
    /\ manual < MaxManual /\ manual' = manual + 1
    /\ \E d \in 0..date(now) :
        /\ \/ \E program \in {Run, Backfill, Transform} \cup {extract(k) : k \in RawKpis} :
                Begin("manual", program, d)
           \/ d = date(now) /\ \E k \in RawKpis : Begin("manual", Tick(k), d)
        /\ mixed' = mixed \cup {d}
    /\ UNCHANGED <<now, landed, night, pipeFaults>>
    /\ UNCHANGED dayTables /\ UNCHANGED shiftTables

--------------------------------------------------------------------------------
(* The steps.  The first step of command c is carried out. *)

At(c, op) == Busy(c) /\ Head(cmds[c].todo).op = op
KpiOf(c) == Head(cmds[c].todo).k
Ended(c) == [NoCommand EXCEPT !.end = cmds[c].end]
Done(c) == IF Len(cmds[c].todo) = 1 THEN Ended(c) ELSE [cmds[c] EXCEPT !.todo = Tail(@)]
Went(c) == cmds' = [cmds EXCEPT ![c] = Done(c)]
rest == <<now, landed, night, mixed, manual, pipeFaults>>

Window(j) == [window(j.day, j.sh) EXCEPT !.end = IF j.end < @ THEN j.end ELSE @]

fetch(c) ==
    /\ At(c, "fetch")
    /\ cmds' = [cmds EXCEPT ![c] = [Done(c) EXCEPT
                   !.read = render_shift(KpiOf(c), cmds[c].src, Window(cmds[c]))]]
    /\ UNCHANGED rest /\ UNCHANGED dayTables /\ UNCHANGED shiftTables

upsert_shift(c) ==
    /\ At(c, "shift")
    /\ LET j == cmds[c]
       IN  kpi_shift' = [kpi_shift EXCEPT ![j.day][j.sh][KpiOf(c)] = j.read]
    /\ Went(c)
    /\ UNCHANGED <<rest, kpi_shift_history, vessel_shift>> /\ UNCHANGED dayTables

append_history(c) ==
    /\ At(c, "history")
    /\ LET j == cmds[c]
       IN  kpi_shift_history' = [kpi_shift_history EXCEPT ![j.day][j.sh][KpiOf(c)] = j.read]
    /\ Went(c)
    /\ UNCHANGED <<rest, kpi_shift, vessel_shift>> /\ UNCHANGED dayTables

VesselRows(c) == cmds[c].read

write_vessel_shift(c) ==
    /\ At(c, "vessel")
    /\ LET j == cmds[c]
       IN  vessel_shift' = [vessel_shift EXCEPT ![j.day][j.sh] = VesselRows(c)]
    /\ Went(c)
    /\ UNCHANGED <<rest, kpi_shift, kpi_shift_history>> /\ UNCHANGED dayTables

ShiftMoves(d, k) == UNION {kpi_shift[d][s][k] : s \in Shifts}

MutRolled(d, k) ==
    IF k \in RawKpis /\ ShiftMoves(d, k) # {}
      THEN [moves |-> ShiftMoves(d, k), mark |-> "provisional"] ELSE kpi_daily[d][k]

MutRolledWhole(d, k) ==
    IF k \in RawKpis /\ (\A s \in Shifts : kpi_shift[d][s][k] # {}) /\ kpi_daily[d][k].mark # "final"
      THEN [moves |-> ShiftMoves(d, k), mark |-> "provisional"] ELSE kpi_daily[d][k]

\* The row of a day after the roll-up of its shifts; a final one stays.
Rolled(d, k) ==
    IF k \in RawKpis /\ ShiftMoves(d, k) # {} /\ kpi_daily[d][k].mark # "final"
      THEN [moves |-> ShiftMoves(d, k), mark |-> "provisional"] ELSE kpi_daily[d][k]

rollup_today_from_shifts(c) ==
    /\ At(c, "rollup")
    /\ LET d == cmds[c].day
       IN  kpi_daily' = [kpi_daily EXCEPT ![d] = [k \in Kpis |-> Rolled(d, k)]]
    /\ Went(c)
    /\ UNCHANGED <<rest, raw, kpi_baseline>> /\ UNCHANGED shiftTables

query_day(c) ==
    /\ At(c, "extract")
    /\ cmds' = [cmds EXCEPT ![c] = [Done(c) EXCEPT !.read = render_day(KpiOf(c), cmds[c].day)]]
    /\ UNCHANGED rest /\ UNCHANGED dayTables /\ UNCHANGED shiftTables

\* Rows are overwritten and added, and none is deleted: nothing read, nothing written.
upsert_raw(c) ==
    /\ At(c, "upsert")
    /\ LET j == cmds[c]
       IN  raw' = [raw EXCEPT ![j.day][KpiOf(c)] = IF j.read = {} THEN @ ELSE j.read]
    /\ Went(c)
    /\ UNCHANGED <<rest, kpi_daily, kpi_baseline>> /\ UNCHANGED shiftTables

\* A day without a source row writes nothing.
Source(d, k) == IF k \in RawKpis THEN raw[d][k] ELSE render_day(k, d)

\* The KPIs are written one after the other, each in a statement of its own; all
\* of them, or the ones before the statement that fails.
First(n) == {KpiOrder[i] : i \in 1..n}

kpi_daily_rows(c, mark, ks) ==
    LET d == cmds[c].day
    IN  kpi_daily' = [kpi_daily EXCEPT ![d] =
            [k \in Kpis |-> IF k \in ks /\ Source(d, k) # {}
                              THEN [moves |-> Source(d, k), mark |-> mark] ELSE @[k]]]

upsert_daily(c) ==
    /\ \E mark \in {"final", "provisional"} : At(c, mark) /\ kpi_daily_rows(c, mark, Kpis)
    /\ Went(c)
    /\ UNCHANGED <<rest, raw, kpi_baseline>> /\ UNCHANGED shiftTables

series(k, from, to) == {d \in Days : from <= d /\ d <= to /\ kpi_daily[d][k] # NoDaily}

compute_one(d, k) ==
    [today |-> kpi_daily[d][k].moves, days |-> series(k, d - BASELINE_DAYS, d - 1), on |-> TRUE]

kpi_baseline_rows(c, ks) ==
    LET d == cmds[c].day
    IN  kpi_baseline' = [kpi_baseline EXCEPT ![d] =
            [k \in Kpis |-> IF k \in ks /\ kpi_daily[d][k] # NoDaily THEN compute_one(d, k) ELSE @[k]]]

upsert_baseline(c) ==
    /\ At(c, "baseline") /\ kpi_baseline_rows(c, Kpis)
    /\ Went(c)
    /\ UNCHANGED <<rest, raw, kpi_daily>> /\ UNCHANGED shiftTables

\* A failed source is given up and the command goes on with the next one; a
\* failed roll-up of a day or baseline ends the command.
Resume == {"fetch", "extract", "rollup", "final", "provisional"}
GivenUp(c) ==
    LET left == Tail(cmds[c].todo)
        i == SelectInSeq(left, LAMBDA s : s.op \in Resume)
    IN  IF i = 0 THEN Ended(c) ELSE [cmds[c] EXCEPT !.todo = SubSeq(left, i, Len(left))]

Fails(c) ==
    /\ pipeFaults < MaxPipeFaults /\ now < PipeEnd
    /\ pipeFaults' = pipeFaults + 1
    /\ mixed' = IF c \in {"nightly", "manual"} THEN mixed \cup {cmds[c].day} ELSE mixed
    /\ UNCHANGED <<now, landed, night, manual>> /\ UNCHANGED shiftTables

SourceFails(c) ==
    /\ Busy(c) /\ ~\E op \in {"final", "provisional", "baseline"} : At(c, op)
    /\ Fails(c)
    /\ cmds' = [cmds EXCEPT ![c] = GivenUp(c)]
    /\ UNCHANGED dayTables

DayFails(c) ==
    /\ Fails(c)
    /\ \E n \in 0..(Len(KpiOrder) - 1) :
        \/ /\ \E mark \in {"final", "provisional"} : At(c, mark) /\ kpi_daily_rows(c, mark, First(n))
           /\ UNCHANGED kpi_baseline
        \/ /\ At(c, "baseline") /\ kpi_baseline_rows(c, First(n))
           /\ UNCHANGED kpi_daily
    /\ cmds' = [cmds EXCEPT ![c] = Ended(c)]
    /\ UNCHANGED raw

UnitDies(c) ==
    /\ Busy(c) /\ Fails(c)
    /\ cmds' = [cmds EXCEPT ![c] = Ended(c)]
    /\ UNCHANGED dayTables

OneStep(c) ==
    \/ fetch(c) \/ upsert_shift(c) \/ append_history(c) \/ write_vessel_shift(c)
    \/ rollup_today_from_shifts(c)
    \/ query_day(c) \/ upsert_raw(c) \/ upsert_daily(c) \/ upsert_baseline(c)

PipeNext ==
    \/ \E k \in Kpis : Land(k)
    \/ PipeClock
    \/ \E c \in {"t1", "t2"} : tick_shift(c)
    \/ Nightly \/ Manual
    \/ \E c \in Commands : OneStep(c) \/ SourceFails(c) \/ DayFails(c) \/ UnitDies(c)

(* Time goes on, the timers of the shift fire and their runs go on to their end. *)
ShiftUnit(c) == tick_shift(c) \/ OneStep(c)
PipeFairness ==
    /\ WF_<<now, pipeVars>>(PipeClock)
    /\ \A c \in {"t1", "t2"} : WF_<<now, pipeVars>>(ShiftUnit(c))

PipeSpec ==
    ClockInit /\ PipeInit /\ [][PipeNext]_<<now, pipeVars>> /\ PipeFairness

--------------------------------------------------------------------------------
\* Every variable has its type; no move is of the future,
\* and every row of a day is about moves of that day.
PipeTypeOK ==
    /\ \A k \in Kpis : landed[k] \subseteq 0..now
    /\ \A d \in Days, s \in Shifts, k \in Kpis :
         /\ \A t \in kpi_shift[d][s][k] : date(t) = d
         /\ kpi_daily[d][k].mark \in {"none", "provisional", "final"}
         /\ \A t \in kpi_daily[d][k].moves : date(t) = d
         /\ kpi_baseline[d][k].days \subseteq Days

\* The weights of the roll-up may be added: no move is in the cumulative row of
\* two shifts, whichever of them is read from the TOS and whenever its tick began.
CountedOnce ==
    \A d \in Days, k \in Kpis, s1, s2 \in Shifts :
        s1 # s2 => kpi_shift[d][s1][k] \cap kpi_shift[d][s2][k] = {}

\* The vessel panel and the history never show a move that the headline of the
\* shift does not count: they are written after it, from the same reading.
PanelMatches ==
    \A d \in Days, s \in Shifts :
        /\ vessel_shift[d][s] \subseteq kpi_shift[d][s]["mph"]
        /\ \A k \in Kpis : kpi_shift_history[d][s][k] \subseteq kpi_shift[d][s][k]

\* The tables of the shifts are of one piece, and of their day.
PipeInv == PipeTypeOK /\ CountedOnce /\ PanelMatches

\* The authoritative value of a day stays: a shift tick that began before midnight
\* and rolls its day up after the nightly run does not take it back.  Only the tick
\* of the day path marks it provisional again.
FinalKept ==
    [][\A d \in Days, k \in Kpis :
         kpi_daily[d][k].mark = "final" =>
            \/ kpi_daily'[d][k].mark = "final"
            \/ At("manual", "provisional")]_<<now, pipeVars>>

\* The value of a day is only ever replaced by one over more moves, as shifts
\* follow one another and the nightly run takes over, on a day whose extraction was
\* left to one undisturbed nightly run that began when its shift ticks had ended.
RowGrows ==
    [][\A d \in Days \ mixed', k \in Kpis :
         kpi_daily[d][k].moves \subseteq kpi_daily'[d][k].moves]_<<now, pipeVars>>

\* A row of a day neither loses its mark nor its moves.
DayKept == FinalKept /\ RowGrows

\* After an undisturbed nightly run the baseline compares the value that the day
\* shows, and its window does not contain the day.
BaselineTracks ==
    \A d \in Days \ mixed, k \in Kpis :
        kpi_daily[d][k].mark = "final" /\ ~Busy("nightly") =>
            /\ kpi_baseline[d][k].on
            /\ kpi_baseline[d][k].today = kpi_daily[d][k].moves
            /\ d \notin kpi_baseline[d][k].days

\* Today's row catches up with the moves of the current shift, whatever failed
\* before, unless a command already made it final.
TodayCatchesUp ==
    <>[](\A k \in RawKpis :
           LET d == date(now)
           IN  \/ kpi_daily[d][k].mark = "final"
               \/ d \in mixed
               \/ {t \in landed[k] : start_hour(d, current(now)) <= t /\ t < now}
                    \subseteq kpi_daily[d][k].moves)
================================================================================
